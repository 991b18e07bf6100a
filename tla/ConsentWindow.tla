---------------------------- MODULE ConsentWindow ----------------------------
(***************************************************************************)
(* The life of the consent window (daemon/mod.rs, daemon/server.rs,        *)
(* daemon/state.rs, daemon/child.rs): a child process that the daemon      *)
(* spawns when there is something to decide, restarts when it must come to *)
(* the front, and tells to go when the queue drains.                       *)
(*                                                                         *)
(* ConsentBroker says which asks are answered and how; here an ask only    *)
(* waits, is decided or is abandoned, and what counts is whether a window  *)
(* is there.  A client stands for the processes with one AskSignature (one *)
(* command under one parent), one at a time: it asks, and may ask again.   *)
(* A step is one critical section of the State mutex, one step of a child  *)
(* process, or a deadline that passes.                                     *)
(***************************************************************************)
EXTENDS Naturals, FiniteSets

CONSTANTS
    Clients,        \* ask signatures
    Keys,           \* dedupe keys
    KeyOf,          \* KeyOf[c]: the key of c's asks
    Windows,        \* bound: children and handlers at a time; reused
    SuppressAfter,  \* ABANDON_SUPPRESS_AFTER
    MaxLate,        \* bound: spawns that outlive CONSENT_SPAWN_TIMEOUT
    MaxCrashes      \* bound: children that crash or cannot be spawned

ASSUME WindowAssumption ==
    /\ KeyOf \in [Clients -> Keys]
    /\ IsFiniteSet(Windows)
    /\ SuppressAfter \in Nat \ {0}
    /\ MaxLate \in Nat /\ MaxCrashes \in Nat

VARIABLES
    pc,          \* where the connection thread of each client is
    waiting,     \* clients with a waiter on the queue
    cards,       \* pending: keys with a "Resolving" card
    streak,      \* abandon_streaks: consecutive abandonments
    quiet,       \* clients whose quiet_until lies ahead
    emptySince,  \* queue_empty_since: "none", "fresh" or past the "grace"
    subs,        \* consent.subscribers
    focused,     \* subscribers that reported the keyboard focus
    spawnMark,   \* consent.spawn: a spawn is in flight
    restart,     \* consent_restart_pending
    tick,        \* where the main loop is
    win,         \* each child and, once it has attached, its handler thread
    late,        \* spawns that were given up although the child was coming
    crashes      \* children that crashed or could not be spawned

queue == <<waiting, cards, streak, quiet, emptySince>>
group == <<subs, focused, restart>>
bounds == <<late, crashes>>
vars == <<pc, queue, group, spawnMark, tick, win, bounds>>

\* What a window goes through.  A "leaving" child has a ConsentExitPlease on
\* its socket, a "closed" one left a ConsentWindowDismissed on it; the handler
\* of a "dead" one has still to detach it, then looks at the restart flag.
Phases == {"none", "starting", "up", "leaving", "closed", "dead", "restart",
           "ensure"}

Goto(c, label) == pc' = [pc EXCEPT ![c] = label]
Becomes(w, phase) == win' = [win EXCEPT ![w] = phase]

Entry(k) == {c \in waiting : KeyOf[c] = k}

Init ==
    /\ pc = [c \in Clients |-> "idle"]
    /\ waiting = {} /\ cards = {}
    /\ streak = [c \in Clients |-> 0] /\ quiet = {}
    /\ emptySince = "none"
    /\ subs = {} /\ focused = {} /\ restart = FALSE
    /\ spawnMark = FALSE
    /\ tick = "sleep"
    /\ win = [w \in Windows |-> "none"]
    /\ late = 0 /\ crashes = 0

-----------------------------------------------------------------------------
(* What the critical sections have in common. *)

\* ConsentExitPlease to every subscriber, the windows being as f says.
Told(f) == [w \in Windows |-> IF w \in subs /\ f[w] = "up" THEN "leaving" ELSE f[w]]

\* Mutant of broadcast_consent_exit_please: the clock is stopped even if there
\* is nobody to tell.
ExitPleaseToNobody(f, since) == win' = Told(f) /\ emptySince' = "none"

\* Telling somebody to go stops the grace clock, which reads since.
broadcast_consent_exit_please(f, since) ==
    /\ win' = Told(f)
    /\ emptySince' = IF subs = {} THEN since ELSE "none"

\* refresh_queue_empty_since and maybe_immediate_auto_hide, when q are waiting
\* and cs are the resolving cards: a drained queue starts the grace clock, and
\* closes the window at once if there is one.
Drain(q, cs, f) ==
    IF q # {} \/ cs # {}
    THEN emptySince' = "none" /\ win' = f
    ELSE broadcast_consent_exit_please(
             f, IF emptySince = "none" THEN "fresh" ELSE emptySince)

\* Only an entry all of whose waiters are in a quiet period raises nothing.
entry_is_suppressed(k) == Entry(k) \subseteq quiet

\* Something to show, and nobody to show it.
needs_consent_window ==
    /\ subs = {}
    /\ \/ cards # {}
       \/ \E k \in Keys : Entry(k) # {} /\ ~entry_is_suppressed(k)

\* Slots are interchangeable, so the first one will do.
Free(f) == {w \in Windows : f[w] = "none"}

\* Spawns a child in a free slot, unless one is there, on its way, or about to
\* be replaced by the handler of a dying one.  A failed Command::spawn leaves
\* the mark.
ensure_consent_window(f) ==
    IF needs_consent_window /\ ~spawnMark /\ ~restart
    THEN /\ spawnMark' = TRUE
         /\ \/ /\ Free(f) # {}
               /\ win' = [f EXCEPT ![CHOOSE w \in Free(f) : TRUE] = "starting"]
               /\ UNCHANGED crashes
            \/ /\ crashes < MaxCrashes
               /\ crashes' = crashes + 1
               /\ win' = f
    ELSE win' = f /\ UNCHANGED <<spawnMark, crashes>>

initiate_consent_restart ==
    IF subs = {} THEN UNCHANGED <<group, win>>
    ELSE /\ win' = Told(win)
         /\ restart' = TRUE /\ subs' = {} /\ focused' = {}

-----------------------------------------------------------------------------
(* The connection thread of an ask: the slow path of handle_ask, and the    *)
(* resolving card of resolve_approved_with_pending.                         *)

Idle(c) == pc[c] = "idle" /\ c \notin waiting

\* A new entry goes on to raise the window; a coalesced ask only ensures it.
submit_ask(c) ==
    /\ Idle(c)
    /\ waiting' = waiting \cup {c}
    /\ emptySince' = "none"
    /\ Goto(c, IF Entry(KeyOf[c]) = {} THEN "raise" ELSE "ensure")
    /\ UNCHANGED <<cards, streak, quiet, group, spawnMark, tick, win, bounds>>

\* An unfocused window is killed so that a fresh one comes to the front.
RaiseWindow(c) ==
    /\ pc[c] = "raise"
    /\ IF focused = {} THEN initiate_consent_restart
       ELSE UNCHANGED <<group, win>>
    /\ Goto(c, "ensure")
    /\ UNCHANGED <<queue, spawnMark, tick, bounds>>

\* ClientMsg::ShowWindow does the same, and after the reply ensures a window.
ShowWindow(c) ==
    /\ Idle(c)
    /\ IF focused = {} THEN initiate_consent_restart
       ELSE UNCHANGED <<group, win>>
    /\ Goto(c, "ensure")
    /\ UNCHANGED <<queue, spawnMark, tick, bounds>>

begin_pending(c) ==
    /\ Idle(c)
    /\ cards' = cards \cup {KeyOf[c]}
    /\ emptySince' = "none"
    /\ Goto(c, "ensure card")
    /\ UNCHANGED <<waiting, streak, quiet, group, spawnMark, tick, win, bounds>>

AskEnsures(c) ==
    /\ pc[c] \in {"ensure", "ensure card"}
    /\ ensure_consent_window(win)
    /\ Goto(c, IF pc[c] = "ensure" THEN "idle" ELSE "resolving")
    /\ UNCHANGED <<queue, group, tick, late>>

\* end_pending, by the thread of the ask or the worker of its entry; a no-op if
\* a sibling has cleared the card.
end_pending(c) ==
    /\ pc[c] = "resolving"
    /\ Goto(c, "idle")
    /\ cards' = cards \ {KeyOf[c]}
    /\ IF KeyOf[c] \in cards THEN Drain(waiting, cards', win)
       ELSE UNCHANGED <<win, emptySince>>
    /\ UNCHANGED <<waiting, streak, quiet, group, spawnMark, tick, bounds>>

\* withdraw_waiter and record_abandonment: after SuppressAfter abandonments in
\* a row the signature gets a quiet period.
withdraw_waiter(c) ==
    /\ pc[c] = "idle" /\ c \in waiting
    /\ waiting' = waiting \ {c}
    /\ streak' = [streak EXCEPT ![c] = IF @ < SuppressAfter THEN @ + 1 ELSE @]
    /\ quiet' = quiet \cup IF streak'[c] = SuppressAfter THEN {c} ELSE {}
    /\ Drain(waiting', cards, win)
    /\ UNCHANGED <<pc, cards, group, spawnMark, tick, bounds>>

-----------------------------------------------------------------------------
(* Decisions. *)

\* A decided signature keeps no suppression history.
clear_abandon_streak(cs) ==
    /\ streak' = [c \in Clients |-> IF c \in cs THEN 0 ELSE streak[c]]
    /\ quiet' = quiet \ cs

\* resolve_with_device: the entry of a key is decided, in a window or on a
\* phone; an approval with a cold cache leaves a card and a worker, which the
\* model lets a parked client of the entry stand for.
resolve(k) ==
    /\ Entry(k) # {}
    /\ waiting' = waiting \ Entry(k)
    /\ clear_abandon_streak(Entry(k))
    /\ \/ UNCHANGED <<pc, cards>>
       \/ \E c \in Entry(k) : /\ pc[c] = "idle" /\ Goto(c, "resolving")
                              /\ cards' = cards \cup {k}
    /\ Drain(waiting', cards', win)
    /\ UNCHANGED <<group, spawnMark, tick, bounds>>

\* A window's decision on an entry that is gone.
ResolveNothing(w) ==
    /\ win[w] \in {"up", "leaving", "dead"}
    /\ Drain(waiting, cards, win)
    /\ UNCHANGED <<pc, waiting, cards, streak, quiet, group, spawnMark, tick,
                   bounds>>

-----------------------------------------------------------------------------
(* The children, and handle_consent_window_connection for each.             *)

\* A child connects; a new subscriber counts as focused.
attach_consent_window(w) ==
    /\ win[w] = "starting"
    /\ Becomes(w, "up")
    /\ subs' = subs \cup {w} /\ focused' = focused \cup {w}
    /\ spawnMark' = FALSE
    /\ UNCHANGED <<pc, queue, restart, tick, bounds>>

\* A report of the child, which may be read after it has ended.
set_consent_focused(w) ==
    /\ w \in subs
    /\ focused' = IF w \in focused THEN focused \ {w} ELSE focused \cup {w}
    /\ UNCHANGED <<pc, queue, subs, restart, spawnMark, tick, win, bounds>>

\* The reader thread of the child gets ConsentExitPlease.
ExitOnPlease(w) ==
    /\ win[w] = "leaving"
    /\ Becomes(w, "dead")
    /\ UNCHANGED <<pc, queue, group, spawnMark, tick, bounds>>

\* The user closes the window, which says so before its process ends.
UserCloses(w) ==
    /\ win[w] \in {"up", "leaving"}
    /\ Becomes(w, "closed")
    /\ UNCHANGED <<pc, queue, group, spawnMark, tick, bounds>>

Crash(w) ==
    /\ win[w] \in {"starting", "up"}
    /\ crashes < MaxCrashes
    /\ crashes' = crashes + 1
    /\ Becomes(w, IF win[w] = "up" THEN "dead" ELSE "none")
    /\ UNCHANGED <<pc, queue, group, spawnMark, tick, late>>

\* A broadcast prunes a subscriber whose writer thread has failed on the socket
\* of a child that is gone.  Any critical section may be the one; which does
\* not matter, so it is a step of its own.
PruneSubscriber(w) ==
    /\ w \in subs /\ win[w] \in {"closed", "dead"}
    /\ subs' = subs \ {w} /\ focused' = focused \ {w}
    /\ UNCHANGED <<pc, queue, restart, spawnMark, tick, win, bounds>>

\* ConsentWindowDismissed: deny_all_awaiting.
deny_all_awaiting(w) ==
    /\ win[w] = "closed"
    /\ waiting' = {}
    /\ clear_abandon_streak(waiting)
    /\ LET f == [win EXCEPT ![w] = "dead"]
       IN  IF waiting = {} THEN win' = f /\ UNCHANGED emptySince
           ELSE Drain({}, cards, f)
    /\ UNCHANGED <<pc, cards, group, spawnMark, tick, bounds>>

\* The read loop is over: ConsentWindowDetach, a dismissal or end of stream.
detach_consent_window(w) ==
    /\ win[w] = "dead"
    /\ subs' = subs \ {w} /\ focused' = focused \ {w}
    /\ Becomes(w, "restart")
    /\ UNCHANGED <<pc, queue, restart, spawnMark, tick, bounds>>

\* A restart goes on to spawn the successor; any other end hides the window,
\* which has no effect on the state kept here.
take_consent_restart_pending(w) ==
    /\ win[w] = "restart"
    /\ restart' = FALSE
    /\ Becomes(w, IF restart THEN "ensure" ELSE "none")
    /\ UNCHANGED <<pc, queue, subs, focused, spawnMark, tick, bounds>>

HandlerEnsures(w) ==
    /\ win[w] = "ensure"
    /\ ensure_consent_window([win EXCEPT ![w] = "none"])
    /\ UNCHANGED <<pc, queue, group, tick, late>>

-----------------------------------------------------------------------------
(* The main loop, and deadlines. *)

\* AUTO_HIDE_GRACE after the queue drained, the tick tells the window to go.
AutoHide ==
    /\ tick = "sleep"
    /\ subs # {} /\ emptySince = "grace"
    /\ broadcast_consent_exit_please(win, emptySince)
    /\ UNCHANGED <<pc, waiting, cards, streak, quiet, group, spawnMark, tick,
                   bounds>>

\* Mutant of CheckPrompt: the tick never raises a prompt.
CheckNothing == FALSE

\* The tick sees something to show and nobody to show it.
CheckPrompt ==
    /\ tick = "sleep"
    /\ needs_consent_window /\ ~spawnMark
    /\ tick' = "ensure"
    /\ UNCHANGED <<pc, queue, group, spawnMark, win, bounds>>

TickEnsures ==
    /\ tick = "ensure"
    /\ ensure_consent_window(win)
    /\ tick' = "sleep"
    /\ UNCHANGED <<pc, queue, group, late>>

\* AUTO_HIDE_GRACE has passed.
GraceElapses ==
    /\ emptySince = "fresh"
    /\ emptySince' = "grace"
    /\ UNCHANGED <<pc, waiting, cards, streak, quiet, group, spawnMark, tick,
                   win, bounds>>

Starting == {w \in Windows : win[w] = "starting"}

\* CONSENT_SPAWN_TIMEOUT has passed; the child may still be on its way.
SpawnTimesOut ==
    /\ spawnMark
    /\ Starting # {} => late < MaxLate
    /\ spawnMark' = FALSE
    /\ late' = IF Starting = {} THEN late ELSE late + 1
    /\ UNCHANGED <<pc, queue, group, tick, win, crashes>>

\* quiet_until has come.
QuietLapses(c) ==
    /\ c \in quiet
    /\ quiet' = quiet \ {c}
    /\ UNCHANGED <<pc, waiting, cards, streak, emptySince, group, spawnMark,
                   tick, win, bounds>>

\* ABANDON_STREAK_RESET_SECS without an abandonment; longer than any quiet
\* period.
StreakResets(c) ==
    /\ streak[c] > 0 /\ c \notin quiet
    /\ streak' = [streak EXCEPT ![c] = 0]
    /\ UNCHANGED <<pc, waiting, cards, quiet, emptySince, group, spawnMark,
                   tick, win, bounds>>

-----------------------------------------------------------------------------
Connection(c) == RaiseWindow(c) \/ AskEnsures(c) \/ end_pending(c)

Handler(w) ==
    \/ deny_all_awaiting(w)
    \/ detach_consent_window(w)
    \/ take_consent_restart_pending(w)
    \/ HandlerEnsures(w)

MainLoop == AutoHide \/ CheckPrompt \/ TickEnsures

Next ==
    \/ \E c \in Clients : \/ submit_ask(c)
                          \/ begin_pending(c)
                          \/ ShowWindow(c)
                          \/ Connection(c)
                          \/ withdraw_waiter(c)
                          \/ QuietLapses(c)
                          \/ StreakResets(c)
    \/ \E k \in Keys : resolve(k)
    \/ \E w \in Windows : \/ attach_consent_window(w)
                          \/ set_consent_focused(w)
                          \/ ResolveNothing(w)
                          \/ ExitOnPlease(w)
                          \/ UserCloses(w)
                          \/ Crash(w)
                          \/ PruneSubscriber(w)
                          \/ Handler(w)
    \/ MainLoop
    \/ GraceElapses
    \/ SpawnTimesOut

\* The daemon's threads run, a provider call returns, a child comes up and
\* obeys, time passes.  Nothing is assumed of people and clients: nobody need
\* ask, decide, hang up or close a window.
Fairness ==
    /\ \A c \in Clients : WF_vars(Connection(c)) /\ WF_vars(QuietLapses(c))
    /\ \A w \in Windows : /\ WF_vars(attach_consent_window(w))
                          /\ WF_vars(ExitOnPlease(w))
                          /\ WF_vars(Handler(w))
    /\ WF_vars(MainLoop)
    /\ WF_vars(GraceElapses)
    /\ WF_vars(SpawnTimesOut)

Spec == Init /\ [][Next]_vars /\ Fairness

-----------------------------------------------------------------------------
(* Properties. *)

\* The state of every variable is of its type.
TypeOK ==
    /\ pc \in [Clients -> {"idle", "raise", "ensure", "ensure card",
                           "resolving"}]
    /\ waiting \subseteq Clients /\ cards \subseteq Keys
    /\ streak \in [Clients -> 0..SuppressAfter] /\ quiet \subseteq Clients
    /\ emptySince \in {"none", "fresh", "grace"}
    /\ focused \subseteq subs /\ subs \subseteq Windows
    /\ restart \in BOOLEAN /\ spawnMark \in BOOLEAN
    /\ tick \in {"sleep", "ensure"}
    /\ win \in [Windows -> Phases]
    /\ late \in 0..MaxLate /\ crashes \in 0..MaxCrashes

Visible == \E w \in subs : win[w] = "up"

\* Whoever waits for a decision gets a prompt in front of somebody: whatever
\* closed, crashed, was told to go or was suppressed when it asked, sooner or
\* later a window is up, unless the ask is decided or withdrawn first.
PromptIsRaised ==
    \A c \in Clients : (c \in waiting) ~> (Visible \/ c \notin waiting)

NothingToShow == waiting = {} /\ cards = {}

\* A prompt with nothing to show goes away, also one that attached after the
\* queue had drained, unless a child came up after its spawn was given up.
PromptGoesAway ==
    (NothingToShow /\ subs # {} /\ late = 0)
        ~> (subs = {} \/ ~NothingToShow \/ late > 0)
=============================================================================
