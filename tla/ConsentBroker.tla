---------------------------- MODULE ConsentBroker ----------------------------
(***************************************************************************)
(* The daemon's decision path (daemon/server.rs, daemon/state.rs): what    *)
(* happens to an ask from the moment its connection thread reads it until  *)
(* its client has an answer or has gone.                                   *)
(*                                                                         *)
(* An ask is authorised by a remembered approval, by a rule, by an earlier *)
(* consent of its run session, or by a person: through the consent window, *)
(* a child process on a FIFO socket that renders the queue with some       *)
(* delay, or through a linked phone.  Asks with equal dedupe keys share    *)
(* one queue entry, one card and one decision.                             *)
(*                                                                         *)
(* A step is one critical section of the State mutex, or one step of a     *)
(* thread that does not hold it.  Resolution is what SecretResolution      *)
(* shows it to be: a call gets every cached secret, and of the others any  *)
(* (for one ask: all or an error; for a union: any subset).                *)
(***************************************************************************)
EXTENDS Naturals, Sequences, FiniteSets, Provenance

CONSTANTS
    Asks,        \* asks, one connection each
    Ask,         \* Ask[a]: what it carries, see AskRecord
    Wraps,       \* wrap names
    Processes,   \* process identities (pid and start time)
    Sessions,    \* run sessions (pid and nonce)
    Secrets,     \* (provider, locator) pairs
    TtlSecrets,  \* the ones whose cached value expires
    MaxClicks,   \* bound: decisions taken by people
    None         \* "no queue entry", "no scope"

RuleOutcomes == {"none", "approve", "deny"}

\* The fields of an ask that decide its fate: what its client claims to ask
\* for, and the processes that are really behind it, its parent first; rules
\* are the outcomes rule evaluation may have at the time (the rules file can be
\* edited while asks are in flight).
AskRecord(a) ==
    /\ Ask[a].wrap \in Wraps /\ Ask[a].claim \in Processes \cup Sessions
    /\ Len(Ask[a].ancestry) \in Nat
    /\ DOMAIN Ask[a].ancestry = 1..Len(Ask[a].ancestry)
    /\ \A i \in DOMAIN Ask[a].ancestry : Ask[a].ancestry[i].pid \in Processes
    /\ Ask[a].wants \subseteq Secrets
    /\ {Ask[a].allow_remember, Ask[a].ignore_remembered, Ask[a].nested_run}
         \subseteq BOOLEAN
    /\ Ask[a].rules \subseteq RuleOutcomes /\ Ask[a].rules # {}

\* A queue entry: its request id, the ask that represents it, who waits on it.
Entry == [id : Nat, rep : SUBSET Secrets, waiters : SUBSET Asks,
          allow_remember : BOOLEAN]

\* An ask anchored to a session never allows remembering (commands/run.rs).
ASSUME BrokerAssumption ==
    /\ DOMAIN Ask = Asks
    /\ Processes \cap Sessions = {}
    /\ TtlSecrets \subseteq Secrets
    /\ MaxClicks \in Nat
    /\ None \notin Processes \cup Sessions \cup Entry
    /\ \A a \in Asks : /\ AskRecord(a)
                       /\ Ask[a].claim \in Sessions => ~Ask[a].allow_remember

VARIABLES
    pc,          \* where each ask is in its pipeline
    connected,   \* asks whose client still holds the socket
    outbox,      \* replies sent to each ask
    abandoned,   \* `abandoned` audit rows written for each ask
    queue,       \* entries awaiting a decision, by dedupe key
    nextId,      \* source of request ids
    pending,     \* keys with a "Resolving" card
    approvals,   \* remembered approvals
    releases,    \* run_session_releases
    cache,       \* secrets whose value is cached
    jobs,        \* worker threads of decided entries
    screen,      \* the rows the consent window last rendered
    clicks,      \* ConsentDecision / Dismissed messages on its socket
    phone,       \* signed decisions on their way from a linked phone
    spent,       \* decisions taken so far
    consents,    \* history: decisions that were applied
    ruled        \* history: asks a rule approved

vars == <<pc, connected, outbox, abandoned, queue, nextId, pending, approvals,
          releases, cache, jobs, screen, clicks, phone, spent, consents, ruled>>

\* The chain of callers that the daemon walks from the peer, and the dedupe key
\* it gives the ask.
Callers == [a \in Asks |-> walk(Ask[a].ancestry)]
KeyOf == [a \in {b \in Asks : Callers[b] # <<>>} |->
            [wrap |-> Ask[a].wrap,
             anchor |-> adopted_anchor(Ask[a].claim, Processes, Callers[a])]]
Key(a) == KeyOf[a]
Keys == {Key(a) : a \in DOMAIN KeyOf}

Wants(a) == Ask[a].wants
IsSession(k) == k.anchor \in Sessions
Live(k) == queue[k] # None

Goto(a, label) == pc' = [pc EXCEPT ![a] = label]

Approved(secrets) == [decision |-> "approve", secrets |-> secrets]
Denied == [decision |-> "deny", secrets |-> {}]
Error == [decision |-> "err", secrets |-> {}]

Reply(a, r) == outbox' = [outbox EXCEPT ![a] = Append(@, r)]

-----------------------------------------------------------------------------
Init ==
    /\ pc = [a \in Asks |-> "adopt"]
    /\ connected = Asks
    /\ outbox = [a \in Asks |-> <<>>]
    /\ abandoned = [a \in Asks |-> 0]
    /\ queue = [k \in Keys |-> None]
    /\ nextId = 1
    /\ pending = {}
    /\ approvals = {}
    /\ releases = [s \in Sessions |-> {}]
    /\ cache = {}
    /\ jobs = {}
    /\ screen = {}
    /\ clicks = <<>>
    /\ phone = {}
    /\ spent = 0
    /\ consents = {}
    /\ ruled = {}

-----------------------------------------------------------------------------
(* handle_ask: four looks at the state, each under its own lock. *)

\* An ask whose parent cannot be seen is refused before anybody is asked; of a
\* client that has died nothing may be seen.
adopt_peer_provenance(a) ==
    /\ pc[a] = "adopt"
    /\ \/ /\ Callers[a] # <<>>
          /\ Goto(a, "remembered")
          /\ UNCHANGED outbox
       \/ /\ Callers[a] = <<>> \/ a \notin connected
          /\ Reply(a, Error)
          /\ Goto(a, "done")
    /\ UNCHANGED <<connected, abandoned, queue, nextId, pending, approvals,
                   releases, cache, jobs, screen, clicks, phone, spent,
                   consents, ruled>>

\* approval_scope_for: the direct parent if the anchor is a process, then the
\* ancestors beyond the direct parent.
approval_scope_for(a) ==
    LET chain == Callers[a]
        own   == {Key(a).anchor} \cap Processes
    IN  own \cup {chain[i].pid : i \in 2..Len(chain)}

has_cached_approval(a) ==
    \E p \in approval_scope_for(a) : [wrap |-> Key(a).wrap, parent |-> p] \in approvals

ask_fully_cached(secrets) == secrets \subseteq cache

\* Mutant of nested_run_may_skip_window: any tree's cached values will do.
nested_run_fully_cached(a) == Ask[a].nested_run /\ ask_fully_cached(Wants(a))

nested_run_may_skip_window(a) ==
    /\ Ask[a].nested_run
    /\ IsSession(Key(a))
    /\ releases[Key(a).anchor] # {}
    /\ Wants(a) \subseteq releases[Key(a).anchor]
    /\ ask_fully_cached(Wants(a))

\* The remembered-approval fast path.
CheckRemembered(a) ==
    /\ pc[a] = "remembered"
    /\ Goto(a, IF ~Ask[a].ignore_remembered /\ has_cached_approval(a)
               THEN "authorised" ELSE "rules")
    /\ UNCHANGED <<connected, outbox, abandoned, queue, nextId, pending,
                   approvals, releases, cache, jobs, screen, clicks, phone,
                   spent, consents, ruled>>

\* The rules path: an auto-deny answers at once, an auto-approve resolves.
handle_rule_hit(a) ==
    /\ pc[a] = "rules"
    /\ \/ /\ "none" \in Ask[a].rules
          /\ Goto(a, "nested")
          /\ UNCHANGED <<outbox, ruled>>
       \/ /\ "deny" \in Ask[a].rules
          /\ Reply(a, Denied)
          /\ Goto(a, "done")
          /\ UNCHANGED ruled
       \/ /\ "approve" \in Ask[a].rules
          /\ ruled' = ruled \cup {a}
          /\ Goto(a, "authorised")
          /\ UNCHANGED outbox
    /\ UNCHANGED <<connected, abandoned, queue, nextId, pending, approvals,
                   releases, cache, jobs, screen, clicks, phone, spent,
                   consents>>

\* The nested-run fast path.
CheckNested(a) ==
    /\ pc[a] = "nested"
    /\ Goto(a, IF nested_run_may_skip_window(a) THEN "authorised" ELSE "submit")
    /\ UNCHANGED <<connected, outbox, abandoned, queue, nextId, pending,
                   approvals, releases, cache, jobs, screen, clicks, phone,
                   spent, consents, ruled>>

\* Mutant of Coalesced: the representative stays the first ask.
CoalescedUnmerged(e, a) == [e EXCEPT !.waiters = @ \cup {a}]

\* merge_secret for each secret of the joining ask, and its waiter.
Coalesced(e, a) == [e EXCEPT !.rep = @ \cup Wants(a), !.waiters = @ \cup {a}]

\* The slow path: the ask opens a queue entry, with itself as representative,
\* or joins the one under its key and widens the representative.
submit_ask(a) ==
    /\ pc[a] = "submit"
    /\ queue' = [queue EXCEPT ![Key(a)] =
           IF Live(Key(a))
           THEN Coalesced(@, a)
           ELSE [id |-> nextId, rep |-> Wants(a), waiters |-> {a},
                 allow_remember |-> Ask[a].allow_remember]]
    /\ nextId' = IF Live(Key(a)) THEN nextId ELSE nextId + 1
    /\ Goto(a, "parked")
    /\ UNCHANGED <<connected, outbox, abandoned, pending, approvals, releases,
                   cache, jobs, screen, clicks, phone, spent, consents, ruled>>

-----------------------------------------------------------------------------
(* resolve_approved_with_pending: an authorised ask resolves on its own     *)
(* connection thread, under a card if the cache is cold.                    *)

ColdCheck(a) ==
    /\ pc[a] = "authorised"
    /\ Goto(a, IF ask_fully_cached(Wants(a)) THEN "resolve" ELSE "begin")
    /\ UNCHANGED <<connected, outbox, abandoned, queue, nextId, pending,
                   approvals, releases, cache, jobs, screen, clicks, phone,
                   spent, consents, ruled>>

begin_pending(a) ==
    /\ pc[a] = "begin"
    /\ pending' = pending \cup {Key(a)}
    /\ Goto(a, "resolve cold")
    /\ UNCHANGED <<connected, outbox, abandoned, queue, nextId, approvals,
                   releases, cache, jobs, screen, clicks, phone, spent,
                   consents, ruled>>

\* resolve_for_ask: every secret, or an error (never one when all are cached).
ResolveWarm(a) ==
    /\ pc[a] = "resolve"
    /\ \/ /\ cache' = cache \cup Wants(a)
          /\ Reply(a, Approved(Wants(a)))
       \/ /\ ~ask_fully_cached(Wants(a))
          /\ Reply(a, Error)
          /\ UNCHANGED cache
    /\ Goto(a, "done")
    /\ UNCHANGED <<connected, abandoned, queue, nextId, pending, approvals,
                   releases, jobs, screen, clicks, phone, spent, consents,
                   ruled>>

ResolveCold(a) ==
    /\ pc[a] = "resolve cold"
    /\ \/ /\ cache' = cache \cup Wants(a)
          /\ Goto(a, "end ok")
       \/ /\ ~ask_fully_cached(Wants(a))
          /\ Goto(a, "end err")
          /\ UNCHANGED cache
    /\ UNCHANGED <<connected, outbox, abandoned, queue, nextId, pending,
                   approvals, releases, jobs, screen, clicks, phone, spent,
                   consents, ruled>>

\* end_pending takes the card of the key away, whoever put it there; then the
\* reply is written.
end_pending(a) ==
    /\ pc[a] \in {"end ok", "end err"}
    /\ pending' = pending \ {Key(a)}
    /\ Reply(a, IF pc[a] = "end ok" THEN Approved(Wants(a)) ELSE Error)
    /\ Goto(a, "done")
    /\ UNCHANGED <<connected, abandoned, queue, nextId, approvals, releases,
                   cache, jobs, screen, clicks, phone, spent, consents, ruled>>

-----------------------------------------------------------------------------
(* The parked ask: its client may hang up at any time. *)

\* The watch of park_ask_and_watch ends: EOF, a disconnect, or a line that a
\* client has no business sending.  Once the thread is done nobody looks.  Any
\* other read error (bytes that are not UTF-8) ends the watch without a
\* withdrawal: the waiter stays in its entry, the reply thread still answers
\* it, and nobody notices its client leave.  To the broker that is an ask whose
\* client never hangs up, which this action, under no fairness, allows.
HangUp(a) ==
    /\ a \in connected /\ pc[a] # "done"
    /\ connected' = connected \ {a}
    /\ UNCHANGED <<pc, outbox, abandoned, queue, nextId, pending, approvals,
                   releases, cache, jobs, screen, clicks, phone, spent,
                   consents, ruled>>

\* Mutant of StillQueued: the waiter's id is not looked for in the entry.
KeyStillQueued(a) == Live(Key(a))

StillQueued(a) == Live(Key(a)) /\ a \in queue[Key(a)].waiters

Without(e, a) == IF e.waiters \subseteq {a} THEN None
                 ELSE [e EXCEPT !.waiters = @ \ {a}]

\* The connection thread withdraws its waiter; the last waiter takes the entry
\* with it.  A no-op when the entry has been decided.
withdraw_waiter(a) ==
    /\ pc[a] = "parked" /\ a \notin connected
    /\ IF StillQueued(a)
       THEN /\ queue' = [queue EXCEPT ![Key(a)] = Without(@, a)]
            /\ abandoned' = [abandoned EXCEPT ![a] = @ + 1]
       ELSE UNCHANGED <<queue, abandoned>>
    /\ Goto(a, "done")
    /\ UNCHANGED <<connected, outbox, nextId, pending, approvals, releases,
                   cache, jobs, screen, clicks, phone, spent, consents, ruled>>

-----------------------------------------------------------------------------
(* The people: a consent window and a linked phone. *)

\* snapshot_for_wire, as far as a decision needs it.
snapshot == {[key |-> k, id |-> queue[k].id, rep |-> queue[k].rep,
              allow_remember |-> queue[k].allow_remember] : k \in {j \in Keys : Live(j)}}

\* The window renders the latest snapshot it was sent.
Render ==
    /\ screen # snapshot
    /\ screen' = snapshot
    /\ UNCHANGED <<pc, connected, outbox, abandoned, queue, nextId, pending,
                   approvals, releases, cache, jobs, clicks, phone, spent,
                   consents, ruled>>

\* Only the oldest awaiting row can be decided.  The rows carry their age in
\* whole seconds, and the order in which a hash map yields them breaks the tie:
\* of asks that came within a second any may be the current one.
current_row(r) == r \in screen

\* The window's Approve remembers, at the parent, when the row allows it.
approve_decision(r) == IF r.allow_remember THEN "remember" ELSE "approve"
row_scope(r) == IF IsSession(r.key) THEN None ELSE r.key.anchor

\* A click or a key press on the current row: a ConsentDecision that names the
\* row's dedupe key.  `seen` is what the row showed.
Click(r, decision) ==
    /\ spent < MaxClicks
    /\ current_row(r)
    /\ decision \in {approve_decision(r), "deny"}
    /\ clicks' = Append(clicks, [key |-> r.key, decision |-> decision,
                                 scope |-> row_scope(r), seen |-> r.rep])
    /\ spent' = spent + 1
    /\ UNCHANGED <<pc, connected, outbox, abandoned, queue, nextId, pending,
                   approvals, releases, cache, jobs, screen, phone, consents,
                   ruled>>

\* The user closes the window.
Dismiss ==
    /\ spent < MaxClicks
    /\ clicks' = Append(clicks, [key |-> None, decision |-> "dismiss",
                                 scope |-> None, seen |-> {}])
    /\ spent' = spent + 1
    /\ UNCHANGED <<pc, connected, outbox, abandoned, queue, nextId, pending,
                   approvals, releases, cache, jobs, screen, phone, consents,
                   ruled>>

\* A phone signs a decision over the request id and the hash of the ask that it
\* shows; it knows approve and deny.
Sign(k, decision) ==
    /\ spent < MaxClicks
    /\ Live(k)
    /\ phone' = phone \cup {[id |-> queue[k].id, seen |-> queue[k].rep,
                             decision |-> decision]}
    /\ spent' = spent + 1
    /\ UNCHANGED <<pc, connected, outbox, abandoned, queue, nextId, pending,
                   approvals, releases, cache, jobs, screen, clicks, consents,
                   ruled>>

-----------------------------------------------------------------------------
(* State::resolve_with_device: one decision on one live entry. *)

\* The approvals-cache entry a decision writes: none if the entry does not
\* allow it or the anchor of its row is no process.
ToRemember(k, decision, scope) ==
    IF decision = "remember" /\ queue[k].allow_remember /\ scope # None
    THEN {[wrap |-> k.wrap, parent |-> scope]} ELSE {}

\* Approve: what is remembered, what the session may now be given, the card if
\* the cache is cold, and the worker that resolves the union.
ApproveEntry(k, decision, scope, seen, by) ==
    LET e    == queue[k]
        cold == ~ask_fully_cached(e.rep)
    IN  /\ queue' = [queue EXCEPT ![k] = None]
        /\ approvals' = approvals \cup ToRemember(k, decision, scope)
        /\ releases' = [s \in Sessions |->
              releases[s] \cup IF s = k.anchor THEN e.rep ELSE {}]
        /\ pending' = pending \cup IF cold THEN {k} ELSE {}
        /\ jobs' = jobs \cup {[id |-> e.id, key |-> k, rep |-> e.rep,
                               waiters |-> e.waiters, cold |-> cold,
                               stage |-> "resolve"]}
        /\ consents' = consents \cup
              {[key |-> k, decision |-> decision, scope |-> scope,
                seen |-> seen, applied |-> e.rep, waiters |-> e.waiters,
                by |-> by]}
        /\ UNCHANGED outbox

\* Deny: every waiter of the entries under ks is told so.
DenyEntries(ks) ==
    /\ queue' = [k \in Keys |-> IF k \in ks THEN None ELSE queue[k]]
    /\ outbox' = [a \in Asks |->
          IF \E k \in ks : Live(k) /\ a \in queue[k].waiters
          THEN Append(outbox[a], Denied) ELSE outbox[a]]
    /\ UNCHANGED <<approvals, releases, pending, jobs, consents>>

\* The daemon reads the next message of the window: a decision on a key that
\* has no entry any more does nothing; Dismissed denies whatever is waiting.
HandleClick ==
    /\ clicks # <<>>
    /\ LET m == Head(clicks)
       IN  \/ /\ m.decision \in {"approve", "remember"} /\ Live(m.key)
              /\ ApproveEntry(m.key, m.decision, m.scope, m.seen, "window")
           \/ /\ m.decision = "deny"
              /\ DenyEntries({m.key})
           \/ /\ m.decision = "dismiss"
              /\ DenyEntries(Keys)
           \/ /\ m.decision \in {"approve", "remember"} /\ ~Live(m.key)
              /\ UNCHANGED <<queue, approvals, releases, pending, jobs, outbox,
                             consents>>
    /\ clicks' = Tail(clicks)
    /\ UNCHANGED <<pc, connected, abandoned, nextId, cache, screen, phone,
                   spent, ruled>>

Signs(m, k) == Live(k) /\ queue[k].id = m.id /\ queue[k].rep = m.seen

\* A linked decision lands only on the live entry with its request id, and
\* only if the entry is still the ask that was signed.
resolve_remote ==
    \E m \in phone :
        /\ \/ \E k \in Keys :
                 /\ Signs(m, k)
                 /\ IF m.decision = "approve"
                    THEN ApproveEntry(k, "approve", None, m.seen, "phone")
                    ELSE DenyEntries({k})
           \/ /\ \A k \in Keys : ~Signs(m, k)
              /\ UNCHANGED <<queue, approvals, releases, pending, jobs, outbox,
                             consents>>
        /\ phone' = phone \ {m}
        /\ UNCHANGED <<pc, connected, abandoned, nextId, cache, screen, clicks,
                       spent, ruled>>

-----------------------------------------------------------------------------
(* The worker thread of an approved entry. *)

\* A waiter gets the secrets it asked for, or an error if one of them could not
\* be had.
Slice(a, ok) == IF Wants(a) \subseteq ok THEN Approved(Wants(a)) ELSE Error

\* resolve_union, then a reply to each waiter.
JobAnswers(j) ==
    /\ j \in jobs /\ j.stage = "resolve"
    /\ \E ok \in SUBSET j.rep :
         /\ j.rep \cap cache \subseteq ok
         /\ cache' = cache \cup ok
         /\ outbox' = [a \in Asks |->
               IF a \notin j.waiters THEN outbox[a]
               ELSE Append(outbox[a], Slice(a, ok))]
    /\ jobs' = (jobs \ {j}) \cup
               IF j.cold THEN {[j EXCEPT !.stage = "end"]} ELSE {}
    /\ UNCHANGED <<pc, connected, abandoned, queue, nextId, pending, approvals,
                   releases, screen, clicks, phone, spent, consents, ruled>>

JobEnds(j) ==
    /\ j \in jobs /\ j.stage = "end"
    /\ pending' = pending \ {j.key}
    /\ jobs' = jobs \ {j}
    /\ UNCHANGED <<pc, connected, outbox, abandoned, queue, nextId, approvals,
                   releases, cache, screen, clicks, phone, spent, consents,
                   ruled>>

\* The ttl of a cached value elapses.
Expire(s) ==
    /\ s \in TtlSecrets \cap cache
    /\ cache' = cache \ {s}
    /\ UNCHANGED <<pc, connected, outbox, abandoned, queue, nextId, pending,
                   approvals, releases, jobs, screen, clicks, phone, spent,
                   consents, ruled>>

-----------------------------------------------------------------------------
\* The connection thread of an ask.
Connection(a) ==
    \/ adopt_peer_provenance(a)
    \/ CheckRemembered(a)
    \/ handle_rule_hit(a)
    \/ CheckNested(a)
    \/ submit_ask(a)
    \/ ColdCheck(a)
    \/ begin_pending(a)
    \/ ResolveWarm(a)
    \/ ResolveCold(a)
    \/ end_pending(a)
    \/ withdraw_waiter(a)

\* Mutants of Worker: it is run for cold entries only; it never clears a card.
WorkerIfCold == \E j \in jobs : j.cold /\ (JobAnswers(j) \/ JobEnds(j))
WorkerKeepsCard == \E j \in jobs : JobAnswers(j)

\* The thread that resolve_with_device spawns for an approved entry.
Worker == \E j \in jobs : JobAnswers(j) \/ JobEnds(j)

People ==
    \/ Render
    \/ \E r \in screen, d \in {"approve", "remember", "deny"} : Click(r, d)
    \/ Dismiss
    \/ \E k \in Keys, d \in {"approve", "deny"} : Sign(k, d)

\* Every connection is closed; the daemon waits for the next ask.
Quiescent == (\A a \in Asks : pc[a] = "done") /\ UNCHANGED vars

Next ==
    \/ \E a \in Asks : Connection(a)
    \/ \E a \in Asks : HangUp(a)
    \/ HandleClick
    \/ resolve_remote
    \/ Worker
    \/ People
    \/ \E s \in Secrets : Expire(s)
    \/ Quiescent

\* The daemon's threads run and every resolution returns (EveryCallReturns of
\* SecretResolution, with its condition); nothing is assumed of the people, of
\* the clients or of the clock.
Fairness ==
    /\ \A a \in Asks : WF_vars(Connection(a))
    /\ WF_vars(HandleClick)
    /\ WF_vars(resolve_remote)
    /\ WF_vars(Worker)

Spec == Init /\ [][Next]_vars /\ Fairness

-----------------------------------------------------------------------------
(* Properties. *)

Labels == {"adopt", "remembered", "rules", "nested", "submit", "parked", "authorised",
           "begin", "resolve", "resolve cold", "end ok", "end err", "done"}

\* The state of every variable is of its type.
TypeOK ==
    /\ pc \in [Asks -> Labels]
    /\ connected \subseteq Asks
    /\ \A a \in Asks : \A i \in DOMAIN outbox[a] :
          outbox[a][i] \in [decision : {"approve", "deny", "err"},
                            secrets : SUBSET Secrets]
    /\ abandoned \in [Asks -> Nat]
    /\ \A k \in Keys : Live(k) => queue[k] \in Entry
    /\ nextId \in Nat
    /\ pending \subseteq Keys
    /\ approvals \subseteq [wrap : Wraps, parent : Processes]
    /\ releases \in [Sessions -> SUBSET Secrets]
    /\ cache \subseteq Secrets
    /\ spent \in 0..MaxClicks
    /\ ruled \subseteq Asks

\* What reached the client.
Released(a) == UNION {outbox[a][i].secrets : i \in DOMAIN outbox[a]}

\* Nothing is released without an authority for it: a rule that approved the
\* ask; a person who approved an entry the ask was waiting on, on a phone only
\* if the entry is still exactly what was signed; a person who
\* approved the wrap for one of the ask's ancestors, unless the ask insists on
\* being gated (--no-remember); or, for a nested run, the approvals given under
\* its own session, for exactly these secrets.  handle_ask
\* takes the lock anew for each of these looks, and asks of other keys decide
\* in between.
ReleaseNeedsConsent ==
    \A a \in Asks : Released(a) # {} =>
        \/ a \in ruled
        \/ \E c \in consents : a \in c.waiters /\ (c.by = "phone" => c.applied = c.seen)
        \/ \E c \in consents : /\ c.decision = "remember"
                               /\ ~Ask[a].ignore_remembered
                               /\ c.key.wrap = Ask[a].wrap
                               /\ c.scope \in {Ask[a].ancestry[i].pid :
                                               i \in DOMAIN Ask[a].ancestry}
        \/ /\ Ask[a].nested_run
           /\ Released(a) \subseteq
                UNION {c.applied : c \in {d \in consents :
                                          d.key.anchor = Ask[a].claim}}

\* The asks whose authority has been established and whose secrets are being
\* resolved: by their own thread, or by the worker of a decided entry.
Resolving(a) ==
    \/ pc[a] \in {"authorised", "begin", "resolve", "resolve cold", "end ok", "end err"}
    \/ \E j \in jobs : a \in j.waiters /\ j.stage = "resolve"

\* The phase of OneShotConsent an ask is in.
PhaseOf(a) ==
    CASE abandoned[a] > 0 -> "abandoned"
      [] abandoned[a] = 0 /\ outbox[a] # <<>> -> "answered"
      [] abandoned[a] = 0 /\ outbox[a] = <<>> /\ Resolving(a) -> "authorised"
      [] OTHER -> "open"

Promise == INSTANCE OneShotConsent
             WITH Needs <- [a \in Asks |-> Wants(a)],
                  phase <- [a \in Asks |-> PhaseOf(a)],
                  reply <- outbox

\* The broker implements OneShotConsent: however a decision, a hang-up, a phone
\* and a worker race for its entry, an ask is answered once or abandoned once
\* and never both, is answered with secrets only after it was authorised, and
\* gets its own secrets, all of them and no sibling's, although one decision
\* and one union served every ask under its key.
ImplementsOneShot == Promise!Spec

\* A parked ask that has no answer yet is held by exactly one owner who will
\* give it one: its queue entry or one worker, whose representative (the card,
\* and the union an approval resolves) covers the secrets it waits for.  And an
\* entry on the queue is one somebody waits for.
NoLostWaiter ==
    /\ \A a \in Asks : pc[a] = "parked" /\ outbox[a] = <<>> =>
         LET holders == {k \in Keys : /\ Live(k) /\ a \in queue[k].waiters
                                      /\ Wants(a) \subseteq queue[k].rep}
             workers == {j \in jobs : /\ a \in j.waiters /\ j.stage = "resolve"
                                      /\ Wants(a) \subseteq j.rep}
         IN  Cardinality(holders) + Cardinality(workers) = 1
    /\ \A k \in Keys : Live(k) => queue[k].waiters # {}

\* An ask whose approval was applied is answered.
ApprovedIsAnswered ==
    \A a \in Asks :
        (\E j \in jobs : a \in j.waiters) ~> (outbox[a] # <<>>)

\* Every card is cleared in the end.
CardsClear == \A k \in Keys : (k \in pending) ~> (k \notin pending)
=============================================================================
