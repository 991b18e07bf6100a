----------------------------- MODULE ScopedAgent -----------------------------
(***************************************************************************)
(* The scoped secret agent (scoped_agent/): `secreq agent open` publishes  *)
(* a socket for one scope with an immutable list of references, and serves *)
(* the guests that dial it, a thread per connection.  A reference outside  *)
(* the list is refused unasked; one inside it is asked about at the        *)
(* consent daemon, where equal asks share a prompt, or released on a grant *)
(* that an earlier answer left in the agent's memory for Ttl seconds.      *)
(*                                                                         *)
(* The user's consent daemon is external here: a prompt that shows one     *)
(* reference of one agent, and one decision for every thread parked on it. *)
(* `list`, malformed frames and what a guest says of itself change no      *)
(* state: they decide nothing.                                             *)
(***************************************************************************)
EXTENDS Naturals, FiniteSets

CONSTANTS
    Agents,     \* `secreq agent open` command lines on one --sock path
    Guests,     \* connections from inside the sandbox
    Refs,       \* references a guest can spell
    Allow,      \* Allow[a]: the references of a's --allow flags
    Ttl,        \* SCOPE_GRANT_TTL_SECS, in ticks
    MaxConns,   \* MAX_CONCURRENT_CONNECTIONS
    Steps,      \* the ways the wall clock may be stepped: "forward", "back"
    MaxTime,    \* bound: ticks of real time, and of steps back
    None

ASSUME ScopedAssumption ==
    /\ Allow \in [Agents -> SUBSET Refs]
    /\ \A a \in Agents : Allow[a] # {}          \* Scope::new
    /\ Ttl \in Nat \ {0} /\ MaxConns \in Nat \ {0} /\ MaxTime \in Nat
    /\ Steps \subseteq {"forward", "back"}
    /\ None \notin Agents

VARIABLES
    agent,      \* where each agent process is
    path,       \* the agent whose socket file is at the path, live or not
    elapsed,    \* real time
    wall,       \* the wall clock, which the grants are stamped with
    grants,     \* grants[a]: expiry of each remembered approval, 0 for none
    setBack,    \* history: by how much the wall clock was set back in all
    approvedAt, \* history: real time of each remembered approval
    backAt,     \* history: setBack at each remembered approval
    prompts,    \* asks on screen at the consent daemon
    approved,   \* history: references shown and approved in this life of the agent
    guest       \* the connections

clockVars == <<elapsed, wall, setBack>>
agentVars == <<agent, path>>
historyVars == <<approvedAt, backAt>>
grantVars == <<grants, historyVars>>
scopedvars == <<agentVars, clockVars, grantVars, prompts, approved, guest>>

Gone == [at |-> "gone"]

ScopedInit ==
    /\ agent = [a \in Agents |-> "closed"]
    /\ path = None
    /\ elapsed = 0
    /\ wall = 1
    /\ setBack = 0
    /\ grants = [a \in Agents |-> [r \in Refs |-> 0]]
    /\ approvedAt = [a \in Agents |-> [r \in Refs |-> 0]]
    /\ backAt = [a \in Agents |-> [r \in Refs |-> 0]]
    /\ prompts = {}
    /\ approved = [a \in Agents |-> {}]
    /\ guest = [g \in Guests |-> Gone]

-----------------------------------------------------------------------------
(* The socket: open *)

Live(a) == agent[a] = "live"
Connectable == path # None /\ Live(path)

\* clear_stale_socket asks the socket itself: an absent path is free, a stale
\* one is removed, and one that somebody listens on refuses the open.
clear_stale_socket(a) ==
    /\ agent[a] = "closed" /\ ~Connectable
    /\ path' = None
    /\ agent' = [agent EXCEPT ![a] = "opening"]
    /\ UNCHANGED <<clockVars, grantVars, prompts, approved, guest>>

\* bind_private: bound and narrowed in a directory of its own, then renamed to
\* the path, over whatever is there.
bind_private(a) ==
    /\ agent[a] = "opening"
    /\ path' = a
    /\ agent' = [agent EXCEPT ![a] = "live"]
    /\ UNCHANGED <<clockVars, grantVars, prompts, approved, guest>>

\* The grants are this process's memory.
GrantsGone(a) == [grants EXCEPT ![a] = [r \in Refs |-> 0]]

\* The process ends; its grants and its connections end with it.
End(a) ==
    /\ agent[a] \in {"opening", "live"}
    /\ agent' = [agent EXCEPT ![a] = "closed"]
    /\ grants' = GrantsGone(a)
    /\ approvedAt' = [approvedAt EXCEPT ![a] = [r \in Refs |-> 0]]
    /\ backAt' = [backAt EXCEPT ![a] = [r \in Refs |-> 0]]
    /\ approved' = [approved EXCEPT ![a] = {}]
    /\ prompts' = {p \in prompts : p.agent # a}
    /\ guest' = [g \in Guests |->
                   IF guest[g] # Gone /\ guest[g].agent = a
                   THEN Gone ELSE guest[g]]
    /\ UNCHANGED clockVars

\* SIGTERM, SIGINT or SIGHUP: the handler unlinks the path, whoever owns it.
install_signal_cleanup(a) == Live(a) /\ End(a) /\ path' = None

\* SIGKILL or a crash: the socket file stays behind.
Kill(a) == End(a) /\ UNCHANGED path

-----------------------------------------------------------------------------
(* Time *)

Tick ==
    /\ elapsed < MaxTime
    /\ elapsed' = elapsed + 1
    /\ wall' = wall + 1
    /\ UNCHANGED <<agentVars, setBack, grantVars, prompts, approved, guest>>

\* The wall clock is corrected.
StepClock ==
    /\ \/ "forward" \in Steps /\ wall' = wall + 1 /\ UNCHANGED setBack
       \/ "back" \in Steps /\ wall' = wall - 1 /\ setBack' = setBack + 1
    /\ wall' \in 1..MaxTime + 1 /\ setBack' <= MaxTime
    /\ UNCHANGED <<agentVars, elapsed, grantVars, prompts, approved, guest>>

-----------------------------------------------------------------------------
(* Connections: serve_on and handle_connection *)

Become(g, state) == guest' = [guest EXCEPT ![g] = state]
Idle(g) == [at |-> "idle", agent |-> guest[g].agent]

\* A guest dials the path and waits in the listener's backlog.
connect(g) ==
    /\ guest[g] = Gone /\ Connectable
    /\ Become(g, [at |-> "backlog", agent |-> path])
    /\ UNCHANGED <<agentVars, clockVars, grantVars, prompts, approved>>

Served(a) ==
    {g \in Guests : guest[g] # Gone /\ guest[g].agent = a
                    /\ guest[g].at # "backlog"}

\* The accept loop starts a thread while there are permits left.
serve_on(g) ==
    /\ guest[g] # Gone /\ guest[g].at = "backlog"
    /\ Cardinality(Served(guest[g].agent)) < MaxConns
    /\ Become(g, Idle(g))
    /\ UNCHANGED <<agentVars, clockVars, grantVars, prompts, approved>>

\* Mutant: a silent connection keeps its permit.
KeepSilent(g) == FALSE /\ UNCHANGED scopedvars

\* CONNECTION_IDLE_TIMEOUT, or the guest hangs up between two requests.
IdleTimeout(g) ==
    /\ guest[g] # Gone /\ guest[g].at = "idle"
    /\ Become(g, Gone)
    /\ UNCHANGED <<agentVars, clockVars, grantVars, prompts, approved>>

\* A request frame, complete and well formed, for one reference.
read_message(g, r) ==
    /\ guest[g] # Gone /\ guest[g].at = "idle"
    /\ Become(g, [at |-> "request", agent |-> guest[g].agent, ref |-> r])
    /\ UNCHANGED <<agentVars, clockVars, grantVars, prompts, approved>>

-----------------------------------------------------------------------------
(* Policy: handle_request, and Gate::consent at the daemon *)

InScope(g) == guest[g].ref \in Allow[guest[g].agent]

\* A reference outside the list is refused before anybody is asked.
OutOfScope(g) ==
    /\ guest[g] # Gone /\ guest[g].at = "request" /\ ~InScope(g)
    /\ Become(g, Idle(g))
    /\ UNCHANGED <<agentVars, clockVars, grantVars, prompts, approved>>

\* Mutant: a grant that has just expired still counts.
MatchesAtExpiry(a, r) == wall <= grants[a][r]

\* AgentGrant::matches: this scope, this reference, before the stamp.
matches(a, r) == wall < grants[a][r]

\* ScopeApprovals::granted prunes what has expired.
prune(a) ==
    [grants EXCEPT ![a] = [r \in Refs |-> IF matches(a, r) THEN @[r] ELSE 0]]

Resolving(g, how) ==
    [at |-> "resolve", agent |-> guest[g].agent, ref |-> guest[g].ref,
     how |-> how]

\* A live grant: nobody is asked, and the reference is resolved afresh.
granted(g) ==
    /\ guest[g] # Gone /\ guest[g].at = "request" /\ InScope(g)
    /\ matches(guest[g].agent, guest[g].ref)
    /\ grants' = prune(guest[g].agent)
    /\ Become(g, Resolving(g, "cached"))
    /\ UNCHANGED <<agentVars, clockVars, historyVars, prompts, approved>>

\* Mutant: asks of one scope share a prompt whatever they are for.
KeyOfScope(a, r) == <<a>>

\* agent_ask: the dedupe key holds the agent and the reference.
DedupeKey(a, r) == <<a, r>>

\* No grant: the thread parks on a prompt, its own or an equal ask's.
consent(g) ==
    LET a == guest[g].agent
        r == guest[g].ref
    IN  /\ guest[g] # Gone /\ guest[g].at = "request" /\ InScope(g)
        /\ ~matches(a, r)
        /\ grants' = prune(a)
        /\ Become(g, [guest[g] EXCEPT !.at = "consent"])
        /\ prompts' = IF \E p \in prompts : p.key = DedupeKey(a, r)
                      THEN prompts
                      ELSE prompts \cup
                           {[key |-> DedupeKey(a, r), agent |-> a, shows |-> r]}
        /\ UNCHANGED <<agentVars, clockVars, historyVars, approved>>

ParkedOn(p) ==
    {g \in Guests : /\ guest[g] # Gone /\ guest[g].at = "consent"
                    /\ DedupeKey(guest[g].agent, guest[g].ref) = p.key}

\* The user decides about what the prompt shows; every thread on it hears it.
Decide(p, decision) ==
    /\ prompts' = prompts \ {p}
    /\ approved' = IF decision = "deny" THEN approved
                   ELSE [approved EXCEPT ![p.agent] = @ \cup {p.shows}]
    /\ guest' = [g \in Guests |->
                   IF g \notin ParkedOn(p) THEN guest[g]
                   ELSE IF decision = "deny" THEN Idle(g)
                   ELSE [guest[g] EXCEPT !.at = decision]]
    /\ UNCHANGED <<agentVars, clockVars, grantVars>>

\* The daemon is unreachable or goes away: an error, and nothing is released.
ConsentFails(g) ==
    /\ guest[g] # Gone /\ guest[g].at = "consent"
    /\ Become(g, Idle(g))
    /\ prompts' = {p \in prompts : ParkedOn(p) # {g}}
    /\ UNCHANGED <<agentVars, clockVars, grantVars, approved>>

\* An approval of this one request.
ApproveOnce(g) ==
    /\ guest[g] # Gone /\ guest[g].at = "once"
    /\ Become(g, Resolving(g, "asked"))
    /\ UNCHANGED <<agentVars, clockVars, grantVars, prompts, approved>>

\* ScopeApprovals::remember: the stamp is taken from the wall clock.
remember(g) ==
    LET a == guest[g].agent
        r == guest[g].ref
    IN  /\ guest[g] # Gone /\ guest[g].at = "session"
        /\ grants' = [grants EXCEPT ![a][r] = wall + Ttl]
        /\ approvedAt' = [approvedAt EXCEPT ![a][r] = elapsed]
        /\ backAt' = [backAt EXCEPT ![a][r] = setBack]
        /\ Become(g, Resolving(g, "asked"))
        /\ UNCHANGED <<agentVars, clockVars, prompts, approved>>

\* Gate::resolve, fresh on every release; a provider's failure is an error to
\* the guest.  Either way the connection is ready for the next request.
resolve_fresh(g) ==
    /\ guest[g] # Gone /\ guest[g].at = "resolve"
    /\ Become(g, Idle(g))
    /\ UNCHANGED <<agentVars, clockVars, grantVars, prompts, approved>>

-----------------------------------------------------------------------------
Thread(g) ==
    \/ OutOfScope(g) \/ granted(g) \/ consent(g)
    \/ ApproveOnce(g) \/ remember(g) \/ resolve_fresh(g)

ScopedNext ==
    \/ \E a \in Agents : \/ clear_stale_socket(a) \/ bind_private(a)
                         \/ install_signal_cleanup(a) \/ Kill(a)
    \/ Tick \/ StepClock
    \/ \E g \in Guests : \/ connect(g) \/ serve_on(g) \/ IdleTimeout(g)
                         \/ Thread(g) \/ ConsentFails(g)
                         \/ \E r \in Refs : read_message(g, r)
    \/ \E p \in prompts, d \in {"once", "session", "deny"} : Decide(p, d)

\* Threads run and a silent guest times out; the kernel hands the backlog over
\* in order, so a connection that waits gets a permit when permits keep coming
\* free.  Nobody has to answer a prompt, and the daemon may stay up.
ScopedFairness ==
    /\ \A g \in Guests : /\ WF_scopedvars(Thread(g))
                         /\ WF_scopedvars(IdleTimeout(g))
                         /\ SF_scopedvars(serve_on(g))

ScopedSpec == ScopedInit /\ [][ScopedNext]_scopedvars /\ ScopedFairness

-----------------------------------------------------------------------------
(* Properties *)

\* What handle_request resolves was shown: every reference about to be
\* released, on an answer or on a grant, is one that a prompt of this very
\* agent process showed to the user and the user approved, although equal asks
\* share a prompt, connections share grants and a new agent reclaims the path.
ReleasedWasShown ==
    \A g \in Guests :
        guest[g] # Gone /\ guest[g].at = "resolve"
        => guest[g].ref \in approved[guest[g].agent]

\* How far the wall clock has been set back since a grant was stamped.
SetBackSince(a, r) == setBack - backAt[a][r]

\* A release without a prompt comes less than Ttl of real time after the approval
\* that it rests on, and later than that only by what the wall clock has been set
\* back since: a step forward, an expiry at its boundary, a grant remembered again
\* and a killed agent extend nothing.  The doc of SystemClock says more, that a
\* jump in either direction can only ask the user again; of a jump back that is
\* not true, and the code has no other clock to notice it by.
SilentReleaseIsRecent ==
    [][\A g \in Guests :
         LET a == guest[g].agent
             r == guest[g].ref
         IN  granted(g) => elapsed < approvedAt[a][r] + Ttl + SetBackSince(a, r)]_scopedvars

AllParked(a) ==
    Cardinality({g \in Served(a) : guest[g].at = "consent"}) = MaxConns

\* A connection in the backlog is served or closed unless some guest sends
\* requests for ever or every permit is held by a prompt that nobody answers:
\* neither silent guests, nor prompts that are shared, denied or lost keep the
\* permits.
BacklogDrains ==
    \/ \E a \in Agents : <>[]AllParked(a)
    \/ []<>(\E g \in Guests : guest[g] # Gone /\ guest[g].at = "request")
    \/ \A g \in Guests :
          (guest[g] # Gone /\ guest[g].at = "backlog")
          ~> (guest[g] = Gone \/ guest[g].at # "backlog")
=============================================================================
