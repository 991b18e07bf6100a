------------------------------- MODULE SshAgent -------------------------------
(***************************************************************************)
(* The ssh agent of the daemon (daemon/ssh_agent.rs, and the grants in     *)
(* daemon/state.rs and consent.rs): connections under a cap, one thread    *)
(* each, that list keys and sign challenges.  A sign needs a session       *)
(* grant, a rule or a person; a person may grant more than the one sign.   *)
(*                                                                         *)
(* A sign shares the consent queue with every other ask, but it waits with *)
(* a timeout instead of watching its socket, so its answer and its timeout *)
(* race.  A step is one critical section of the State mutex, one step of a *)
(* connection thread or a worker, or a deadline that passes.  The private  *)
(* key is resolved as SecretResolution has it: it arrives or it does not.  *)
(***************************************************************************)
EXTENDS Naturals, Sequences, FiniteSets, Provenance

CONSTANTS
    Conns,        \* connections to agent.sock
    Process,      \* Process[c]: the process that connected, or NoPeer
    Ancestry,     \* Ancestry[c]: its ancestors, the parent first
    NoPeer,       \* the peer has no pid
    NoAnchor,     \* no peer pid, or no anchor in its chain of callers
    Identities,   \* configured keys
    KeyIds,       \* keys clients may ask for
    Data,         \* challenges
    Wants,        \* Wants[c]: the signs the client of c may ask for
    Rules,        \* Rules[i]: outcomes rule evaluation may have for a sign
    Choices,      \* the decisions a person takes
    MaxConns,     \* MAX_CONCURRENT_CONNECTIONS
    GrantTtl,     \* SSH_SESSION_GRANT_TTL_SECS
    MaxRequests,  \* bound: requests per connection
    MaxClock      \* bound: the wall clock

Approvals == {"approve", "remember", "session", "session all"}
Scopes == KeyIds \cup {"all keys"}

ASSUME AgentAssumption ==
    /\ Identities \subseteq KeyIds /\ "all keys" \notin KeyIds
    /\ DOMAIN Process = Conns /\ DOMAIN Ancestry = Conns
    /\ \A c \in Conns : Ancestry[c] \in Seq({Ancestry[c][i] : i \in DOMAIN Ancestry[c]})
    /\ Wants \in [Conns -> SUBSET [id : KeyIds, data : Data]]
    /\ Rules \in [KeyIds -> SUBSET {"none", "approve", "deny"}]
    /\ Choices \subseteq Approvals \cup {"deny"}
    /\ MaxConns \in Nat \ {0} /\ GrantTtl \in Nat \ {0}
    /\ MaxRequests \in Nat /\ MaxClock \in Nat

VARIABLES
    pc,        \* where the thread of each connection is
    left,      \* requests each client may still make
    req,       \* the sign each thread works on
    verdict,   \* the SignDecision it has
    checked,   \* when it looked at the grants
    queue,     \* waiters of the queue entry under each key
    jobs,      \* workers of approved entries
    channel,   \* the reply channel of each waiter
    grants,    \* ssh_grants
    now,       \* the wall clock, in seconds
    gui,       \* graphical_environment_available
    rows,      \* audit rows written for the current sign of each connection
    consents,  \* history: decisions of people, by entry
    remembered,\* history: grants, with the entry they come from and when
    signed     \* history: signatures, with what authorised them and when

vars == <<pc, left, req, verdict, checked, queue, jobs, channel, grants,
          now, gui, rows, consents, remembered, signed>>
history == <<consents, remembered, signed>>

\* The head of handle_sign: the peer and the chain behind it give the process
\* the sign is bound to.  The peer lives while its sign is handled.
Peer == [c \in Conns |->
    LET chain == walk(Ancestry[c])
    IN  IF Process[c] = NoPeer \/ (chain = <<>> /\ ~Forwards(Process[c]))
        THEN NoAnchor ELSE select_sign_anchor(Process[c], chain)]

Goto(c, label) == pc' = [pc EXCEPT ![c] = label]
Record(c, row) == rows' = [rows EXCEPT ![c] = Append(@, row)]

\* The sign a connection works on; left makes it another one than the last.
Me(c) == <<c, left[c]>>

\* Mutant of Key: no subject_digest, so that all signs of one identity coalesce.
KeyWithoutDigest(c) == [id |-> req[c].id, anchor |-> Peer[c],
                        data |-> CHOOSE d \in Data : TRUE]

\* The dedupe key of a sign: identity, anchor and digest of the challenge.
Key(c) == [id |-> req[c].id, anchor |-> Peer[c], data |-> req[c].data]

Entries == [id : KeyIds, anchor : {Peer[c] : c \in Conns}, data : Data]
NoRequest == [id |-> "none", data |-> "none"]

Init ==
    /\ pc = [c \in Conns |-> "backlog"]
    /\ left = [c \in Conns |-> MaxRequests]
    /\ req = [c \in Conns |-> NoRequest]
    /\ verdict = [c \in Conns |-> "none"]
    /\ checked = [c \in Conns |-> 0]
    /\ queue = [k \in Entries |-> {}]
    /\ jobs = {}
    /\ channel = [c \in Conns |-> "empty"]
    /\ grants = {}
    /\ now = 0
    /\ gui \in BOOLEAN
    /\ rows = [c \in Conns |-> <<>>]
    /\ consents = {} /\ remembered = {} /\ signed = {}

sign == <<req, verdict, checked, rows>>
consent == <<queue, jobs, channel>>

-----------------------------------------------------------------------------
(* serve_on and handle_connection. *)

Live == {c \in Conns : pc[c] \notin {"backlog", "accepted", "closed"}}

\* The accept loop takes one connection and holds it until there is a permit.
Accept(c) ==
    /\ pc[c] = "backlog"
    /\ \A d \in Conns : pc[d] # "accepted"
    /\ Goto(c, "accepted")
    /\ UNCHANGED <<left, sign, consent, grants, now, gui, history>>

\* The permit of a thread is the count of an Arc; a peer of another user is
\* refused, and a thread that cannot be spawned drops the connection.
SpawnHandler(c) ==
    /\ pc[c] = "accepted"
    /\ Cardinality(Live) < MaxConns
    /\ Goto(c, "reading") \/ Goto(c, "closed")
    /\ UNCHANGED <<left, sign, consent, grants, now, gui, history>>

\* Between frames the thread sees the client hang up, or drops it after
\* CONNECTION_IDLE_TIMEOUT.
CloseIdle(c) ==
    /\ pc[c] = "reading"
    /\ Goto(c, "closed")
    /\ UNCHANGED <<left, sign, consent, grants, now, gui, history>>

CanRequest(c) == pc[c] = "reading" /\ left[c] > 0

\* REQUEST_IDENTITIES, an unsupported type or a malformed frame.
HandleOther(c) ==
    /\ CanRequest(c)
    /\ left' = [left EXCEPT ![c] = @ - 1]
    /\ rows' = [rows EXCEPT ![c] = <<>>]
    /\ UNCHANGED <<pc, req, verdict, checked, consent, grants, now, gui,
                   history>>

\* An unknown key, and a peer without a pid or an anchor, get FAILURE.
handle_sign(c, r) ==
    /\ CanRequest(c)
    /\ left' = [left EXCEPT ![c] = @ - 1]
    /\ req' = [req EXCEPT ![c] = r]
    /\ rows' = [rows EXCEPT ![c] = <<>>]
    /\ Goto(c, IF r.id \in Identities /\ Peer[c] # NoAnchor THEN "grant"
               ELSE "reading")
    /\ UNCHANGED <<verdict, checked, consent, grants, now, gui, history>>

-----------------------------------------------------------------------------
(* decide_sign. *)

matches(g, i, a) == g.scope \in {i, "all keys"} /\ g.anchor = a /\ now < g.expires_at

\* The lookup prunes what has expired.
has_ssh_grant(c) ==
    /\ pc[c] = "grant"
    /\ grants' = {g \in grants : now < g.expires_at}
    /\ IF \E g \in grants' : matches(g, req[c].id, Peer[c])
       THEN /\ verdict' = [verdict EXCEPT ![c] = "cached"]
            /\ checked' = [checked EXCEPT ![c] = now]
            /\ Goto(c, "resolve")
       ELSE Goto(c, "rules") /\ UNCHANGED <<verdict, checked>>
    /\ UNCHANGED <<left, req, rows, consent, now, gui, history>>

evaluate_rules_for_ask(c) ==
    /\ pc[c] = "rules"
    /\ \E outcome \in Rules[req[c].id] :
         \/ outcome = "none" /\ Goto(c, "submit") /\ UNCHANGED <<verdict, rows>>
         \/ /\ outcome = "approve" /\ Goto(c, "resolve")
            /\ verdict' = [verdict EXCEPT ![c] = "auto"] /\ UNCHANGED rows
         \/ /\ outcome = "deny" /\ Goto(c, "reading")
            /\ Record(c, "deny") /\ UNCHANGED verdict
    /\ UNCHANGED <<left, req, checked, consent, grants, now, gui, history>>

\* decide_sign_on_miss: without a display nobody could decide.
submit_ask(c) ==
    /\ pc[c] = "submit"
    /\ IF gui
       THEN /\ queue' = [queue EXCEPT ![Key(c)] = @ \cup {Me(c)}]
            /\ Goto(c, "wait")
       ELSE Goto(c, "reading") /\ UNCHANGED queue
    /\ UNCHANGED <<left, sign, jobs, channel, grants, now, gui, history>>

\* A reply reaches a waiter whose thread still waits for this sign.
Delivered(ws, decision) ==
    [c \in Conns |-> IF Me(c) \in ws /\ pc[c] = "wait" THEN decision
                     ELSE channel[c]]

\* resolve_with_device: a denial is sent at once, an approval by a worker.
resolve(k, decision) ==
    /\ queue[k] # {}
    /\ queue' = [queue EXCEPT ![k] = {}]
    /\ consents' = consents \cup {[key |-> k, decision |-> decision,
                                   waiters |-> queue[k]]}
    /\ IF decision = "deny"
       THEN channel' = Delivered(queue[k], "deny") /\ UNCHANGED jobs
       ELSE /\ jobs' = jobs \cup {[waiters |-> queue[k], decision |-> decision]}
            /\ UNCHANGED channel
    /\ UNCHANGED <<pc, left, sign, grants, now, gui, remembered, signed>>

\* The worker has no secrets to resolve; it answers one waiter after another.
WorkerSends(j) ==
    /\ \E w \in j.waiters :
         /\ channel' = Delivered({w}, j.decision)
         /\ jobs' = (jobs \ {j}) \cup
                    IF j.waiters = {w} THEN {}
                    ELSE {[j EXCEPT !.waiters = @ \ {w}]}
    /\ UNCHANGED <<pc, left, sign, queue, grants, now, gui, history>>

\* What a decision grants beyond the one sign.
grant_scope_for(decision, i) ==
    CASE decision \in {"session", "remember"} -> {i}
      [] decision = "session all" -> {"all keys"}
      [] OTHER -> {}

\* recv_timeout returns a decision.
Receive(c) ==
    /\ pc[c] = "wait" /\ channel[c] # "empty"
    /\ channel' = [channel EXCEPT ![c] = "empty"]
    /\ IF channel[c] = "deny"
       THEN Record(c, "deny") /\ Goto(c, "reading") /\ UNCHANGED verdict
       ELSE /\ verdict' = [verdict EXCEPT ![c] = channel[c]]
            /\ Goto(c, IF grant_scope_for(channel[c], req[c].id) = {}
                       THEN "resolve" ELSE "remember")
            /\ UNCHANGED rows
    /\ UNCHANGED <<left, req, checked, queue, jobs, grants, now, gui, history>>

\* Mutant of SignTimesOut: an unbounded recv.
NeverTimesOut(c) == FALSE

\* SIGN_DECISION_TIMEOUT has passed; the State mutex is still to be taken.
SignTimesOut(c) ==
    /\ pc[c] = "wait" /\ channel[c] = "empty"
    /\ Goto(c, "withdraw")
    /\ UNCHANGED <<left, sign, consent, grants, now, gui, history>>

\* Mutant of withdraw_waiter: the row is written before the entry is looked up.
WithdrawUnchecked(c) ==
    /\ pc[c] = "withdraw"
    /\ Goto(c, "reading")
    /\ queue' = [queue EXCEPT ![Key(c)] = @ \ {Me(c)}]
    /\ Record(c, "abandoned")
    /\ UNCHANGED <<left, req, verdict, checked, jobs, channel, grants,
                   now, gui, history>>

\* Nothing to withdraw if a decision has taken the entry.
withdraw_waiter(c) ==
    /\ pc[c] = "withdraw"
    /\ Goto(c, "reading")
    /\ IF Me(c) \in queue[Key(c)]
       THEN /\ queue' = [queue EXCEPT ![Key(c)] = @ \ {Me(c)}]
            /\ Record(c, "abandoned")
       ELSE UNCHANGED <<queue, rows>>
    /\ UNCHANGED <<left, req, verdict, checked, jobs, channel, grants,
                   now, gui, history>>

-----------------------------------------------------------------------------
(* The rest of handle_sign. *)

remember_ssh_grant(c) ==
    /\ pc[c] = "remember"
    /\ grants' = grants \cup
         {[scope |-> s, anchor |-> Peer[c], expires_at |-> now + GrantTtl] :
             s \in grant_scope_for(verdict[c], req[c].id)}
    /\ remembered' = remembered \cup
         {[who |-> Me(c), id |-> req[c].id, decision |-> verdict[c],
           anchor |-> Peer[c], at |-> now]}
    /\ Goto(c, "resolve")
    /\ UNCHANGED <<left, sign, consent, now, gui, consents, signed>>

\* resolve_and_sign; only a sign that succeeds is recorded.
resolve_and_sign(c) ==
    /\ pc[c] = "resolve"
    /\ Goto(c, "reading")
    /\ \/ /\ signed' = signed \cup
                {[who |-> Me(c), id |-> req[c].id, data |-> req[c].data,
                  anchor |-> Peer[c], decision |-> verdict[c],
                  at |-> checked[c]]}
          /\ Record(c, verdict[c])
       \/ UNCHANGED <<signed, rows>>
    /\ verdict' = [verdict EXCEPT ![c] = "none"]
    /\ checked' = [checked EXCEPT ![c] = 0]
    /\ UNCHANGED <<left, req, consent, grants, now, gui, consents, remembered>>

Tick ==
    /\ now < MaxClock
    /\ now' = now + 1
    /\ UNCHANGED <<pc, left, sign, consent, grants, gui, history>>

-----------------------------------------------------------------------------
\* The thread of a connection, when it does not wait for its client.
Thread(c) ==
    \/ SpawnHandler(c)
    \/ has_ssh_grant(c)
    \/ evaluate_rules_for_ask(c)
    \/ submit_ask(c)
    \/ Receive(c)
    \/ withdraw_waiter(c)
    \/ remember_ssh_grant(c)
    \/ resolve_and_sign(c)

Worker == \E j \in jobs : WorkerSends(j)

Quiescent == (\A c \in Conns : pc[c] = "closed") /\ UNCHANGED vars

Next ==
    \/ \E c \in Conns : \/ Accept(c)
                        \/ Thread(c)
                        \/ CloseIdle(c)
                        \/ SignTimesOut(c)
                        \/ HandleOther(c)
                        \/ \E r \in Wants[c] : handle_sign(c, r)
    \/ \E k \in Entries, decision \in Choices : resolve(k, decision)
    \/ Worker
    \/ Tick
    \/ Quiescent

\* Threads run and their timeouts pass.  Nobody need decide, and a client need
\* neither speak nor hang up.
Fairness ==
    /\ \A c \in Conns : /\ WF_vars(Accept(c)) /\ WF_vars(Thread(c))
                        /\ WF_vars(CloseIdle(c)) /\ WF_vars(SignTimesOut(c))
    /\ WF_vars(Worker)

Spec == Init /\ [][Next]_vars /\ Fairness

-----------------------------------------------------------------------------
(* Properties. *)

Labels == {"backlog", "accepted", "reading", "grant", "rules", "submit",
           "wait", "withdraw", "remember", "resolve", "closed"}
Verdicts == Approvals \cup {"none", "deny", "cached", "auto"}

\* The state of every variable is of its type.
TypeOK ==
    /\ pc \in [Conns -> Labels]
    /\ left \in [Conns -> 0..MaxRequests]
    /\ req \in [Conns -> [id : KeyIds, data : Data] \cup {NoRequest}]
    /\ verdict \in [Conns -> Verdicts]
    /\ checked \in [Conns -> 0..MaxClock]
    /\ queue \in [Entries -> SUBSET (Conns \X (0..MaxRequests))]
    /\ jobs \subseteq [waiters : (SUBSET (Conns \X (0..MaxRequests))) \ {{}},
                       decision : Approvals]
    /\ channel \in [Conns -> Approvals \cup {"empty", "deny"}]
    /\ grants \subseteq [scope : Scopes, anchor : {Peer[c] : c \in Conns},
                         expires_at : 0..(MaxClock + GrantTtl)]
    /\ now \in 0..MaxClock /\ gui \in BOOLEAN

\* Did a person give the decision d on an entry the sign who waited on?
Given(who, d) == \E p \in consents : who \in p.waiters /\ p.decision = d

\* A signature has an authority: a rule; a person who decided on this very
\* identity, anchor and challenge; or a grant of at most GrantTtl before the
\* look at it, for this anchor and this key or all keys, which a person gave in
\* deciding on a sign of that anchor.  Coalescing, pruning, the timeout and the
\* other connections of the anchor lie in between.
SignNeedsAuthority ==
    \A s \in signed :
        CASE s.decision = "auto" -> "approve" \in Rules[s.id]
          [] s.decision = "cached" ->
               \E r \in remembered :
                   /\ r.anchor = s.anchor
                   /\ r.decision = "session all" \/ r.id = s.id
                   /\ r.at <= s.at /\ s.at < r.at + GrantTtl
                   /\ Given(r.who, r.decision)
          [] OTHER ->
               \E p \in consents :
                   /\ s.who \in p.waiters /\ p.decision = s.decision
                   /\ p.key = [id |-> s.id, anchor |-> s.anchor, data |-> s.data]

\* The process that connected and everything behind it, and the innermost ssh
\* client among them that forwards the agent to another host.
Behind(c) == <<Process[c]>> \o Ancestry[c]
ForwarderOf(c) ==
    LET is == {i \in DOMAIN Behind(c) :
                  /\ Behind(c)[i].exe \in TransportFrames
                  /\ requests_agent_forwarding(Behind(c)[i].command)}
    IN  {Behind(c)[i].pid : i \in {j \in is : \A h \in is : j <= h}}

\* An identity, pid and start time, is of one process, with one command line and
\* one line of ancestors while the agent runs.
OneAncestry ==
    \A c, d \in {x \in Conns : Process[x] # NoPeer} :
        \A i \in DOMAIN Behind(c), j \in DOMAIN Behind(d) :
            Behind(c)[i].pid = Behind(d)[j].pid =>
                SubSeq(Behind(c), i, Len(Behind(c))) = SubSeq(Behind(d), j, Len(Behind(d)))

\* Between the signer and the anchor is an ssh that forwards the agent, and its
\* command line is cut (MAX_DISPLAY_CHARS) before the option that says so.
Hides(c) ==
    \E i, j \in DOMAIN Ancestry[c] :
        /\ i < j /\ Ancestry[c][j].pid = Peer[c]
        /\ Ancestry[c][i].exe \in TransportFrames
        /\ requests_agent_forwarding(Ancestry[c][i].command)
        /\ ~requests_agent_forwarding(sanitize_display(Ancestry[c][i].command))

\* A sign that nobody was asked about stays in the session whose person gave
\* the grant: the process the grant is bound to is the signer or behind it, and
\* a grant given to a terminal never serves the host to which an ssh of that
\* terminal forwards the agent, nor the other way round.  The one exception is
\* a forwarder the code cannot see: the daemon keeps a frame's command line cut.
SilentSignStaysInSession ==
    \A s \in signed : s.decision = "cached" =>
        /\ s.anchor \in {Behind(s.who[1])[i].pid : i \in DOMAIN Behind(s.who[1])}
        /\ \E r \in remembered :
              /\ r.anchor = s.anchor
              /\ \/ ForwarderOf(r.who[1]) = ForwarderOf(s.who[1])
                 \/ Hides(r.who[1]) \/ Hides(s.who[1])

\* A sign that is given up is given up whole: the timeout and the decision race
\* for its entry and one of them has it.  It is recorded at most once, and as
\* abandoned only if nobody decided it; and every waiter on the queue is a sign
\* whose thread still waits for it, so that no card is left for a dead one.
TimeoutIsClean ==
    /\ \A c \in Conns :
         /\ Len(rows[c]) <= 1
         /\ rows[c] = <<"abandoned">> =>
              \A p \in consents : Me(c) \notin p.waiters
    /\ \A k \in Entries : \A w \in queue[k] :
         /\ w = Me(w[1]) /\ Key(w[1]) = k
         /\ pc[w[1]] \in {"wait", "withdraw"}

\* Every client is served: neither a client that says nothing nor a sign that
\* nobody decides keeps a permit for ever.
EveryClientIsServed ==
    \A c \in Conns : (pc[c] = "backlog") ~> (pc[c] \notin {"backlog", "accepted"})
===============================================================================
