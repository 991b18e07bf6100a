--------------------------- MODULE SshAgentProofs ---------------------------
(***************************************************************************)
(* Proofs, for every number of connections, requests, keys, challenges and *)
(* rules and every chain of callers, that every signature has an           *)
(* authority, and that the timeout of a sign and the decision on it never  *)
(* both have it.                                                           *)
(***************************************************************************)
EXTENDS SshAgent, SequenceTheorems, FiniteSetTheorems, WellFoundedInduction, TLAPS

\* The signs that were ever asked for: the connection, and its requests left.
Signs == Conns \X (0..MaxRequests)
\* A sign request.
Request == [id : KeyIds, data : Data]
\* What a person may decide.
Decisions == Approvals \cup {"deny"}
\* Where the thread of a sign is before it is on the queue.
AskLabels == {"grant", "rules", "submit"}
\* Where it is until the answer is recorded.
BusyLabels == AskLabels \cup {"wait", "withdraw", "remember", "resolve"}
\* A worker that answers the waiters of a decided entry.
Job == [waiters : (SUBSET (Conns \X (0..MaxRequests))) \ {{}}, decision : Approvals]

\* The history is of its type; what is recorded of a sign is one row at most.
HistoryTypes ==
    /\ consents \subseteq [key : Entries, decision : Decisions, waiters : SUBSET Signs]
    /\ \A r \in remembered : r.at \in Nat
    /\ rows \in [Conns -> {<<>>} \cup {<<v>> : v \in Verdicts \cup {"abandoned"}}]

\* While a thread is busy with a sign, nothing of it is recorded yet.
BusyInv ==
    \A c \in Conns : pc[c] \in BusyLabels => req[c] \in Request /\ rows[c] = <<>>

\* A waiter on the queue is a sign whose thread waits, under its own key.
QueueInv ==
    \A k \in Entries : \A w \in queue[k] :
        w = Me(w[1]) /\ Key(w[1]) = k /\ pc[w[1]] \in {"wait", "withdraw"}

\* What was decided has left the queue.
DecidedInv ==
    \A p \in consents : \A w \in p.waiters :
        /\ \A k \in Entries : w \notin queue[k]
        /\ left[w[1]] <= w[2]
        /\ w = Me(w[1]) => /\ pc[w[1]] \notin AskLabels
                           /\ p.key = Key(w[1])

\* A sign that is recorded as abandoned was decided by nobody.
AbandonedInv ==
    \A c \in Conns : rows[c] = <<"abandoned">> =>
        \A p \in consents : Me(c) \notin p.waiters

\* What a worker sends, and what lies in a channel, a person has decided.
ReplyInv ==
    /\ \A j \in jobs : \A w \in j.waiters : Given(w, j.decision)
    /\ \A c \in Conns : channel[c] # "empty" =>
          pc[c] = "wait" /\ Given(Me(c), channel[c])

\* A remembered decision that covers the key i at the anchor a at the time t.
Covers(r, i, a, t) ==
    /\ r.anchor = a /\ (r.decision = "session all" \/ r.id = i)
    /\ r.at <= t /\ t < r.at + GrantTtl
    /\ Given(r.who, r.decision)

\* Every grant was remembered from a decision that a person took.
GrantInv ==
    \A g \in grants : \E r \in remembered :
        /\ r.anchor = g.anchor /\ r.at <= now /\ g.expires_at = r.at + GrantTtl
        /\ \/ g.scope = "all keys" /\ r.decision = "session all"
           \/ g.scope = r.id /\ r.id # "all keys"
        /\ Given(r.who, r.decision)

\* A thread that is about to sign has its authority.
Authority(c) ==
    \/ verdict[c] = "auto" /\ "approve" \in Rules[req[c].id]
    \/ /\ verdict[c] = "cached"
       /\ \E r \in remembered : Covers(r, req[c].id, Peer[c], checked[c])
    \/ verdict[c] \in Approvals /\ Given(Me(c), verdict[c])

\* A thread carries its verdict to the signature.
VerdictInv ==
    \A c \in Conns :
        /\ pc[c] = "remember" => /\ verdict[c] \in Approvals \ {"approve"}
                                 /\ Given(Me(c), verdict[c])
        /\ pc[c] = "resolve" => Authority(c)

\* The inductive invariant.
IndInv ==
    /\ TypeOK /\ HistoryTypes /\ BusyInv
    /\ QueueInv /\ DecidedInv /\ AbandonedInv
    /\ ReplyInv /\ GrantInv /\ VerdictInv /\ SignNeedsAuthority

-----------------------------------------------------------------------------
\* The bounds are numbers.
LEMMA Bounds == GrantTtl \in Nat \ {0} /\ MaxRequests \in Nat /\ MaxClock \in Nat
  BY AgentAssumption

\* A job has waiters, and a decision to send them.
LEMMA JobOf == \A ws \in SUBSET Signs : \A d \in Approvals :
                   ws # {} => [waiters |-> ws, decision |-> d] \in Job
  BY DEF Job, Signs

\* A row is not the absence of rows.
LEMMA OneRow == \A v : <<v>> # <<>> /\ Append(<<>>, v) = <<v>>
  OBVIOUS

\* A busy thread's sign has a key of the queue.
LEMMA SignOf ==
    ASSUME IndInv, NEW c \in Conns
    PROVE  /\ Me(c) \in Signs /\ Me(c)[1] = c /\ left[c] \in 0..MaxRequests
           /\ pc[c] \in BusyLabels => Key(c) \in Entries /\ req[c].id \in KeyIds
  BY DEF IndInv, TypeOK, BusyInv, Me, Key, Signs, Entries, Request

\* Nothing has happened at the start.
LEMMA InitIndInv == Init => IndInv
<1>. SUFFICES ASSUME Init PROVE IndInv
  OBVIOUS
<1>1. TypeOK
  <2>1. /\ now \in 0..MaxClock /\ left \in [Conns -> 0..MaxRequests]
        /\ checked \in [Conns -> 0..MaxClock]
    BY Bounds DEF Init
  <2>2. /\ pc \in [Conns -> Labels] /\ verdict \in [Conns -> Verdicts]
        /\ channel \in [Conns -> Approvals \cup {"empty", "deny"}]
        /\ req \in [Conns -> [id : KeyIds, data : Data] \cup {NoRequest}]
    BY DEF Init, Labels, Verdicts
  <2>3. gui \in BOOLEAN /\ jobs = {} /\ grants = {} /\ queue = [k \in Entries |-> {}]
    BY DEF Init
  <2>. QED  BY <2>1, <2>2, <2>3 DEF TypeOK
<1>2. HistoryTypes
  BY DEF Init, HistoryTypes
<1>3. BusyInv /\ QueueInv /\ DecidedInv /\ AbandonedInv
  BY DEF Init, BusyInv, BusyLabels, AskLabels, QueueInv, DecidedInv, AbandonedInv
<1>4. ReplyInv /\ GrantInv /\ VerdictInv /\ SignNeedsAuthority
  BY DEF Init, ReplyInv, GrantInv, VerdictInv, SignNeedsAuthority
<1>. QED  BY <1>1, <1>2, <1>3, <1>4 DEF IndInv

-----------------------------------------------------------------------------
(* What each part of the invariant asks of a step *)

\* A thread that moves on takes no sign with it that still waits, and looks for
\* an authority only once per sign.
LEMMA QueueMoves ==
    ASSUME IndInv, NEW c \in Conns, NEW label, Goto(c, label),
           UNCHANGED <<left, req, queue, consents>>,
           \/ pc[c] \notin {"wait", "withdraw"} \/ label \in {"wait", "withdraw"}
           \/ \A k \in Entries : Me(c) \notin queue[k],
           label \in AskLabels => pc[c] \in AskLabels
    PROVE  QueueInv' /\ DecidedInv'
<1>1. /\ \A d \in Conns : Me(d)' = Me(d) /\ Key(d)' = Key(d)
      /\ \A d \in Conns \ {c} : pc'[d] = pc[d]
      /\ pc'[c] = label
  BY DEF IndInv, TypeOK, Goto, Me, Key
<1>2. \A k \in Entries : \A w \in queue[k] : w[1] \in Conns
  BY DEF IndInv, TypeOK
<1>3. QueueInv'
  BY <1>1, <1>2 DEF IndInv, QueueInv
<1>4. \A p \in consents : \A w \in p.waiters : w[1] \in Conns
  BY DEF IndInv, HistoryTypes, Signs
<1>5. DecidedInv'
  BY <1>1, <1>4 DEF IndInv, DecidedInv
<1>. QED  BY <1>3, <1>5

\* No row says abandoned that did not say so before.
LEMMA RowsMove ==
    ASSUME IndInv, UNCHANGED <<left, consents>>,
           \A d \in Conns : rows'[d] = <<"abandoned">> => rows[d] = rows'[d]
    PROVE  AbandonedInv'
<1>1. \A d \in Conns : Me(d)' = Me(d)
  BY DEF Me
<1>. QED  BY <1>1 DEF IndInv, AbandonedInv

\* The replies on their way are kept by a step of another thread, or of one that
\* has no reply.
LEMMA RepliesMove ==
    ASSUME IndInv, UNCHANGED <<left, consents, jobs>>,
           \A d \in Conns : \/ channel'[d] = "empty"
                            \/ channel'[d] = channel[d] /\ pc'[d] = pc[d]
    PROVE  ReplyInv'
<1>1. /\ \A d \in Conns : Me(d)' = Me(d)
      /\ \A w, v : Given(w, v)' = Given(w, v)
  BY DEF Me, Given
<1>. QED  BY <1>1 DEF IndInv, ReplyInv

\* So are the verdicts.
LEMMA VerdictsMove ==
    ASSUME IndInv, UNCHANGED <<left, req, consents, remembered>>,
           \A d \in Conns :
              \/ pc'[d] \notin {"remember", "resolve"}
              \/ pc'[d] = pc[d] /\ verdict'[d] = verdict[d] /\ checked'[d] = checked[d]
    PROVE  VerdictInv'
<1>1. /\ \A d \in Conns : Me(d)' = Me(d)
      /\ \A w, v : Given(w, v)' = Given(w, v)
      /\ \A r, i, a, t : Covers(r, i, a, t)' = Covers(r, i, a, t)
  BY DEF Me, Given, Covers
<1>. QED  BY <1>1 DEF IndInv, VerdictInv, Authority

\* Grants that are pruned, or still there, were remembered.
LEMMA GrantsMove ==
    ASSUME IndInv, UNCHANGED <<consents, remembered>>, grants' \subseteq grants,
           now' = now \/ now' = now + 1
    PROVE  GrantInv'
<1>1. \A w, v : Given(w, v)' = Given(w, v)
  BY DEF Given
<1>2. now \in Nat /\ \A r \in remembered : r.at \in Nat
  <2>1. now \in 0..MaxClock
    BY DEF IndInv, TypeOK
  <2>. QED  BY <2>1, Bounds DEF IndInv, HistoryTypes
<1>3. \A r \in remembered : r.at <= now => r.at <= now'
  BY <1>2
<1>. QED  BY <1>1, <1>3 DEF IndInv, GrantInv

\* Signatures keep their authority while no history is forgotten.
LEMMA SignaturesKept ==
    ASSUME IndInv, UNCHANGED <<consents, remembered, signed>>
    PROVE  SignNeedsAuthority'
  BY DEF IndInv, SignNeedsAuthority, Given

\* A busy thread's first row is its only one.
LEMMA RecordRow ==
    ASSUME IndInv, NEW c \in Conns, pc[c] \in BusyLabels,
           NEW row \in Verdicts \cup {"abandoned"}, Record(c, row)
    PROVE  /\ rows'[c] = <<row>> /\ \A d \in Conns \ {c} : rows'[d] = rows[d]
           /\ rows' \in [Conns -> {<<>>} \cup {<<v>> : v \in Verdicts \cup {"abandoned"}}]
<1>1. rows \in [Conns -> {<<>>} \cup {<<v>> : v \in Verdicts \cup {"abandoned"}}]
      /\ rows[c] = <<>>
  BY DEF IndInv, HistoryTypes, BusyInv
<1>2. rows' = [rows EXCEPT ![c] = <<row>>]
  BY <1>1, OneRow DEF Record
<1>. QED  BY <1>1, <1>2

-----------------------------------------------------------------------------
(* The connection's steps *)

\* Connections come and go between signs.
LEMMA ConnectionSteps ==
    ASSUME IndInv, NEW c \in Conns, Accept(c) \/ SpawnHandler(c) \/ CloseIdle(c)
    PROVE  IndInv'
<1>1. /\ pc[c] \notin BusyLabels
      /\ UNCHANGED <<left, sign, consent, grants, now, gui, history>>
      /\ \E label \in {"accepted", "reading", "closed"} : Goto(c, label)
  BY DEF Accept, SpawnHandler, CloseIdle, BusyLabels, AskLabels
<1>2. PICK label \in {"accepted", "reading", "closed"} : Goto(c, label)
  BY <1>1
<1>3. UNCHANGED <<left, req, verdict, checked, rows, queue, jobs, channel, grants, now,
                  gui, consents, remembered, signed>>
  BY <1>1 DEF sign, consent, history
<1>4. TypeOK' /\ HistoryTypes'
  BY <1>2, <1>3 DEF IndInv, TypeOK, HistoryTypes, Goto, Labels
<1>5. pc'[c] = label /\ \A d \in Conns \ {c} : pc'[d] = pc[d]
  BY <1>2 DEF IndInv, TypeOK, Goto
<1>6. BusyInv'
  BY <1>3, <1>5 DEF IndInv, BusyInv, BusyLabels, AskLabels
<1>7. QueueInv' /\ DecidedInv'
  BY <1>1, <1>2, <1>3, QueueMoves DEF BusyLabels, AskLabels
<1>8. AbandonedInv' /\ SignNeedsAuthority'
  BY <1>3, RowsMove, SignaturesKept
<1>9. channel[c] = "empty"
  BY <1>1 DEF IndInv, ReplyInv, BusyLabels
<1>10. ReplyInv' /\ VerdictInv' /\ GrantInv'
  BY <1>3, <1>5, <1>9, RepliesMove, VerdictsMove, GrantsMove
<1>. QED  BY <1>4, <1>6, <1>7, <1>8, <1>10 DEF IndInv

\* A new request of c: the sign before it is over, and is no longer Me(c).
LEMMA NewRequest ==
    ASSUME IndInv, NEW c \in Conns, CanRequest(c), NEW label \in {"reading", "grant"},
           pc' = [pc EXCEPT ![c] = label], left' = [left EXCEPT ![c] = @ - 1],
           \/ \E r \in Request : req' = [req EXCEPT ![c] = r]
           \/ req' = req /\ label = "reading",
           rows' = [rows EXCEPT ![c] = <<>>],
           UNCHANGED <<verdict, checked, consent, grants, now, gui, history>>
    PROVE  IndInv'
<1>0. /\ left[c] \in 1..MaxRequests /\ left'[c] = left[c] - 1
      /\ left' \in [Conns -> 0..MaxRequests]
  <2>1. left \in [Conns -> 0..MaxRequests] /\ left[c] > 0
    BY DEF IndInv, TypeOK, CanRequest
  <2>. QED  BY <2>1, Bounds
<1>1. /\ \A d \in Conns \ {c} : /\ left'[d] = left[d] /\ pc'[d] = pc[d]
                                 /\ req'[d] = req[d] /\ rows'[d] = rows[d]
      /\ rows'[c] = <<>> /\ pc'[c] = label /\ pc[c] = "reading"
  BY DEF IndInv, TypeOK, HistoryTypes, CanRequest
<1>2. UNCHANGED <<verdict, checked, queue, jobs, channel, grants, now, gui, consents,
                  remembered, signed>>
  BY DEF consent, history
<1>3. TypeOK'
  <2>1. req' \in [Conns -> [id : KeyIds, data : Data] \cup {NoRequest}]
    BY DEF IndInv, TypeOK, Request
  <2>2. pc' \in [Conns -> Labels]
    BY DEF IndInv, TypeOK, Labels
  <2>. QED  BY <1>0, <1>2, <2>1, <2>2 DEF IndInv, TypeOK
<1>4. HistoryTypes'
  BY <1>1, <1>2 DEF IndInv, HistoryTypes
<1>5. BusyInv'
  BY <1>1 DEF IndInv, TypeOK, BusyInv, BusyLabels, AskLabels
<1>6. /\ \A d \in Conns \ {c} : Me(d)' = Me(d) /\ Key(d)' = Key(d)
      /\ Me(c)' = <<c, left[c] - 1>>
  BY <1>0, <1>1 DEF Me, Key
<1>7. \A k \in Entries : \A w \in queue[k] : w[1] \in Conns \ {c}
  <2>1. \A k \in Entries : \A w \in queue[k] : w[1] \in Conns
    BY DEF IndInv, TypeOK
  <2>. QED  BY <1>1, <2>1 DEF IndInv, QueueInv
<1>8. QueueInv'
  BY <1>1, <1>2, <1>6, <1>7 DEF IndInv, QueueInv
<1>9. \A p \in consents : \A w \in p.waiters :
         w[1] \in Conns /\ w[2] \in Nat /\ left[w[1]] <= w[2]
  BY DEF IndInv, HistoryTypes, Signs, DecidedInv
<1>10. \A p \in consents : \A w \in p.waiters :
         /\ left'[w[1]] <= w[2]
         /\ w[1] = c => w # Me(c)'
  BY <1>0, <1>1, <1>6, <1>9
<1>11. DecidedInv'
  BY <1>1, <1>2, <1>6, <1>9, <1>10 DEF IndInv, DecidedInv
<1>12. AbandonedInv'
  BY OneRow, <1>1, <1>2, <1>6 DEF IndInv, AbandonedInv
<1>13. /\ \A w, v : Given(w, v)' = Given(w, v)
       /\ \A q, i, a, t : Covers(q, i, a, t)' = Covers(q, i, a, t)
  BY <1>2 DEF Given, Covers
<1>14. ReplyInv'
  BY <1>1, <1>2, <1>6, <1>13 DEF IndInv, ReplyInv
<1>15. VerdictInv'
  BY <1>1, <1>2, <1>6, <1>13 DEF IndInv, VerdictInv, Authority
<1>16. GrantInv' /\ SignNeedsAuthority'
  BY <1>2, GrantsMove, SignaturesKept
<1>. QED  BY <1>3, <1>4, <1>5, <1>8, <1>11, <1>12, <1>14, <1>15, <1>16 DEF IndInv

\* Requests that are no sign, and signs of an unknown key or without an anchor,
\* end where they began.
LEMMA HandleOtherStep ==
    ASSUME IndInv, NEW c \in Conns, HandleOther(c)
    PROVE  IndInv'
<1>1. pc' = [pc EXCEPT ![c] = "reading"]
  BY DEF HandleOther, CanRequest, IndInv, TypeOK
<1>. QED  BY <1>1, NewRequest DEF HandleOther

\* A sign begins.
LEMMA HandleSignStep ==
    ASSUME IndInv, NEW c \in Conns, NEW r \in Wants[c], handle_sign(c, r)
    PROVE  IndInv'
<1>1. r \in Request
  BY AgentAssumption DEF Request
<1>2. PICK label \in {"reading", "grant"} : Goto(c, label)
  BY DEF handle_sign
<1>. QED  BY <1>1, <1>2, NewRequest DEF handle_sign, Goto

-----------------------------------------------------------------------------
(* decide_sign *)

\* A look that finds a live grant finds the decision it was remembered from.
LEMMA GrantStep ==
    ASSUME IndInv, NEW c \in Conns, has_ssh_grant(c)
    PROVE  IndInv'
<1>1. /\ pc[c] = "grant" /\ grants' \subseteq grants
      /\ UNCHANGED <<left, req, rows, queue, jobs, channel, now, gui, consents,
                     remembered, signed>>
  BY DEF has_ssh_grant, consent, history
<1>2. PICK label \in {"rules", "resolve"} : Goto(c, label)
  BY DEF has_ssh_grant
<1>3. pc'[c] = label /\ \A d \in Conns \ {c} : pc'[d] = pc[d]
  BY <1>2 DEF IndInv, TypeOK, Goto
<1>4. /\ verdict' \in [Conns -> Verdicts] /\ checked' \in [Conns -> 0..MaxClock]
      /\ \A d \in Conns \ {c} : verdict'[d] = verdict[d] /\ checked'[d] = checked[d]
  BY DEF has_ssh_grant, IndInv, TypeOK, Verdicts
<1>5. TypeOK' /\ HistoryTypes'
  BY <1>1, <1>2, <1>4 DEF IndInv, TypeOK, HistoryTypes, Goto, Labels
<1>6. BusyInv'
  BY <1>1, <1>3 DEF IndInv, BusyInv, BusyLabels, AskLabels
<1>7. QueueInv' /\ DecidedInv'
  BY <1>1, <1>2, QueueMoves DEF AskLabels
<1>8. AbandonedInv' /\ SignNeedsAuthority' /\ GrantInv'
  BY <1>1, RowsMove, SignaturesKept, GrantsMove
<1>9. ReplyInv'
  BY <1>1, <1>3, RepliesMove DEF IndInv, ReplyInv
<1>10. VerdictInv'
  <2>1. CASE label = "rules"
    BY <1>1, <1>3, <1>4, <2>1, VerdictsMove
  <2>2. CASE label = "resolve"
    <3>1. /\ \E g \in grants' : matches(g, req[c].id, Peer[c])
          /\ verdict'[c] = "cached" /\ checked'[c] = now
      BY <1>2, <1>3, <2>2 DEF has_ssh_grant, Goto, IndInv, TypeOK
    <3>2. PICK g \in grants : matches(g, req[c].id, Peer[c])
      BY <1>1, <3>1
    <3>3. PICK r \in remembered :
             /\ r.anchor = g.anchor /\ r.at <= now
             /\ g.expires_at = r.at + GrantTtl
             /\ \/ g.scope = "all keys" /\ r.decision = "session all"
                \/ g.scope = r.id /\ r.id # "all keys"
             /\ Given(r.who, r.decision)
      BY <3>2 DEF IndInv, GrantInv
    <3>4. Covers(r, req[c].id, Peer[c], now)
      BY <3>2, <3>3 DEF Covers, matches
    <3>5. /\ \A d \in Conns : Me(d)' = Me(d)
          /\ \A w, v : Given(w, v)' = Given(w, v)
          /\ \A q, i, a, t : Covers(q, i, a, t)' = Covers(q, i, a, t)
      BY <1>1 DEF Me, Given, Covers
    <3>6. Authority(c)'
      BY <1>1, <3>1, <3>4, <3>5 DEF Authority
    <3>. QED  BY <1>1, <1>3, <1>4, <2>2, <3>5, <3>6 DEF IndInv, VerdictInv, Authority
  <2>. QED  BY <2>1, <2>2
<1>. QED  BY <1>5, <1>6, <1>7, <1>8, <1>9, <1>10 DEF IndInv

\* A rule approves, refuses, or leaves the sign to a person.
LEMMA RulesStep ==
    ASSUME IndInv, NEW c \in Conns, evaluate_rules_for_ask(c)
    PROVE  IndInv'
<1>1. /\ pc[c] = "rules"
      /\ UNCHANGED <<left, req, checked, queue, jobs, channel, grants, now, gui,
                     consents, remembered, signed>>
  BY DEF evaluate_rules_for_ask, consent, history
<1>2. PICK label \in {"submit", "resolve", "reading"} : Goto(c, label)
  BY DEF evaluate_rules_for_ask
<1>3. /\ pc'[c] = label /\ \A d \in Conns \ {c} : pc'[d] = pc[d]
      /\ rows[c] = <<>>
  BY <1>1, <1>2 DEF IndInv, TypeOK, Goto, BusyInv, BusyLabels, AskLabels
<1>4. /\ label = "resolve" => /\ "approve" \in Rules[req[c].id]
                              /\ verdict' = [verdict EXCEPT ![c] = "auto"]
      /\ label # "resolve" => verdict' = verdict
      /\ label = "reading" => Record(c, "deny")
      /\ label # "reading" => rows' = rows
  BY <1>2, <1>3 DEF evaluate_rules_for_ask, Goto, IndInv, TypeOK
<1>5. /\ verdict' \in [Conns -> Verdicts]
      /\ \A d \in Conns \ {c} : verdict'[d] = verdict[d] /\ rows'[d] = rows[d]
      /\ label = "reading" => rows'[c] = <<"deny">>
      /\ rows' \in [Conns -> {<<>>} \cup {<<v>> : v \in Verdicts \cup {"abandoned"}}]
  <2>1. verdict' \in [Conns -> Verdicts] /\ \A d \in Conns \ {c} : verdict'[d] = verdict[d]
    BY <1>4 DEF IndInv, TypeOK, Verdicts
  <2>2. CASE label = "reading"
    BY <1>1, <1>4, <2>1, <2>2, RecordRow DEF BusyLabels, AskLabels, Verdicts
  <2>3. CASE label # "reading"
    BY <1>4, <2>1, <2>3 DEF IndInv, HistoryTypes
  <2>. QED  BY <2>2, <2>3
<1>6. TypeOK' /\ HistoryTypes'
  BY <1>1, <1>2, <1>5 DEF IndInv, TypeOK, HistoryTypes, Goto, Labels
<1>7. BusyInv'
  BY <1>1, <1>3, <1>4, <1>5 DEF IndInv, BusyInv, BusyLabels, AskLabels
<1>8. QueueInv' /\ DecidedInv'
  BY <1>1, <1>2, QueueMoves DEF AskLabels
<1>9. AbandonedInv' /\ SignNeedsAuthority' /\ GrantInv'
  <2>1. <<"deny">> # <<"abandoned">>
    OBVIOUS
  <2>2. \A d \in Conns : rows'[d] = <<"abandoned">> => rows[d] = rows'[d]
    BY <1>4, <1>5, <2>1
  <2>. QED  BY <1>1, <2>2, RowsMove, SignaturesKept, GrantsMove
<1>10. ReplyInv'
  BY <1>1, <1>3, RepliesMove DEF IndInv, ReplyInv
<1>11. VerdictInv'
  <2>1. CASE label # "resolve"
    BY <1>1, <1>3, <1>5, <2>1, VerdictsMove
  <2>2. CASE label = "resolve"
    <3>1. verdict'[c] = "auto" /\ "approve" \in Rules[req[c].id]
      BY <1>4, <2>2 DEF IndInv, TypeOK
    <3>2. Authority(c)'
      BY <1>1, <3>1 DEF Authority
    <3>3. /\ \A d \in Conns : Me(d)' = Me(d)
          /\ \A w, v : Given(w, v)' = Given(w, v)
          /\ \A q, i, a, t : Covers(q, i, a, t)' = Covers(q, i, a, t)
      BY <1>1 DEF Me, Given, Covers
    <3>. QED  BY <1>1, <1>3, <1>5, <2>2, <3>2, <3>3 DEF IndInv, VerdictInv, Authority
  <2>. QED  BY <2>1, <2>2
<1>. QED  BY <1>6, <1>7, <1>8, <1>9, <1>10, <1>11 DEF IndInv

\* The sign joins the queue under its own key; it was on no entry that a person
\* has decided.
LEMMA SubmitStep ==
    ASSUME IndInv, NEW c \in Conns, submit_ask(c)
    PROVE  IndInv'
<1>1. /\ pc[c] = "submit"
      /\ UNCHANGED <<left, req, verdict, checked, rows, jobs, channel, grants, now, gui,
                     consents, remembered, signed>>
  BY DEF submit_ask, sign, history
<1>2. PICK label \in {"wait", "reading"} : Goto(c, label)
  BY DEF submit_ask
<1>3. pc'[c] = label /\ \A d \in Conns \ {c} : pc'[d] = pc[d]
  BY <1>2 DEF IndInv, TypeOK, Goto
<1>4. Key(c) \in Entries /\ Me(c) \in Signs /\ Me(c)[1] = c
  BY <1>1, SignOf DEF BusyLabels, AskLabels
<1>5. \/ label = "reading" /\ queue' = queue
      \/ label = "wait" /\ queue' = [queue EXCEPT ![Key(c)] = @ \cup {Me(c)}]
  BY <1>2, <1>3 DEF submit_ask, Goto, IndInv, TypeOK
<1>6. queue' \in [Entries -> SUBSET Signs]
  BY <1>4, <1>5 DEF IndInv, TypeOK, Signs
<1>7. TypeOK' /\ HistoryTypes'
  BY <1>1, <1>2, <1>6 DEF IndInv, TypeOK, HistoryTypes, Goto, Labels, Signs
<1>8. BusyInv'
  BY <1>1, <1>3 DEF IndInv, BusyInv, BusyLabels, AskLabels
<1>9. QueueInv' /\ DecidedInv'
  <2>1. CASE label = "reading" /\ queue' = queue
    BY <1>1, <1>2, <2>1, QueueMoves DEF AskLabels
  <2>2. CASE label = "wait" /\ queue' = [queue EXCEPT ![Key(c)] = @ \cup {Me(c)}]
    <3>1. \A d \in Conns : Me(d)' = Me(d) /\ Key(d)' = Key(d)
      BY <1>1 DEF Me, Key
    <3>2. \A k \in Entries : \A w \in queue'[k] :
             w \in queue[k] \/ (w = Me(c) /\ k = Key(c))
      BY <1>4, <2>2 DEF IndInv, TypeOK
    <3>3. \A k \in Entries : \A w \in queue[k] : w[1] \in Conns
      BY DEF IndInv, TypeOK
    <3>4. QueueInv'
      BY <1>3, <1>4, <2>2, <3>1, <3>2, <3>3 DEF IndInv, QueueInv
    <3>5. \A p \in consents : Me(c) \notin p.waiters
      BY <1>1, <1>4 DEF IndInv, DecidedInv, AskLabels
    <3>6. \A p \in consents : \A w \in p.waiters : w[1] \in Conns
      BY DEF IndInv, HistoryTypes, Signs
    <3>7. DecidedInv'
      BY <1>1, <1>3, <2>2, <3>1, <3>2, <3>5, <3>6 DEF IndInv, DecidedInv, AskLabels
    <3>. QED  BY <3>4, <3>7
  <2>. QED  BY <1>5, <2>1, <2>2
<1>10. AbandonedInv' /\ SignNeedsAuthority' /\ GrantInv'
  BY <1>1, RowsMove, SignaturesKept, GrantsMove
<1>11. ReplyInv' /\ VerdictInv'
  <2>1. channel[c] = "empty"
    BY <1>1 DEF IndInv, ReplyInv
  <2>. QED  BY <1>1, <1>3, <2>1, RepliesMove, VerdictsMove
<1>. QED  BY <1>7, <1>8, <1>9, <1>10, <1>11 DEF IndInv

\* A decision takes every waiter of its entry off the queue, and of no other.
LEMMA ResolveStep ==
    ASSUME IndInv, NEW k \in Entries, NEW decision \in Choices, resolve(k, decision)
    PROVE  IndInv'
<1>. DEFINE new == [key |-> k, decision |-> decision, waiters |-> queue[k]]
<1>1. /\ UNCHANGED <<pc, left, req, verdict, checked, rows, grants, now, gui,
                     remembered, signed>>
      /\ queue' = [queue EXCEPT ![k] = {}] /\ consents' = consents \cup {new}
      /\ queue[k] # {} /\ queue[k] \subseteq Signs /\ queue[k] \in SUBSET Signs
  BY DEF resolve, sign, IndInv, TypeOK, Signs
<1>2. decision \in Decisions /\ (decision # "deny" => decision \in Approvals)
  BY AgentAssumption DEF Decisions
<1>3. /\ new \in [key : Entries, decision : Decisions, waiters : SUBSET Signs]
      /\ new.key = k /\ new.decision = decision /\ new.waiters = queue[k]
  BY <1>1, <1>2
<1>. HIDE DEF new
<1>4. /\ \A d \in Conns : Me(d)' = Me(d) /\ Key(d)' = Key(d)
      /\ \A w, v : Given(w, v) => Given(w, v)'
      /\ \A w \in queue[k] : Given(w, decision)'
  BY <1>1, <1>3 DEF Me, Key, Given
<1>5. \/ /\ decision = "deny" /\ jobs' = jobs
         /\ channel' = Delivered(queue[k], "deny")
      \/ /\ decision \in Approvals /\ channel' = channel
         /\ jobs' = jobs \cup {[waiters |-> queue[k], decision |-> decision]}
  BY <1>2 DEF resolve
<1>6. TypeOK'
  <2>1. queue' \in [Entries -> SUBSET Signs]
    BY <1>1 DEF IndInv, TypeOK, Signs
  <2>2. channel' \in [Conns -> Approvals \cup {"empty", "deny"}]
    BY <1>5 DEF IndInv, TypeOK, Delivered
  <2>3. jobs' \subseteq Job
    <3>1. jobs \subseteq Job
      BY DEF IndInv, TypeOK, Job
    <3>. QED  BY <1>1, <1>5, <3>1, JobOf
  <2>4. jobs' \subseteq [waiters : (SUBSET (Conns \X (0..MaxRequests))) \ {{}},
                        decision : Approvals]
    BY <2>3 DEF Job
  <2>. QED  BY <1>1, <2>1, <2>2, <2>4 DEF IndInv, TypeOK, Signs
<1>7. HistoryTypes' /\ BusyInv'
  BY <1>1, <1>3 DEF IndInv, HistoryTypes, BusyInv
<1>8. /\ \A e \in Entries : queue'[e] \subseteq queue[e]
      /\ \A e \in Entries : \A w \in queue[e] : w[1] \in Conns
      /\ \A w \in queue[k] : \A e \in Entries : w \notin queue'[e]
  BY <1>1 DEF IndInv, TypeOK, QueueInv
<1>9. QueueInv'
  BY <1>1, <1>4, <1>8 DEF IndInv, QueueInv
<1>10. DecidedInv'
  <2>. SUFFICES ASSUME NEW p \in consents', NEW w \in p.waiters
                PROVE  /\ \A e \in Entries : w \notin queue'[e]
                       /\ left[w[1]] <= w[2]
                       /\ w = Me(w[1])' => /\ pc[w[1]] \notin AskLabels
                                           /\ p.key = Key(w[1])'
    BY <1>1 DEF DecidedInv
  <2>1. CASE p \in consents
    <3>1. w[1] \in Conns
      BY <2>1 DEF IndInv, HistoryTypes, Signs
    <3>. QED  BY <1>4, <1>8, <2>1, <3>1 DEF IndInv, DecidedInv
  <2>2. CASE p = new
    <3>1. /\ w \in queue[k] /\ w[1] \in Conns /\ w = Me(w[1]) /\ Key(w[1]) = k
          /\ pc[w[1]] \in {"wait", "withdraw"}
      BY <1>3, <1>8, <2>2 DEF IndInv, QueueInv
    <3>2. left[w[1]] <= w[2]
      <4>1. w[2] = left[w[1]]
        BY <3>1 DEF Me
      <4>2. left[w[1]] \in 0..MaxRequests
        BY <3>1, SignOf
      <4>. QED  BY <4>1, <4>2, Bounds
    <3>. QED  BY <1>3, <1>4, <1>8, <2>2, <3>1, <3>2 DEF AskLabels
  <2>. QED  BY <1>1, <2>1, <2>2
<1>11. AbandonedInv'
  <2>. SUFFICES ASSUME NEW c \in Conns, rows[c] = <<"abandoned">>, NEW p \in consents'
                PROVE  Me(c) \notin p.waiters
    BY <1>1, <1>4 DEF AbandonedInv
  <2>1. CASE p \in consents
    BY <2>1 DEF IndInv, AbandonedInv
  <2>2. CASE p = new
    <3>1. pc[c] \notin BusyLabels
      BY OneRow DEF IndInv, BusyInv
    <3>2. Me(c) \notin queue[k]
      BY <3>1, SignOf DEF IndInv, QueueInv, BusyLabels
    <3>. QED  BY <1>3, <2>2, <3>2
  <2>. QED  BY <1>1, <2>1, <2>2
<1>12. ReplyInv'
  <2>1. CASE /\ decision = "deny" /\ jobs' = jobs
             /\ channel' = Delivered(queue[k], "deny")
    BY <1>1, <1>4, <2>1 DEF IndInv, ReplyInv, Delivered
  <2>2. CASE /\ decision \in Approvals /\ channel' = channel
             /\ jobs' = jobs \cup {[waiters |-> queue[k], decision |-> decision]}
    BY <1>1, <1>4, <2>2 DEF IndInv, ReplyInv
  <2>. QED  BY <1>5, <2>1, <2>2
<1>13. VerdictInv'
  <2>1. \A r, i, a, t : Covers(r, i, a, t) => Covers(r, i, a, t)'
    BY <1>4 DEF Covers
  <2>. QED  BY <1>1, <1>4, <2>1 DEF IndInv, VerdictInv, Authority
<1>14. GrantInv'
  BY <1>1, <1>4 DEF IndInv, GrantInv
<1>15. SignNeedsAuthority'
  BY <1>1, <1>4 DEF IndInv, SignNeedsAuthority
<1>. QED  BY <1>6, <1>7, <1>9, <1>10, <1>11, <1>12, <1>13, <1>14, <1>15 DEF IndInv

\* A worker's reply reaches the thread that still waits for this very sign.
LEMMA WorkerStep ==
    ASSUME IndInv, NEW j \in jobs, WorkerSends(j)
    PROVE  IndInv'
<1>1. UNCHANGED <<pc, left, req, verdict, checked, rows, queue, grants, now, gui,
                  consents, remembered, signed>>
  BY DEF WorkerSends, sign, history
<1>2. PICK w \in j.waiters :
         /\ channel' = Delivered({w}, j.decision)
         /\ jobs' = (jobs \ {j}) \cup IF j.waiters = {w} THEN {}
                                      ELSE {[j EXCEPT !.waiters = @ \ {w}]}
  BY DEF WorkerSends
<1>3. j \in Job /\ j.waiters \in SUBSET Signs /\ j.decision \in Approvals
      /\ jobs \subseteq Job
  BY DEF IndInv, TypeOK, Signs, Job
<1>4. /\ \A d \in Conns : Me(d)' = Me(d) /\ Key(d)' = Key(d)
      /\ \A x, v : Given(x, v)' = Given(x, v)
      /\ \A r, i, a, t : Covers(r, i, a, t)' = Covers(r, i, a, t)
  BY <1>1 DEF Me, Key, Given, Covers
<1>. DEFINE rest == [j EXCEPT !.waiters = @ \ {w}]
<1>5. /\ rest.waiters = j.waiters \ {w} /\ rest.decision = j.decision
      /\ j.waiters # {w} => rest \in Job
  <2>1. rest = [waiters |-> j.waiters \ {w}, decision |-> j.decision]
    BY <1>3 DEF Job
  <2>. QED  BY <1>2, <1>3, <2>1, JobOf
<1>6. jobs' \subseteq jobs \cup {rest} /\ (j.waiters = {w} => jobs' \subseteq jobs)
  BY <1>2
<1>. HIDE DEF rest
<1>7. TypeOK'
  <2>1. channel' \in [Conns -> Approvals \cup {"empty", "deny"}]
    BY <1>2, <1>3 DEF IndInv, TypeOK, Delivered
  <2>2. jobs' \subseteq Job
    BY <1>3, <1>5, <1>6
  <2>3. jobs' \subseteq [waiters : (SUBSET (Conns \X (0..MaxRequests))) \ {{}},
                        decision : Approvals]
    BY <2>2 DEF Job
  <2>. QED  BY <1>1, <2>1, <2>3 DEF IndInv, TypeOK, Signs
<1>8. HistoryTypes' /\ BusyInv'
  BY <1>1 DEF IndInv, HistoryTypes, BusyInv
<1>9. QueueInv' /\ DecidedInv'
  <2>1. \A k \in Entries : \A x \in queue[k] : x[1] \in Conns
    BY DEF IndInv, TypeOK
  <2>2. \A p \in consents : \A x \in p.waiters : x[1] \in Conns
    BY DEF IndInv, HistoryTypes, Signs
  <2>. QED  BY <1>1, <1>4, <2>1, <2>2 DEF IndInv, QueueInv, DecidedInv
<1>10. AbandonedInv' /\ GrantInv' /\ SignNeedsAuthority'
  BY <1>1, RowsMove, GrantsMove, SignaturesKept
<1>11. ReplyInv'
  <2>1. \A i \in jobs' : \A x \in i.waiters : Given(x, i.decision)
    BY <1>5, <1>6 DEF IndInv, ReplyInv
  <2>2. \A c \in Conns : \/ channel'[c] = channel[c]
                         \/ /\ channel'[c] = j.decision /\ pc[c] = "wait"
                            /\ Given(Me(c), j.decision)
    BY <1>2 DEF IndInv, ReplyInv, Delivered
  <2>. QED  BY <1>1, <1>4, <2>1, <2>2 DEF IndInv, ReplyInv
<1>12. VerdictInv'
  BY <1>1, VerdictsMove
<1>. QED  BY <1>7, <1>8, <1>9, <1>10, <1>11, <1>12 DEF IndInv

\* The reply a thread receives is a decision on its own sign, which has left the
\* queue by then.
LEMMA ReceiveStep ==
    ASSUME IndInv, NEW c \in Conns, Receive(c)
    PROVE  IndInv'
<1>1. /\ pc[c] = "wait" /\ channel[c] # "empty"
      /\ UNCHANGED <<left, req, checked, queue, jobs, grants, now, gui, consents,
                     remembered, signed>>
      /\ channel' = [channel EXCEPT ![c] = "empty"]
  BY DEF Receive, history
<1>2. /\ channel[c] \in Approvals \cup {"deny"} /\ Given(Me(c), channel[c])
      /\ channel' \in [Conns -> Approvals \cup {"empty", "deny"}]
      /\ channel'[c] = "empty" /\ \A d \in Conns \ {c} : channel'[d] = channel[d]
  BY <1>1 DEF IndInv, TypeOK, ReplyInv
<1>3. PICK label \in {"reading", "resolve", "remember"} : Goto(c, label)
  BY DEF Receive
<1>4. pc'[c] = label /\ \A d \in Conns \ {c} : pc'[d] = pc[d]
  BY <1>3 DEF IndInv, TypeOK, Goto
<1>5. /\ label = "reading" => /\ channel[c] = "deny" /\ verdict' = verdict
                              /\ Record(c, "deny")
      /\ label # "reading" => /\ channel[c] \in Approvals /\ rows' = rows
                              /\ verdict' = [verdict EXCEPT ![c] = channel[c]]
      /\ label = "remember" => grant_scope_for(channel[c], req[c].id) # {}
  BY <1>2, <1>3, <1>4 DEF Receive, Goto, IndInv, TypeOK
<1>6. label = "remember" => channel[c] # "approve"
  BY <1>5 DEF grant_scope_for
<1>7. verdict' \in [Conns -> Verdicts] /\ \A d \in Conns \ {c} : verdict'[d] = verdict[d]
  BY <1>5 DEF IndInv, TypeOK, Verdicts
<1>8. /\ \A d \in Conns \ {c} : rows'[d] = rows[d]
      /\ label = "reading" => rows'[c] = <<"deny">>
      /\ rows' \in [Conns -> {<<>>} \cup {<<v>> : v \in Verdicts \cup {"abandoned"}}]
  <2>1. CASE label = "reading"
    BY <1>1, <1>5, <2>1, RecordRow DEF BusyLabels, Verdicts
  <2>2. CASE label # "reading"
    BY <1>5, <2>2 DEF IndInv, HistoryTypes
  <2>. QED  BY <2>1, <2>2
<1>9. TypeOK' /\ HistoryTypes'
  BY <1>1, <1>2, <1>3, <1>7, <1>8 DEF IndInv, TypeOK, HistoryTypes, Goto, Labels
<1>10. BusyInv'
  BY <1>1, <1>4, <1>5, <1>8 DEF IndInv, BusyInv, BusyLabels, AskLabels
<1>11. \A k \in Entries : Me(c) \notin queue[k]
  BY <1>2 DEF IndInv, DecidedInv, Given
<1>12. QueueInv' /\ DecidedInv'
  BY <1>1, <1>3, <1>11, QueueMoves DEF AskLabels
<1>13. AbandonedInv' /\ SignNeedsAuthority' /\ GrantInv'
  <2>1. <<"deny">> # <<"abandoned">>
    OBVIOUS
  <2>2. \A d \in Conns : rows'[d] = <<"abandoned">> => rows[d] = rows'[d]
    BY <1>5, <1>8, <2>1
  <2>. QED  BY <1>1, <2>2, RowsMove, SignaturesKept, GrantsMove
<1>14. ReplyInv'
  BY <1>1, <1>2, <1>4, RepliesMove
<1>15. VerdictInv'
  <2>1. CASE label = "reading"
    BY <1>1, <1>4, <1>7, <2>1, VerdictsMove
  <2>2. CASE label # "reading"
    <3>1. /\ \A d \in Conns : Me(d)' = Me(d)
          /\ \A w, v : Given(w, v)' = Given(w, v)
          /\ \A q, i, a, t : Covers(q, i, a, t)' = Covers(q, i, a, t)
      BY <1>1 DEF Me, Given, Covers
    <3>2. verdict'[c] = channel[c] /\ channel[c] \in Approvals
      BY <1>5, <2>2 DEF IndInv, TypeOK
    <3>3. Authority(c)' /\ Given(Me(c), verdict[c])'
      BY <1>2, <3>1, <3>2 DEF Authority
    <3>. QED  BY <1>1, <1>4, <1>6, <1>7, <3>1, <3>2, <3>3 DEF IndInv, VerdictInv, Authority
  <2>. QED  BY <2>1, <2>2
<1>. QED  BY <1>9, <1>10, <1>12, <1>13, <1>14, <1>15 DEF IndInv

\* The wait is over; what becomes of the entry is decided under the mutex.
LEMMA TimesOutStep ==
    ASSUME IndInv, NEW c \in Conns, SignTimesOut(c)
    PROVE  IndInv'
<1>1. /\ pc[c] = "wait" /\ channel[c] = "empty" /\ Goto(c, "withdraw")
      /\ UNCHANGED <<left, req, verdict, checked, rows, queue, jobs, channel, grants, now,
                     gui, consents, remembered, signed>>
  BY DEF SignTimesOut, sign, consent, history
<1>2. pc'[c] = "withdraw" /\ \A d \in Conns \ {c} : pc'[d] = pc[d]
  BY <1>1 DEF IndInv, TypeOK, Goto
<1>3. TypeOK' /\ HistoryTypes'
  BY <1>1 DEF IndInv, TypeOK, HistoryTypes, Goto, Labels
<1>4. BusyInv'
  BY <1>1, <1>2 DEF IndInv, BusyInv, BusyLabels, AskLabels
<1>5. QueueInv' /\ DecidedInv'
  BY <1>1, QueueMoves DEF AskLabels
<1>6. AbandonedInv' /\ SignNeedsAuthority' /\ GrantInv'
  BY <1>1, RowsMove, SignaturesKept, GrantsMove
<1>7. ReplyInv' /\ VerdictInv'
  BY <1>1, <1>2, RepliesMove, VerdictsMove
<1>. QED  BY <1>3, <1>4, <1>5, <1>6, <1>7 DEF IndInv

\* What is withdrawn was still on the queue, so nobody has decided it, and
\* nobody can decide it any more.
LEMMA WithdrawStep ==
    ASSUME IndInv, NEW c \in Conns, withdraw_waiter(c)
    PROVE  IndInv'
<1>1. /\ pc[c] = "withdraw" /\ Goto(c, "reading")
      /\ UNCHANGED <<left, req, verdict, checked, jobs, channel, grants, now, gui,
                     consents, remembered, signed>>
  BY DEF withdraw_waiter, history
<1>2. pc'[c] = "reading" /\ \A d \in Conns \ {c} : pc'[d] = pc[d]
  BY <1>1 DEF IndInv, TypeOK, Goto
<1>3. Key(c) \in Entries /\ Me(c) \in Signs /\ Me(c)[1] = c
  BY <1>1, SignOf DEF BusyLabels
<1>4. \/ /\ Me(c) \in queue[Key(c)] /\ Record(c, "abandoned")
         /\ queue' = [queue EXCEPT ![Key(c)] = @ \ {Me(c)}]
      \/ Me(c) \notin queue[Key(c)] /\ queue' = queue /\ rows' = rows
  BY DEF withdraw_waiter
<1>5. /\ \A d \in Conns \ {c} : rows'[d] = rows[d]
      /\ rows' \in [Conns -> {<<>>} \cup {<<v>> : v \in Verdicts \cup {"abandoned"}}]
      /\ Me(c) \notin queue[Key(c)] => rows' = rows
  <2>1. CASE Me(c) \in queue[Key(c)]
    BY <1>1, <1>4, <2>1, RecordRow DEF BusyLabels
  <2>2. CASE Me(c) \notin queue[Key(c)]
    BY <1>4, <2>2 DEF IndInv, HistoryTypes
  <2>. QED  BY <2>1, <2>2
<1>6. /\ queue' \in [Entries -> SUBSET Signs]
      /\ \A k \in Entries : queue'[k] \subseteq queue[k] /\ Me(c) \notin queue'[k]
  <2>1. \A k \in Entries : Me(c) \in queue[k] => k = Key(c)
    BY <1>3 DEF IndInv, QueueInv
  <2>. QED  BY <1>3, <1>4, <2>1 DEF IndInv, TypeOK, Signs
<1>7. TypeOK' /\ HistoryTypes'
  BY <1>1, <1>5, <1>6 DEF IndInv, TypeOK, HistoryTypes, Goto, Labels, Signs
<1>8. BusyInv'
  BY <1>1, <1>2, <1>5 DEF IndInv, BusyInv, BusyLabels, AskLabels
<1>9. /\ \A d \in Conns : Me(d)' = Me(d) /\ Key(d)' = Key(d)
      /\ \A k \in Entries : \A w \in queue[k] : w[1] \in Conns
      /\ \A p \in consents : \A w \in p.waiters : w[1] \in Conns
  BY <1>1 DEF IndInv, TypeOK, HistoryTypes, Signs, Me, Key
<1>10. QueueInv'
  BY <1>2, <1>6, <1>9 DEF IndInv, QueueInv
<1>11. DecidedInv'
  BY <1>1, <1>2, <1>6, <1>9 DEF IndInv, DecidedInv, AskLabels
<1>12. AbandonedInv'
  <2>1. Me(c) \in queue[Key(c)] => \A p \in consents : Me(c) \notin p.waiters
    BY <1>3 DEF IndInv, DecidedInv
  <2>. QED  BY <1>1, <1>5, <1>9, <2>1 DEF IndInv, AbandonedInv
<1>13. SignNeedsAuthority' /\ GrantInv'
  BY <1>1, SignaturesKept, GrantsMove
<1>14. ReplyInv' /\ VerdictInv'
  <2>1. channel[c] = "empty"
    BY <1>1 DEF IndInv, ReplyInv
  <2>. QED  BY <1>1, <1>2, <2>1, RepliesMove, VerdictsMove
<1>. QED  BY <1>7, <1>8, <1>10, <1>11, <1>12, <1>13, <1>14 DEF IndInv

-----------------------------------------------------------------------------
(* The rest of handle_sign *)

\* A decision is remembered for the key it was given for, or for all keys.
LEMMA RememberStep ==
    ASSUME IndInv, NEW c \in Conns, remember_ssh_grant(c)
    PROVE  IndInv'
<1>. DEFINE new == [who |-> Me(c), id |-> req[c].id, decision |-> verdict[c],
                    anchor |-> Peer[c], at |-> now]
<1>1. /\ pc[c] = "remember" /\ Goto(c, "resolve")
      /\ UNCHANGED <<left, req, verdict, checked, rows, queue, jobs, channel, now, gui,
                     consents, signed>>
      /\ remembered' = remembered \cup {new}
      /\ grants' = grants \cup
           {[scope |-> s, anchor |-> Peer[c], expires_at |-> now + GrantTtl] :
               s \in grant_scope_for(verdict[c], req[c].id)}
  BY DEF remember_ssh_grant, sign, consent
<1>2. pc'[c] = "resolve" /\ \A d \in Conns \ {c} : pc'[d] = pc[d]
  BY <1>1 DEF IndInv, TypeOK, Goto
<1>3. /\ verdict[c] \in Approvals \ {"approve"} /\ Given(Me(c), verdict[c])
      /\ req[c].id \in KeyIds
  BY <1>1, SignOf DEF IndInv, VerdictInv, BusyLabels
<1>4. /\ new.who = Me(c) /\ new.id = req[c].id /\ new.decision = verdict[c]
      /\ new.anchor = Peer[c] /\ new.at = now
  OBVIOUS
<1>. HIDE DEF new
<1>5. \A s \in grant_scope_for(verdict[c], req[c].id) :
         \/ s = "all keys" /\ verdict[c] = "session all"
         \/ s = req[c].id /\ req[c].id # "all keys"
  BY <1>3, AgentAssumption DEF grant_scope_for
<1>6. now \in 0..MaxClock /\ now \in Nat /\ now <= now /\ now + GrantTtl \in 0..(MaxClock + GrantTtl)
  <2>1. now \in 0..MaxClock
    BY DEF IndInv, TypeOK
  <2>. QED  BY <2>1, Bounds
<1>7. TypeOK'
  <2>1. grant_scope_for(verdict[c], req[c].id) \subseteq Scopes
    BY <1>3, <1>5 DEF Scopes
  <2>2. grants' \subseteq [scope : Scopes, anchor : {Peer[d] : d \in Conns},
                           expires_at : 0..(MaxClock + GrantTtl)]
    BY <1>1, <1>6, <2>1 DEF IndInv, TypeOK
  <2>. QED  BY <1>1, <2>2 DEF IndInv, TypeOK, Goto, Labels
<1>8. HistoryTypes' /\ BusyInv'
  BY <1>1, <1>2, <1>4, <1>6 DEF IndInv, HistoryTypes, BusyInv, BusyLabels
<1>9. QueueInv' /\ DecidedInv'
  BY <1>1, QueueMoves DEF AskLabels
<1>10. AbandonedInv'
  BY <1>1, RowsMove
<1>11. ReplyInv'
  BY <1>1, <1>2, RepliesMove DEF IndInv, ReplyInv
<1>12. /\ \A d \in Conns : Me(d)' = Me(d)
       /\ \A w, v : Given(w, v)' = Given(w, v)
       /\ \A q, i, a, t : Covers(q, i, a, t)' = Covers(q, i, a, t)
  BY <1>1 DEF Me, Given, Covers
<1>13. GrantInv'
  <2>. SUFFICES ASSUME NEW g \in grants'
                PROVE  \E r \in remembered' :
                          /\ r.anchor = g.anchor /\ r.at <= now
                          /\ g.expires_at = r.at + GrantTtl
                          /\ \/ g.scope = "all keys" /\ r.decision = "session all"
                             \/ g.scope = r.id /\ r.id # "all keys"
                          /\ Given(r.who, r.decision)
    BY <1>1, <1>12 DEF GrantInv
  <2>1. CASE g \in grants
    BY <1>1, <2>1 DEF IndInv, GrantInv
  <2>2. CASE g \notin grants
    <3>1. PICK s \in grant_scope_for(verdict[c], req[c].id) :
             g = [scope |-> s, anchor |-> Peer[c], expires_at |-> now + GrantTtl]
      BY <1>1, <2>2
    <3>2. g.scope = s /\ g.anchor = Peer[c] /\ g.expires_at = now + GrantTtl
      BY <3>1
    <3>3. new \in remembered' /\ Given(new.who, new.decision)
      BY <1>1, <1>3, <1>4
    <3>. QED  BY <1>4, <1>5, <1>6, <3>1, <3>2, <3>3
  <2>. QED  BY <2>1, <2>2
<1>14. VerdictInv'
  BY <1>1, <1>2, <1>3, <1>12 DEF IndInv, VerdictInv, Authority
<1>15. SignNeedsAuthority'
  BY <1>1, <1>12 DEF IndInv, SignNeedsAuthority
<1>. QED  BY <1>7, <1>8, <1>9, <1>10, <1>11, <1>13, <1>14, <1>15 DEF IndInv

\* A signature is made on the authority the thread has.
LEMMA SignStep ==
    ASSUME IndInv, NEW c \in Conns, resolve_and_sign(c)
    PROVE  IndInv'
<1>. DEFINE new == [who |-> Me(c), id |-> req[c].id, data |-> req[c].data,
                    anchor |-> Peer[c], decision |-> verdict[c], at |-> checked[c]]
<1>1. /\ pc[c] = "resolve" /\ Goto(c, "reading")
      /\ UNCHANGED <<left, req, queue, jobs, channel, grants, now, gui, consents,
                     remembered>>
      /\ verdict' = [verdict EXCEPT ![c] = "none"]
      /\ checked' = [checked EXCEPT ![c] = 0]
      /\ \/ signed' = signed \cup {new} /\ Record(c, verdict[c])
         \/ signed' = signed /\ rows' = rows
  BY DEF resolve_and_sign, consent
<1>2. pc'[c] = "reading" /\ \A d \in Conns \ {c} : pc'[d] = pc[d]
  BY <1>1 DEF IndInv, TypeOK, Goto
<1>3. /\ new.who = Me(c) /\ new.id = req[c].id /\ new.data = req[c].data
      /\ new.anchor = Peer[c] /\ new.decision = verdict[c] /\ new.at = checked[c]
  OBVIOUS
<1>. HIDE DEF new
<1>4. Authority(c) /\ verdict[c] \in Verdicts
  BY <1>1 DEF IndInv, VerdictInv, TypeOK
<1>5. /\ verdict' \in [Conns -> Verdicts] /\ checked' \in [Conns -> 0..MaxClock]
      /\ \A d \in Conns \ {c} : verdict'[d] = verdict[d] /\ checked'[d] = checked[d]
  <2>1. 0 \in 0..MaxClock
    BY Bounds
  <2>. QED  BY <1>1, <2>1 DEF IndInv, TypeOK, Verdicts
<1>6. /\ \A d \in Conns \ {c} : rows'[d] = rows[d]
      /\ rows'[c] \in {rows[c], <<verdict[c]>>}
      /\ rows' \in [Conns -> {<<>>} \cup {<<v>> : v \in Verdicts \cup {"abandoned"}}]
  <2>1. CASE Record(c, verdict[c])
    BY <1>1, <1>4, <2>1, RecordRow DEF BusyLabels
  <2>2. CASE rows' = rows
    BY <2>2 DEF IndInv, HistoryTypes
  <2>. QED  BY <1>1, <2>1, <2>2
<1>7. TypeOK' /\ HistoryTypes'
  BY <1>1, <1>5, <1>6 DEF IndInv, TypeOK, HistoryTypes, Goto, Labels
<1>8. BusyInv'
  BY <1>1, <1>2, <1>6 DEF IndInv, BusyInv, BusyLabels, AskLabels
<1>9. QueueInv' /\ DecidedInv'
  BY <1>1, QueueMoves DEF AskLabels
<1>10. AbandonedInv'
  <2>1. <<verdict[c]>> # <<"abandoned">>
    BY <1>4 DEF Verdicts, Approvals
  <2>. QED  BY <1>1, <1>6, <2>1, RowsMove
<1>11. ReplyInv' /\ VerdictInv' /\ GrantInv'
  <2>1. channel[c] = "empty"
    BY <1>1 DEF IndInv, ReplyInv
  <2>. QED  BY <1>1, <1>2, <1>5, <2>1, RepliesMove, VerdictsMove, GrantsMove
<1>12. SignNeedsAuthority'
  <2>1. \A w, v : Given(w, v)' = Given(w, v)
    BY <1>1 DEF Given
  <2>2. verdict[c] \in Approvals =>
           \E p \in consents : /\ Me(c) \in p.waiters /\ p.decision = verdict[c]
                               /\ p.key = Key(c)
    <3>1. Me(c)[1] = c
      BY SignOf
    <3>. QED  BY <1>4, <3>1 DEF Authority, Approvals, Given, IndInv, DecidedInv
  <2>3. CASE signed' = signed
    BY <1>1, <2>1, <2>3 DEF IndInv, SignNeedsAuthority
  <2>4. CASE signed' = signed \cup {new}
    <3>1. CASE verdict[c] = "auto"
      BY <1>1, <1>3, <1>4, <2>1, <2>4, <3>1
      DEF IndInv, SignNeedsAuthority, Authority, Approvals
    <3>2. CASE verdict[c] = "cached"
      <4>1. PICK r \in remembered : Covers(r, new.id, new.anchor, new.at)
        BY <1>3, <1>4, <3>2 DEF Authority, Approvals
      <4>2. /\ r.anchor = new.anchor /\ (r.decision = "session all" \/ r.id = new.id)
            /\ r.at <= new.at /\ new.at < r.at + GrantTtl
            /\ Given(r.who, r.decision)'
        BY <2>1, <4>1 DEF Covers
      <4>3. r \in remembered' /\ new.decision = "cached"
        BY <1>1, <1>3, <3>2
      <4>. QED  BY <1>1, <2>1, <2>4, <4>2, <4>3 DEF IndInv, SignNeedsAuthority
    <3>3. CASE verdict[c] \in Approvals
      <4>1. new.decision \notin {"auto", "cached"}
        BY <1>3, <3>3 DEF Approvals
      <4>2. \E p \in consents :
               /\ new.who \in p.waiters /\ p.decision = new.decision
               /\ p.key = [id |-> new.id, anchor |-> new.anchor, data |-> new.data]
        BY <1>3, <2>2, <3>3 DEF Key
      <4>. QED  BY <1>1, <2>1, <2>4, <4>1, <4>2 DEF IndInv, SignNeedsAuthority
    <3>. QED  BY <1>4, <3>1, <3>2, <3>3 DEF Authority
  <2>. QED  BY <1>1, <2>3, <2>4
<1>. QED  BY <1>7, <1>8, <1>9, <1>10, <1>11, <1>12 DEF IndInv

\* Time passes, and nothing else.
LEMMA TickStep ==
    ASSUME IndInv, Tick
    PROVE  IndInv'
<1>1. /\ now' = now + 1 /\ now < MaxClock
      /\ UNCHANGED <<pc, left, req, verdict, checked, rows, queue, jobs, channel, grants,
                     gui, consents, remembered, signed>>
  BY DEF Tick, sign, consent, history
<1>2. now' \in 0..MaxClock
  <2>1. now \in 0..MaxClock
    BY DEF IndInv, TypeOK
  <2>. QED  BY <1>1, <2>1, Bounds
<1>3. TypeOK'
  BY <1>1, <1>2 DEF IndInv, TypeOK
<1>4. GrantInv' /\ SignNeedsAuthority' /\ AbandonedInv' /\ ReplyInv' /\ VerdictInv'
  BY <1>1, GrantsMove, SignaturesKept, RowsMove, RepliesMove, VerdictsMove
<1>5. HistoryTypes' /\ BusyInv' /\ QueueInv' /\ DecidedInv'
  BY <1>1 DEF IndInv, HistoryTypes, BusyInv, QueueInv, DecidedInv, Me, Key
<1>. QED  BY <1>3, <1>4, <1>5 DEF IndInv

\* A step that changes nothing.
LEMMA StutterStep ==
    ASSUME IndInv, UNCHANGED vars
    PROVE  IndInv'
<1>1. UNCHANGED <<pc, left, req, verdict, checked, rows, queue, jobs, channel, grants,
                  now, gui, consents, remembered, signed>>
  BY DEF vars
<1>2. GrantInv' /\ SignNeedsAuthority' /\ AbandonedInv' /\ ReplyInv' /\ VerdictInv'
  BY <1>1, GrantsMove, SignaturesKept, RowsMove, RepliesMove, VerdictsMove
<1>3. TypeOK' /\ HistoryTypes' /\ BusyInv' /\ QueueInv' /\ DecidedInv'
  BY <1>1 DEF IndInv, TypeOK, HistoryTypes, BusyInv, QueueInv, DecidedInv, Me, Key
<1>. QED  BY <1>2, <1>3 DEF IndInv

\* Every step keeps the invariant.
LEMMA NextIndInv == IndInv /\ [Next]_vars => IndInv'
<1>. SUFFICES ASSUME IndInv, [Next]_vars PROVE IndInv'
  OBVIOUS
<1>1. CASE \E c \in Conns : Accept(c) \/ SpawnHandler(c) \/ CloseIdle(c)
  BY <1>1, ConnectionSteps
<1>2. CASE \E c \in Conns : HandleOther(c) \/ \E r \in Wants[c] : handle_sign(c, r)
  BY <1>2, HandleOtherStep, HandleSignStep
<1>3. CASE \E c \in Conns : has_ssh_grant(c) \/ evaluate_rules_for_ask(c) \/ submit_ask(c)
  BY <1>3, GrantStep, RulesStep, SubmitStep
<1>4. CASE \E c \in Conns : Receive(c) \/ SignTimesOut(c) \/ withdraw_waiter(c)
  BY <1>4, ReceiveStep, TimesOutStep, WithdrawStep
<1>5. CASE \E c \in Conns : remember_ssh_grant(c) \/ resolve_and_sign(c)
  BY <1>5, RememberStep, SignStep
<1>6. CASE \E k \in Entries, decision \in Choices : resolve(k, decision)
  BY <1>6, ResolveStep
<1>7. CASE Worker \/ Tick
  BY <1>7, WorkerStep, TickStep DEF Worker
<1>8. CASE UNCHANGED vars
  BY <1>8, StutterStep
<1>. QED
  BY <1>1, <1>2, <1>3, <1>4, <1>5, <1>6, <1>7, <1>8 DEF Next, Thread, Quiescent

-----------------------------------------------------------------------------
(* Theorems *)

\* The inductive invariant holds of every reachable state of the agent.
THEOREM Invariance == Spec => []IndInv
  BY InitIndInv, NextIndInv, PTL DEF Spec

\* Every variable of the agent is of its type.
THEOREM TypeCorrect == Spec => []TypeOK
<1>1. IndInv => TypeOK
  BY DEF IndInv
<1>. QED  BY <1>1, Invariance, PTL

\* Every signature of decide_sign and resolve_and_sign has an authority: a rule, a
\* person who decided on this very key, anchor and challenge, or a grant that is
\* not over, for this anchor and this key or all keys, from a decision of a person.
THEOREM SignNeedsAuthorityHolds == Spec => []SignNeedsAuthority
<1>1. IndInv => SignNeedsAuthority
  BY DEF IndInv
<1>. QED  BY <1>1, Invariance, PTL

\* The timeout of a sign and the decision on it never both have the entry: at most
\* one row, abandoned only if nobody decided, and no waiter without its thread.
THEOREM TimeoutIsCleanHolds == Spec => []TimeoutIsClean
<1>1. IndInv => TimeoutIsClean
  <2>. SUFFICES ASSUME IndInv PROVE TimeoutIsClean
    OBVIOUS
  <2>1. Len(<<>>) = 0 /\ \A v : Len(<<v>>) = 1
    OBVIOUS
  <2>2. \A c \in Conns : rows[c] = <<>> \/ \E v : rows[c] = <<v>>
    BY DEF IndInv, HistoryTypes
  <2>3. \A c \in Conns : Len(rows[c]) = 0 \/ Len(rows[c]) = 1
    BY <2>1, <2>2, Zenon
  <2>4. 0 <= 1 /\ 1 <= 1
    OBVIOUS
  <2>5. \A c \in Conns : Len(rows[c]) <= 1
    BY <2>3, <2>4, Zenon
  <2>. QED  BY <2>5 DEF IndInv, AbandonedInv, QueueInv, TimeoutIsClean
<1>. QED  BY <1>1, Invariance, PTL

-----------------------------------------------------------------------------
(* Silent signs.  The anchor of a sign is the process that connected or one    *)
(* behind it, and nothing between them forwards the agent.                     *)

\* The place of a process behind a connection that forwards the agent.
IsForwarder(p) == p.exe \in TransportFrames /\ requests_agent_forwarding(p.command)

\* A set of numbers that is not empty has a least one.
LEMMA LeastNatural ==
    ASSUME NEW T, T \subseteq Nat, T # {}
    PROVE  \E n \in T : \A m \in T : n <= m
<1>1. IsWellFoundedOn({p \in Nat \X Nat : p[1] < p[2]}, Nat)
  BY NatLessThanWellFounded DEF OpToRel
<1>2. PICK n \in T : \A m \in T : <<m, n>> \notin {p \in Nat \X Nat : p[1] < p[2]}
  BY <1>1, WFMin, Zenon
<1>3. ASSUME NEW m \in T PROVE n <= m
  <2>1. <<m, n>> \notin {p \in Nat \X Nat : p[1] < p[2]}
    BY <1>2
  <2>2. ~(m < n)
    BY <2>1
  <2>. QED  BY <2>2
<1>. QED  BY <1>3

\* How many frames are kept of the first n processes.
Count(a, n) == Cardinality(Kept(a, n))

\* Counting the frames that are kept: each one is one more than those before it.
LEMMA KeptCounts ==
    ASSUME NEW a
    PROVE  /\ \A n \in Nat : Count(a, n) \in Nat
           /\ Count(a, 0) = 0
           /\ \A n \in Nat \ {0} : n \in Kept(a, n) => Count(a, n) = Count(a, n - 1) + 1
           /\ \A n \in Nat \ {0} : n \notin Kept(a, n) => Count(a, n) = Count(a, n - 1)
           /\ \A i, j \in Nat : i <= j => Count(a, i) <= Count(a, j)
           /\ \A i, j \in Nat : i < j /\ j \in Kept(a, j) => Count(a, i) < Count(a, j)
<1>1. ASSUME NEW n \in Nat PROVE IsFiniteSet(Kept(a, n)) /\ Count(a, n) \in Nat
  <2>1. IsFiniteSet(1..n)
    BY FS_Interval
  <2>2. Kept(a, n) \subseteq 1..n
    BY DEF Kept
  <2>. QED  BY <2>1, <2>2, FS_Subset, FS_CardinalityType DEF Count
<1>2. Count(a, 0) = 0
  <2>1. Kept(a, 0) = {}
    BY DEF Kept
  <2>. QED  BY <2>1, FS_EmptySet DEF Count
<1>3. ASSUME NEW n \in Nat \ {0}, n \in Kept(a, n) PROVE Count(a, n) = Count(a, n - 1) + 1
  <2>1. n - 1 \in Nat /\ IsFiniteSet(Kept(a, n - 1))
    BY <1>1
  <2>2. Kept(a, n) = Kept(a, n - 1) \cup {n} /\ n \notin Kept(a, n - 1)
    BY <1>3 DEF Kept
  <2>. QED  BY <2>1, <2>2, FS_AddElement DEF Count
<1>4. ASSUME NEW n \in Nat \ {0}, n \notin Kept(a, n) PROVE Count(a, n) = Count(a, n - 1)
  <2>1. Kept(a, n) = Kept(a, n - 1)
    BY <1>4 DEF Kept
  <2>. QED  BY <2>1 DEF Count
<1>5. ASSUME NEW i \in Nat, NEW j \in Nat, i <= j PROVE Count(a, i) <= Count(a, j)
  <2>1. Kept(a, i) \subseteq Kept(a, j)
    BY <1>5 DEF Kept
  <2>. QED  BY <1>1, <2>1, FS_Subset DEF Count
<1>6. ASSUME NEW i \in Nat, NEW j \in Nat, i < j, j \in Kept(a, j)
      PROVE  Count(a, i) < Count(a, j)
  <2>1. j \in Nat \ {0} /\ j - 1 \in Nat /\ i <= j - 1
    BY <1>6
  <2>2. Count(a, i) <= Count(a, j - 1) /\ Count(a, j) = Count(a, j - 1) + 1
    BY <1>3, <1>5, <1>6, <2>1
  <2>3. Count(a, i) \in Nat /\ Count(a, j - 1) \in Nat /\ Count(a, j) \in Nat
    BY <1>1, <2>1
  <2>. QED  BY <2>2, <2>3
<1>. QED  BY <1>1, <1>2, <1>3, <1>4, <1>5, <1>6

\* More processes, no fewer frames.
LEMMA CountGrows ==
    ASSUME NEW a, NEW i \in Nat, NEW j \in Nat, i <= j
    PROVE  Count(a, i) <= Count(a, j)
  BY KeptCounts

\* A frame is one more than any before it.
LEMMA CountRises ==
    ASSUME NEW a, NEW i \in Nat, NEW j \in Nat, i < j, j \in Kept(a, j)
    PROVE  Count(a, i) < Count(a, j)
  BY KeptCounts

\* What the chain shows of the process at a place of the ancestry.
Shown(a, i) == Caller(a[i].pid, a[i].exe, a[i].name, sanitize_display(a[i].command))

\* The walk keeps the frames it meets in their order: before a frame of the chain
\* there are only frames of the chain before it, and processes of secreq.
LEMMA WalkKeepsOrder ==
    ASSUME NEW S, NEW a \in Seq(S)
    PROVE  /\ \E N \in Nat : DOMAIN walk(a) = 1..N /\ Len(walk(a)) = N
           /\ DOMAIN walk(a) = {} => walk(a) = <<>>
           /\ \A m \in DOMAIN walk(a) : \E i \in DOMAIN a :
                /\ walk(a)[m] = Shown(a, i)
                /\ \A h \in 1..(i - 1) :
                      is_self_frame(a[h]) \/ \E l \in 1..(m - 1) : walk(a)[l] = Shown(a, h)
<1>. DEFINE Enough(n) == n >= MaxWalk \/ Cardinality(Kept(a, n)) >= MaxChain
            Stop(n) == (n = Len(a) \/ Enough(n)) /\ \A i \in 0..(n - 1) : ~Enough(i)
            stop == CHOOSE n \in 0..Len(a) : Stop(n)
            N == Count(a, stop)
            At(m) == CHOOSE i \in Kept(a, stop) : Count(a, i) = m
<1>0. Len(a) \in Nat /\ DOMAIN a = 1..Len(a)
  OBVIOUS
<1>1. stop \in 0..Len(a)
  <2>. HIDE DEF Enough
  <2>. DEFINE T == {n \in 0..Len(a) : n = Len(a) \/ Enough(n)}
  <2>1. T \subseteq Nat /\ Len(a) \in T
    BY <1>0
  <2>2. PICK n \in T : \A m \in T : n <= m
    BY <2>1, LeastNatural
  <2>3. n \in 0..Len(a) /\ (n = Len(a) \/ Enough(n))
    BY <2>2
  <2>4. n \in 0..Len(a)
    BY <2>3
  <2>5. \A i \in 0..(n - 1) : ~Enough(i)
    <3>. SUFFICES ASSUME NEW i \in 0..(n - 1), Enough(i) PROVE FALSE
      OBVIOUS
    <3>. HIDE DEF T
    <3>1. i \in 0..Len(a) /\ ~(n <= i)
      BY <1>0, <2>4
    <3>2. i \in T
      BY <3>1 DEF T
    <3>. QED  BY <2>2, <3>1, <3>2
  <2>6. n \in 0..Len(a) /\ Stop(n)
    BY <2>3, <2>5
  <2>. HIDE DEF Stop
  <2>. QED  BY <2>6
<1>2. walk(a) = [m \in 1..N |-> Shown(a, At(m))]
  BY DEF walk, Count, Shown
<1>. HIDE DEF stop
<1>3. stop \in Nat /\ stop <= Len(a)
  BY <1>0, <1>1
<1>4. N \in Nat
  BY <1>3, KeptCounts
<1>5. /\ \A i \in Kept(a, stop) : i \in 1..stop /\ i \in Nat \ {0} /\ i \in Kept(a, i)
      /\ \A i \in 1..stop : i \in Kept(a, i) => i \in Kept(a, stop)
      /\ \A i \in 1..stop : ~is_self_frame(a[i]) => i \in Kept(a, stop)
  BY <1>3 DEF Kept
<1>6. ASSUME NEW m \in 1..N
      PROVE  At(m) \in Kept(a, stop) /\ Count(a, At(m)) = m
  <2>. DEFINE T == {i \in 0..stop : Count(a, i) >= m}
  <2>1. T \subseteq Nat /\ stop \in T
    BY <1>3, <1>4
  <2>2. PICK i \in T : \A j \in T : i <= j
    BY <2>1, LeastNatural
  <2>3. i \in 0..stop /\ i \in Nat /\ Count(a, i) \in Nat /\ Count(a, i) >= m
    BY <1>3, <2>2, KeptCounts
  <2>4. i # 0
    BY <2>3, KeptCounts
  <2>5. i \in Nat \ {0} /\ i - 1 \in Nat /\ i - 1 \in 0..stop /\ ~(i <= i - 1)
    BY <1>3, <2>3, <2>4
  <2>6. Count(a, i - 1) \in Nat
    BY <2>5, KeptCounts
  <2>7. Count(a, i - 1) < m
    BY <2>2, <2>5, <2>6
  <2>8. i \in Kept(a, i) /\ Count(a, i) = Count(a, i - 1) + 1
    <3>1. i \notin Kept(a, i) => Count(a, i) = Count(a, i - 1)
      BY <2>5, KeptCounts
    <3>2. i \in Kept(a, i) => Count(a, i) = Count(a, i - 1) + 1
      BY <2>5, KeptCounts
    <3>. QED  BY <2>3, <2>6, <2>7, <3>1, <3>2
  <2>9. Count(a, i) = m
    BY <2>3, <2>6, <2>7, <2>8
  <2>10. i \in Kept(a, stop)
    BY <1>3, <1>5, <2>3, <2>4, <2>8
  <2>. QED  BY <2>9, <2>10
<1>7. ASSUME NEW h \in Kept(a, stop)
      PROVE  Count(a, h) \in 1..N /\ At(Count(a, h)) = h
  <2>. DEFINE c == Count(a, h)
  <2>1. h \in 1..stop /\ h \in Nat \ {0} /\ h \in Kept(a, h) /\ h - 1 \in Nat
    BY <1>5
  <2>2. c \in Nat /\ Count(a, h - 1) \in Nat /\ c = Count(a, h - 1) + 1
    BY <2>1, KeptCounts
  <2>3. c <= N
    BY <1>3, <2>1, CountGrows
  <2>4. c \in 1..N
    BY <1>4, <2>2, <2>3
  <2>5. At(c) \in Kept(a, stop) /\ Count(a, At(c)) = c
    BY <1>6, <2>4
  <2>. HIDE DEF At
  <2>6. At(c) \in Nat /\ At(c) \in Kept(a, At(c)) /\ h \in Nat
    BY <1>5, <2>1, <2>5
  <2>7. ~(At(c) < h)
    BY <2>1, <2>2, <2>5, <2>6, CountRises
  <2>8. ~(h < At(c))
    BY <2>2, <2>5, <2>6, CountRises
  <2>9. At(c) = h
    BY <2>6, <2>7, <2>8
  <2>. QED  BY <2>4, <2>9
<1>. HIDE DEF At, N
<1>8. ASSUME NEW m \in DOMAIN walk(a)
      PROVE  \E i \in DOMAIN a :
                /\ walk(a)[m] = Shown(a, i)
                /\ \A h \in 1..(i - 1) :
                      is_self_frame(a[h]) \/ \E l \in 1..(m - 1) : walk(a)[l] = Shown(a, h)
  <2>1. m \in 1..N /\ walk(a)[m] = Shown(a, At(m))
    BY <1>2
  <2>2. At(m) \in Kept(a, stop) /\ Count(a, At(m)) = m
    BY <1>6, <2>1
  <2>3. At(m) \in DOMAIN a /\ At(m) \in 1..stop /\ At(m) \in Kept(a, At(m))
    BY <1>0, <1>3, <1>5, <2>2
  <2>4. ASSUME NEW h \in 1..(At(m) - 1), ~is_self_frame(a[h])
        PROVE  \E l \in 1..(m - 1) : walk(a)[l] = Shown(a, h)
    <3>1. h \in 1..stop /\ h \in Nat /\ At(m) \in Nat /\ h < At(m)
      BY <1>3, <2>3
    <3>2. h \in Kept(a, stop)
      BY <1>5, <2>4, <3>1
    <3>. DEFINE l == Count(a, h)
    <3>3. l \in 1..N /\ At(l) = h
      BY <1>7, <3>2
    <3>4. l < m
      BY <2>2, <2>3, <3>1, CountRises
    <3>5. l \in 1..(m - 1)
      BY <1>4, <2>1, <3>3, <3>4
    <3>6. walk(a)[l] = Shown(a, h)
      BY <1>2, <3>3
    <3>. QED  BY <3>5, <3>6
  <2>. QED  BY <2>1, <2>3, <2>4
<1>9. DOMAIN walk(a) = 1..N /\ Len(walk(a)) = N
  BY <1>2, <1>4
<1>10. DOMAIN walk(a) = {} => walk(a) = <<>>
  BY <1>2, <1>4
<1>. QED  BY <1>4, <1>8, <1>9, <1>10

\* The least number of a set, as FirstWith chooses it.
LEMMA LeastChosen ==
    ASSUME NEW T, T \subseteq Nat, T # {}
    PROVE  LET n == CHOOSE i \in T : \A j \in T : i <= j
           IN  n \in T /\ \A j \in T : n <= j
  BY LeastNatural

\* FirstWith(chain, Forwards) is the innermost frame that forwards.
LEMMA FirstForwarder ==
    ASSUME NEW chain, NEW N \in Nat, DOMAIN chain = 1..N, Has(chain, Forwards)
    PROVE  \E m \in 1..N : /\ FirstWith(chain, Forwards) = chain[m]
                           /\ \A l \in 1..(m - 1) : ~Forwards(chain[l])
<1>. DEFINE T == {i \in DOMAIN chain : Forwards(chain[i])}
            m == CHOOSE i \in T : \A j \in T : i <= j
<1>1. T \subseteq Nat /\ T # {}
  BY DEF Has
<1>2. FirstWith(chain, Forwards) = chain[m]
  BY DEF FirstWith
<1>3. m \in T /\ \A j \in T : m <= j
  BY <1>1, LeastChosen
<1>. HIDE DEF m
<1>4. m \in 1..N
  BY <1>3
<1>5. ASSUME NEW l \in 1..(m - 1) PROVE ~Forwards(chain[l])
  <2>1. l \in 1..N /\ ~(m <= l)
    BY <1>4
  <2>2. l \notin T
    BY <1>3, <2>1
  <2>. QED  BY <2>1, <2>2
<1>. QED  BY <1>2, <1>4, <1>5

\* select_anchor takes a frame of the chain.
LEMMA AnchorIsAFrame ==
    ASSUME NEW chain, NEW N \in Nat \ {0}, DOMAIN chain = 1..N, Len(chain) = N
    PROVE  \E m \in 1..N : select_anchor(chain) = chain[m]
<1>. DEFINE T == {i \in DOMAIN chain : is_session_frame(chain[i])}
            U == {i \in DOMAIN chain : ~is_transport_frame(chain[i])}
            Least(S) == CHOOSE i \in S : \A j \in S : i <= j
<1>1. CASE Has(chain, is_session_frame)
  <2>1. T \subseteq Nat /\ T # {}
    BY <1>1 DEF Has
  <2>2. select_anchor(chain) = chain[Least(T)]
    BY <1>1 DEF select_anchor, FirstWith
  <2>3. Least(T) \in T
    BY <2>1, LeastChosen
  <2>. QED  BY <2>2, <2>3
<1>2. CASE ~Has(chain, is_session_frame) /\ U # {}
  <2>1. U \subseteq Nat
    OBVIOUS
  <2>2. \E i \in DOMAIN chain : ~is_transport_frame(chain[i])
    BY <1>2
  <2>3. select_anchor(chain) = chain[Least(U)]
    BY <1>2, <2>2 DEF select_anchor, FirstWith, Has
  <2>4. Least(U) \in U
    BY <1>2, <2>1, LeastChosen
  <2>. QED  BY <2>3, <2>4
<1>3. CASE ~Has(chain, is_session_frame) /\ U = {}
  <2>1. ~\E i \in DOMAIN chain : ~is_transport_frame(chain[i])
    BY <1>3
  <2>2. select_anchor(chain) = chain[Len(chain)]
    BY <1>3, <2>1 DEF select_anchor, Has
  <2>. QED  BY <2>2
<1>. QED  BY <1>1, <1>2, <1>3

\* The daemon sees that this process forwards the agent.
IsShown(p) == requests_agent_forwarding(sanitize_display(p.command))

\* An ssh that forwards shows it, unless its command line is cut before.
LEMMA ForwarderShows ==
    ASSUME NEW a, NEW i \in DOMAIN a, IsForwarder(a[i]) => IsShown(a[i]),
           is_self_frame(a[i]) \/ ~Forwards(Shown(a, i))
    PROVE  ~IsForwarder(a[i])
<1>. DEFINE p == a[i]
<1>. SUFFICES ASSUME IsForwarder(p) PROVE FALSE
  OBVIOUS
<1>1. p.exe \in TransportFrames /\ p.exe # Unknown /\ p.exe # SelfName
  BY ProvenanceAssumption DEF IsForwarder
<1>2. ~is_self_frame(p)
  BY <1>1 DEF is_self_frame
<1>3. requests_agent_forwarding(sanitize_display(p.command))
  BY DEF IsShown
<1>4. Shown(a, i).exe = p.exe /\ Shown(a, i).command = sanitize_display(p.command)
  BY DEF Shown, Caller
<1>5. Forwards(Shown(a, i))
  BY <1>1, <1>3, <1>4 DEF Forwards, is_transport_frame, frame_identity
<1>. QED  BY <1>2, <1>5

\* The anchor of a sign is the process that connected or one behind it, and no
\* process between them forwards the agent (select_sign_anchor).
LEMMA AnchorIsBehind ==
    ASSUME NEW c \in Conns, Peer[c] # NoAnchor
    PROVE  /\ Process[c] # NoPeer
           /\ \E i \in DOMAIN Behind(c) :
                /\ Behind(c)[i].pid = Peer[c]
                /\ ~Hides(c) => \A h \in 1..(i - 1) : ~IsForwarder(Behind(c)[h])
<1>. DEFINE p == Process[c]
            a == Ancestry[c]
            chain == walk(a)
<1>1. /\ p # NoPeer /\ (chain # <<>> \/ Forwards(p))
      /\ Peer[c] = select_sign_anchor(p, chain)
  BY DEF Peer
<1>2. a \in Seq({a[i] : i \in DOMAIN a})
  BY AgentAssumption
<1>3. /\ DOMAIN Behind(c) = 1..(Len(a) + 1) /\ Len(a) \in Nat /\ DOMAIN a = 1..Len(a)
      /\ Behind(c)[1] = p /\ \A i \in DOMAIN a : Behind(c)[i + 1] = a[i]
  BY <1>2 DEF Behind
<1>4. CASE Forwards(p)
  <2>1. Peer[c] = p.pid
    BY <1>1, <1>4 DEF select_sign_anchor
  <2>. QED  BY <1>1, <1>3, <2>1
<1>5. CASE ~Forwards(p)
  <2>0. DOMAIN chain = {} => chain = <<>>
    BY <1>2, WalkKeepsOrder
  <2>1. PICK N \in Nat : DOMAIN chain = 1..N /\ Len(chain) = N
    BY <1>2, WalkKeepsOrder
  <2>2. \A m \in DOMAIN chain : \E i \in DOMAIN a :
           /\ chain[m] = Shown(a, i)
           /\ \A h \in 1..(i - 1) :
                 is_self_frame(a[h]) \/ \E l \in 1..(m - 1) : chain[l] = Shown(a, h)
    BY <1>2, WalkKeepsOrder
  <2>3. ~IsForwarder(p)
    BY <1>5, ProvenanceAssumption
       DEF IsForwarder, Forwards, is_transport_frame, frame_identity
  <2>. HIDE DEF chain
  <2>4. \E m \in 1..N : /\ Peer[c] = chain[m].pid
                        /\ \A l \in 1..(m - 1) : ~Forwards(chain[l])
    <3>1. CASE Has(chain, Forwards)
      <4>1. Peer[c] = FirstWith(chain, Forwards).pid
        BY <1>1, <1>5, <3>1 DEF select_sign_anchor
      <4>. QED  BY <2>1, <3>1, <4>1, FirstForwarder
    <3>2. CASE ~Has(chain, Forwards)
      <4>1. Peer[c] = select_anchor(chain).pid
        BY <1>1, <1>5, <3>2 DEF select_sign_anchor
      <4>2. N # 0
        BY <1>1, <1>5, <2>0, <2>1
      <4>3. PICK m \in 1..N : select_anchor(chain) = chain[m]
        BY <2>1, <4>2, AnchorIsAFrame
      <4>4. \A l \in 1..N : ~Forwards(chain[l])
        BY <2>1, <3>2 DEF Has
      <4>. QED  BY <4>1, <4>3, <4>4
    <3>. QED  BY <3>1, <3>2
  <2>5. PICK m \in 1..N : /\ Peer[c] = chain[m].pid
                          /\ \A l \in 1..(m - 1) : ~Forwards(chain[l])
    BY <2>4
  <2>6. PICK i \in DOMAIN a :
           /\ chain[m] = Shown(a, i)
           /\ \A h \in 1..(i - 1) :
                 is_self_frame(a[h]) \/ \E l \in 1..(m - 1) : chain[l] = Shown(a, h)
    BY <2>1, <2>2
  <2>7. a[i].pid = Peer[c]
    BY <2>5, <2>6 DEF Shown, Caller
  <2>8. ASSUME ~Hides(c), NEW h \in 1..(i - 1) PROVE ~IsForwarder(a[h])
    <3>1. h \in DOMAIN a
      BY <1>3
    <3>2. is_self_frame(a[h]) \/ ~Forwards(Shown(a, h))
      BY <2>5, <2>6
    <3>3. h < i /\ a[i].pid = Peer[c]
      BY <1>3, <2>7
    <3>4. IsForwarder(a[h]) => IsShown(a[h])
      BY <2>8, <3>1, <3>3 DEF Hides, IsForwarder, IsShown
    <3>. QED  BY <3>1, <3>2, <3>4, ForwarderShows
  <2>9. i + 1 \in DOMAIN Behind(c) /\ Behind(c)[i + 1].pid = Peer[c]
    BY <1>3, <2>7
  <2>10. ASSUME ~Hides(c), NEW h \in 1..i PROVE ~IsForwarder(Behind(c)[h])
    <3>1. CASE h = 1
      BY <1>3, <2>3, <3>1
    <3>2. CASE h # 1
      <4>1. h - 1 \in 1..(i - 1) /\ h - 1 \in DOMAIN a /\ (h - 1) + 1 = h
        BY <1>3, <3>2
      <4>. QED  BY <1>3, <2>8, <2>10, <4>1
    <3>. QED  BY <3>1, <3>2
  <2>11. (i + 1) - 1 = i
    BY <1>3
  <2>. QED  BY <1>1, <2>9, <2>10, <2>11
<1>. QED  BY <1>4, <1>5

\* What is left of a sequence from a place on.
LEMMA RestOf ==
    ASSUME NEW s, NEW n \in Nat, NEW i \in 1..n
    PROVE  /\ Len(SubSeq(s, i, n)) = n - i + 1
           /\ \A k \in 0..(n - i) : SubSeq(s, i, n)[k + 1] = s[i + k]
<1>. DEFINE S == {s[x] : x \in i..n}
<1>1. i \in Int /\ n \in Int /\ i <= n /\ \A x \in i..n : s[x] \in S
  OBVIOUS
<1>. HIDE DEF S
<1>2. /\ Len(SubSeq(s, i, n)) = IF i <= n THEN n - i + 1 ELSE 0
      /\ \A x \in 1..(n - i + 1) : SubSeq(s, i, n)[x] = s[i + x - 1]
  BY <1>1, SubSeqProperties
<1>3. ASSUME NEW k \in 0..(n - i) PROVE SubSeq(s, i, n)[k + 1] = s[i + k]
  <2>1. k + 1 \in 1..(n - i + 1) /\ i + (k + 1) - 1 = i + k
    BY <1>1
  <2>. QED  BY <1>2, <2>1
<1>. QED  BY <1>1, <1>2, <1>3

\* Two connections whose anchors are one process have the same ssh that forwards
\* the agent behind them, or none.
LEMMA SameForwarders ==
    ASSUME OneAncestry, NEW c \in Conns, NEW d \in Conns,
           Process[c] # NoPeer, Process[d] # NoPeer,
           NEW i \in DOMAIN Behind(c), NEW j \in DOMAIN Behind(d),
           Behind(c)[i].pid = Behind(d)[j].pid,
           \A h \in 1..(i - 1) : ~IsForwarder(Behind(c)[h]),
           \A h \in 1..(j - 1) : ~IsForwarder(Behind(d)[h])
    PROVE  ForwarderOf(c) \subseteq ForwarderOf(d)
<1>. DEFINE B == Behind(c)
            D == Behind(d)
            F == {h \in DOMAIN B : IsForwarder(B[h])}
            G == {h \in DOMAIN D : IsForwarder(D[h])}
<1>1. /\ Len(B) \in Nat /\ DOMAIN B = 1..Len(B)
      /\ Len(D) \in Nat /\ DOMAIN D = 1..Len(D)
  <2>1. \A e \in Conns : Ancestry[e] \in Seq({Ancestry[e][x] : x \in DOMAIN Ancestry[e]})
    BY AgentAssumption
  <2>. QED  BY <2>1 DEF Behind
<1>2. SubSeq(B, i, Len(B)) = SubSeq(D, j, Len(D))
  BY DEF OneAncestry
<1>3. /\ ForwarderOf(c) = {B[k].pid : k \in {x \in F : \A h \in F : x <= h}}
      /\ ForwarderOf(d) = {D[k].pid : k \in {x \in G : \A h \in G : x <= h}}
  BY DEF ForwarderOf, IsForwarder
<1>4. \A h \in F : h \in 1..Len(B) /\ i <= h
  BY <1>1
<1>5. \A h \in G : h \in 1..Len(D) /\ j <= h
  BY <1>1
<1>. HIDE DEF B, D
<1>6. i \in 1..Len(B) /\ j \in 1..Len(D)
  BY <1>1 DEF B, D
<1>7. Len(B) - i = Len(D) - j /\ \A k \in 0..(Len(B) - i) : B[i + k] = D[j + k]
  <2>1. Len(SubSeq(B, i, Len(B))) = Len(B) - i + 1 /\ Len(SubSeq(D, j, Len(D))) = Len(D) - j + 1
    BY <1>1, <1>6, RestOf
  <2>2. Len(B) - i = Len(D) - j
    BY <1>1, <1>2, <1>6, <2>1
  <2>3. ASSUME NEW k \in 0..(Len(B) - i) PROVE B[i + k] = D[j + k]
    <3>1. SubSeq(B, i, Len(B))[k + 1] = B[i + k]
      BY <1>1, <1>6, RestOf
    <3>2. SubSeq(D, j, Len(D))[k + 1] = D[j + k]
      BY <1>1, <1>6, <2>2, RestOf
    <3>. QED  BY <1>2, <3>1, <3>2
  <2>. QED  BY <2>2, <2>3
<1>8. ASSUME NEW x \in F, \A h \in F : x <= h
      PROVE  \E y \in G : (\A h \in G : y <= h) /\ D[y].pid = B[x].pid
  <2>. DEFINE y == j + (x - i)
  <2>1. x \in 1..Len(B) /\ i <= x /\ x - i \in 0..(Len(B) - i) /\ i + (x - i) = x
    BY <1>1, <1>4, <1>6
  <2>2. D[y] = B[x] /\ y \in 1..Len(D)
    BY <1>1, <1>6, <1>7, <2>1
  <2>3. y \in G
    BY <1>1, <2>2
  <2>4. ASSUME NEW h \in G PROVE y <= h
    <3>1. h \in 1..Len(D) /\ j <= h
      BY <1>5
    <3>. DEFINE k == h - j
    <3>2. k \in 0..(Len(B) - i) /\ i + k \in 1..Len(B) /\ j + k = h
      BY <1>1, <1>6, <1>7, <3>1
    <3>. HIDE DEF k
    <3>3. B[i + k] = D[h]
      BY <1>7, <3>2
    <3>4. i + k \in F
      BY <1>1, <3>2, <3>3
    <3>5. x <= i + k
      BY <1>8, <3>4
    <3>6. i \in Int /\ j \in Int /\ x \in Int /\ k \in Int /\ j + k = h
      BY <1>6, <2>1, <3>2
    <3>. QED  BY <3>5, <3>6
  <2>. QED  BY <2>2, <2>3, <2>4
<1>. QED  BY <1>3, <1>8

\* What is bound to an anchor is bound to that of the connection it came by.
AnchorInv ==
    /\ \A c \in Conns : pc[c] \in BusyLabels => Peer[c] # NoAnchor
    /\ \A s \in signed \cup remembered :
          s.who[1] \in Conns /\ s.anchor = Peer[s.who[1]] /\ s.anchor # NoAnchor

\* A busy thread has an anchor, and binds to it what it signs and remembers.
LEMMA NextAnchorInv == TypeOK /\ AnchorInv /\ [Next]_vars => AnchorInv'
<1>. SUFFICES ASSUME TypeOK, AnchorInv, [Next]_vars PROVE AnchorInv'
  OBVIOUS
<1>0. pc \in [Conns -> Labels]
  BY DEF TypeOK
<1>1. ASSUME NEW c \in Conns, NEW label, Goto(c, label), UNCHANGED <<remembered, signed>>,
             label \in BusyLabels => Peer[c] # NoAnchor
      PROVE  AnchorInv'
  <2>1. \A d \in Conns : pc'[d] = IF d = c THEN label ELSE pc[d]
    BY <1>0, <1>1 DEF Goto
  <2>. QED  BY <1>1, <2>1 DEF AnchorInv
<1>2. CASE \E c \in Conns : Accept(c) \/ SpawnHandler(c) \/ CloseIdle(c)
  BY <1>1, <1>2 DEF Accept, SpawnHandler, CloseIdle, history, BusyLabels, AskLabels
<1>3. ASSUME NEW c \in Conns, NEW r \in Wants[c], handle_sign(c, r) PROVE AnchorInv'
  <2>. DEFINE label == IF r.id \in Identities /\ Peer[c] # NoAnchor THEN "grant" ELSE "reading"
  <2>1. Goto(c, label) /\ UNCHANGED <<remembered, signed>>
    BY <1>3 DEF handle_sign, history
  <2>2. label \in BusyLabels => Peer[c] # NoAnchor
    BY DEF BusyLabels, AskLabels
  <2>. HIDE DEF label
  <2>. QED  BY <1>1, <2>1, <2>2
<1>4. ASSUME NEW c \in Conns,
             \/ has_ssh_grant(c) \/ evaluate_rules_for_ask(c) \/ submit_ask(c)
             \/ Receive(c) \/ SignTimesOut(c) \/ withdraw_waiter(c)
      PROVE  AnchorInv'
  <2>1. pc[c] \in BusyLabels /\ UNCHANGED <<remembered, signed>>
    BY <1>4 DEF has_ssh_grant, evaluate_rules_for_ask, submit_ask, Receive, SignTimesOut,
                withdraw_waiter, history, BusyLabels, AskLabels
  <2>2. \E label : Goto(c, label)
    BY <1>4 DEF has_ssh_grant, evaluate_rules_for_ask, submit_ask, Receive, SignTimesOut,
                withdraw_waiter
  <2>3. Peer[c] # NoAnchor
    BY <2>1 DEF AnchorInv
  <2>. QED  BY <1>1, <2>1, <2>2, <2>3
<1>5. ASSUME NEW c \in Conns, remember_ssh_grant(c) \/ resolve_and_sign(c) PROVE AnchorInv'
  <2>1. Peer[c] # NoAnchor
    BY <1>5 DEF AnchorInv, remember_ssh_grant, resolve_and_sign, BusyLabels, AskLabels
  <2>2. PICK label : Goto(c, label)
    BY <1>5 DEF remember_ssh_grant, resolve_and_sign
  <2>3. \A d \in Conns : pc'[d] = IF d = c THEN label ELSE pc[d]
    BY <1>0, <2>2 DEF Goto
  <2>4. \A s \in (signed \cup remembered)' :
           s \in signed \cup remembered \/ (s.who = Me(c) /\ s.anchor = Peer[c])
    BY <1>5 DEF remember_ssh_grant, resolve_and_sign
  <2>5. Me(c)[1] = c
    BY DEF Me
  <2>. QED  BY <2>1, <2>3, <2>4, <2>5 DEF AnchorInv
<1>6. CASE \/ UNCHANGED <<pc, remembered, signed>>
  BY <1>6 DEF AnchorInv
<1>7. ASSUME NEW c \in Conns, HandleOther(c) PROVE UNCHANGED <<pc, remembered, signed>>
  BY <1>7 DEF HandleOther, history
<1>8. ASSUME NEW k, NEW decision, resolve(k, decision)
      PROVE  UNCHANGED <<pc, remembered, signed>>
  BY <1>8 DEF resolve
<1>9. ASSUME Worker \/ Tick \/ Quiescent \/ UNCHANGED vars
      PROVE  UNCHANGED <<pc, remembered, signed>>
  BY <1>9 DEF Worker, WorkerSends, Tick, Quiescent, vars, history
<1>. QED
  BY <1>2, <1>3, <1>4, <1>5, <1>6, <1>7, <1>8, <1>9 DEF Next, Thread

\* The anchors and the threads in a request agree in every state.
LEMMA AnchorInvariance == Spec => []AnchorInv
<1>1. Init => AnchorInv
  BY DEF Init, AnchorInv, BusyLabels, AskLabels
<1>2. IndInv => TypeOK
  BY DEF IndInv
<1>. QED  BY <1>1, <1>2, NextAnchorInv, Invariance, PTL DEF Spec

\* In such a state, the grant that answers a sign was given in the signer's session.
LEMMA SilentSignIsAnchored ==
    ASSUME OneAncestry, SignNeedsAuthority, AnchorInv
    PROVE  SilentSignStaysInSession
<1>. SUFFICES ASSUME NEW s \in signed, s.decision = "cached"
              PROVE  /\ s.anchor \in {Behind(s.who[1])[i].pid : i \in DOMAIN Behind(s.who[1])}
                     /\ \E r \in remembered :
                           /\ r.anchor = s.anchor
                           /\ \/ ForwarderOf(r.who[1]) = ForwarderOf(s.who[1])
                              \/ Hides(r.who[1]) \/ Hides(s.who[1])
  BY DEF SilentSignStaysInSession
<1>. DEFINE c == s.who[1]
<1>1. PICK r \in remembered : r.anchor = s.anchor
  BY DEF SignNeedsAuthority
<1>. DEFINE d == r.who[1]
<1>2. /\ c \in Conns /\ s.anchor = Peer[c] /\ Peer[c] # NoAnchor
      /\ d \in Conns /\ r.anchor = Peer[d] /\ Peer[d] # NoAnchor
  BY <1>1 DEF AnchorInv
<1>. HIDE DEF c, d
<1>3. /\ Process[c] # NoPeer /\ Process[d] # NoPeer
  BY <1>2, AnchorIsBehind
<1>4. PICK i \in DOMAIN Behind(c) :
         /\ Behind(c)[i].pid = Peer[c]
         /\ ~Hides(c) => \A h \in 1..(i - 1) : ~IsForwarder(Behind(c)[h])
  BY <1>2, AnchorIsBehind
<1>5. PICK j \in DOMAIN Behind(d) :
         /\ Behind(d)[j].pid = Peer[d]
         /\ ~Hides(d) => \A h \in 1..(j - 1) : ~IsForwarder(Behind(d)[h])
  BY <1>2, AnchorIsBehind
<1>6. Behind(c)[i].pid = Behind(d)[j].pid
  BY <1>1, <1>2, <1>4, <1>5
<1>7. ~Hides(c) /\ ~Hides(d) => ForwarderOf(c) \subseteq ForwarderOf(d)
  BY <1>2, <1>3, <1>4, <1>5, <1>6, SameForwarders
<1>8. ~Hides(c) /\ ~Hides(d) => ForwarderOf(d) \subseteq ForwarderOf(c)
  BY <1>2, <1>3, <1>4, <1>5, <1>6, SameForwarders
<1>9. s.anchor \in {Behind(c)[x].pid : x \in DOMAIN Behind(c)}
  BY <1>2, <1>4
<1>10. ForwarderOf(d) = ForwarderOf(c) \/ Hides(d) \/ Hides(c)
  BY <1>7, <1>8, Zenon
<1>. QED  BY <1>1, <1>9, <1>10, Zenon DEF c, d

\* A sign on a session grant stays in the session of the person who gave it: its
\* anchor is the signer or behind it, and a grant given at a terminal serves no
\* host that an ssh of the terminal forwards the agent to, nor the other way
\* round, unless a forwarding ssh in between has its command line cut before the
\* option that says so.  Supposed is that an identity is of one process with one
\* ancestry.
THEOREM SilentSignStaysInSessionHolds ==
    ASSUME OneAncestry
    PROVE  Spec => []SilentSignStaysInSession
<1>1. SignNeedsAuthority /\ AnchorInv => SilentSignStaysInSession
  BY SilentSignIsAnchored
<1>. QED  BY <1>1, AnchorInvariance, SignNeedsAuthorityHolds, PTL
=============================================================================
