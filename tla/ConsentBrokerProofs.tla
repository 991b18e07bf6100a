------------------------- MODULE ConsentBrokerProofs -------------------------
(***************************************************************************)
(* Proofs, for every set of asks, wraps, processes, sessions and secrets   *)
(* and any number of decisions, that the broker loses no waiter, releases  *)
(* nothing without a consent, and implements OneShotConsent.               *)
(***************************************************************************)
EXTENDS ConsentBroker, FiniteSetTheorems, SequenceTheorems, WellFoundedInduction,
        TLAPS

\* What the other variables hold: workers, rendered rows, messages.
Job == [id : Nat, key : Keys, rep : SUBSET Secrets, waiters : SUBSET Asks,
        cold : BOOLEAN, stage : {"resolve", "end"}]

\* A decision on a row, as the window sends it.
Message == [key : Keys, decision : {"approve", "remember", "deny"},
            scope : {k.anchor : k \in Keys} \cup {None}, seen : SUBSET Secrets]

\* The closing of the window.
Dismissal == [key |-> None, decision |-> "dismiss", scope |-> None, seen |-> {}]

\* Where an ask is once a rule or a grant has authorised it.
AuthLabels == {"authorised", "begin", "resolve", "resolve cold", "end ok", "end err"}

\* Every variable the argument is about is of its type.
TypeInv ==
    /\ pc \in [Asks -> Labels]
    /\ outbox \in [Asks -> Seq([decision : {"approve", "deny", "err"},
                                secrets : SUBSET Secrets])]
    /\ abandoned \in [Asks -> {0, 1}]
    /\ queue \in [Keys -> Entry \cup {None}]
    /\ nextId \in Nat
    /\ releases \in [Sessions -> SUBSET Secrets]
    /\ jobs \subseteq Job
    /\ screen \subseteq [key : Keys, id : Nat, rep : SUBSET Secrets,
                         allow_remember : BOOLEAN]
    /\ clicks \in Seq(Message \cup {Dismissal})

\* Before it is parked nothing has happened to an ask, and past the first look
\* it has a key.
EarlyInv ==
    \A a \in Asks :
        /\ pc[a] \notin {"parked", "done"} => outbox[a] = <<>>
        /\ pc[a] # "done" => abandoned[a] = 0
        /\ pc[a] \notin {"adopt", "done"} => a \in DOMAIN KeyOf

\* Who waits on an entry is parked, under its key, and has no end yet.
QueueInv ==
    \A k \in Keys : Live(k) =>
        /\ queue[k].waiters # {}
        /\ \A a \in queue[k].waiters :
              /\ a \in DOMAIN KeyOf /\ Key(a) = k /\ Wants(a) \subseteq queue[k].rep
              /\ pc[a] = "parked" /\ outbox[a] = <<>>

\* Whom a worker has still to answer is on no entry and with no other worker.
JobInv ==
    \A j \in jobs : j.stage = "resolve" =>
        \A a \in j.waiters :
            /\ pc[a] \in {"parked", "done"} /\ Wants(a) \subseteq j.rep
            /\ outbox[a] = <<>> /\ abandoned[a] = 0
            /\ \A k \in Keys : Live(k) => a \notin queue[k].waiters
            /\ \A i \in jobs \ {j} : i.stage = "resolve" => a \notin i.waiters

\* A worker has still to answer a.
Worked(a) == \E j \in jobs : j.stage = "resolve" /\ a \in j.waiters
\* A live entry of the queue has a among its waiters.
Queued(a) == \E k \in Keys : Live(k) /\ a \in queue[k].waiters

\* A parked ask without an answer is on its entry or with a worker.
ParkInv ==
    \A a \in Asks : pc[a] = "parked" /\ outbox[a] = <<>> => Queued(a) \/ Worked(a)

\* A person approved an entry the ask waited on.
Consented(a) ==
    \E c \in consents : a \in c.waiters /\ (c.by = "phone" => c.applied = c.seen)

\* What was approved under a session.
GivenTo(s) == UNION {c.applied : c \in {d \in consents : d.key.anchor = s}}

\* An authority that the ask's own thread has found.
Authorised(a) ==
    \/ a \in ruled
    \/ \E c \in consents : /\ c.decision = "remember" /\ ~Ask[a].ignore_remembered
                           /\ c.key.wrap = Ask[a].wrap
                           /\ c.scope \in {Ask[a].ancestry[i].pid :
                                           i \in DOMAIN Ask[a].ancestry}
    \/ Ask[a].nested_run /\ Wants(a) \subseteq GivenTo(Ask[a].claim)

\* What is remembered, and what a session may be given, somebody approved.
MemoryInv ==
    /\ \A p \in approvals : \E c \in consents :
          c.decision = "remember" /\ c.key.wrap = p.wrap /\ c.scope = p.parent
    /\ \A s \in Sessions : releases[s] \subseteq GivenTo(s)

\* Who resolves has an authority, and so has who was answered with secrets.
AuthorityInv ==
    /\ \A a \in Asks : pc[a] \in AuthLabels => Authorised(a)
    /\ \A j \in jobs : \A a \in j.waiters : Consented(a)
    /\ \A a \in Asks :
          \/ outbox[a] \in {<<>>, <<Denied>>, <<Error>>}
          \/ outbox[a] = <<Approved(Wants(a))>> /\ (Authorised(a) \/ Consented(a))

\* The inductive invariant.
IndInv ==
    /\ TypeInv /\ EarlyInv /\ QueueInv /\ JobInv /\ ParkInv
    /\ MemoryInv /\ AuthorityInv

-----------------------------------------------------------------------------
\* An ask whose callers can be seen has a key, made of its wrap and an anchor.
LEMMA KeyFacts ==
    /\ DOMAIN KeyOf = {a \in Asks : Callers[a] # <<>>}
    /\ \A a \in DOMAIN KeyOf :
          /\ a \in Asks /\ Key(a) \in Keys /\ Key(a).wrap = Ask[a].wrap
          /\ Key(a).anchor = adopted_anchor(Ask[a].claim, Processes, Callers[a])
<1>1. DOMAIN KeyOf = {a \in Asks : Callers[a] # <<>>}
  BY DEF KeyOf
<1>2. \A a \in DOMAIN KeyOf :
         Key(a) = [wrap |-> Ask[a].wrap,
                   anchor |-> adopted_anchor(Ask[a].claim, Processes, Callers[a])]
  BY DEF KeyOf, Key
<1>. QED  BY <1>1, <1>2 DEF Keys

\* None is no entry, so a live entry is one.
LEMMA NoneIsNoEntry == None \notin Entry
  BY BrokerAssumption

\* An ask wants secrets.
LEMMA WantsSecrets == \A a \in Asks : Wants(a) \in SUBSET Secrets
  BY BrokerAssumption DEF Wants, AskRecord

\* The replies, and what a sequence of one reply is.
LEMMA Replies ==
    /\ \A r : <<r>> # <<>> /\ Append(<<>>, r) = <<r>>
    /\ \A q, r : <<q>> = <<r>> => q = r
    /\ Denied # Error
    /\ \A a \in Asks : Denied # Approved(Wants(a)) /\ Error # Approved(Wants(a))
<1>1. Denied.decision = "deny" /\ Error.decision = "err"
      /\ \A a \in Asks : Approved(Wants(a)).decision = "approve"
  BY DEF Denied, Error, Approved
<1>2. \A r : <<r>> # <<>> /\ Append(<<>>, r) = <<r>>
  OBVIOUS
<1>3. \A q, r : <<q>> = <<r>> => q = r
  OBVIOUS
<1>. QED  BY <1>1, <1>2, <1>3

\* A reply is of its type.
LEMMA ReplyTypes ==
    LET R == [decision : {"approve", "deny", "err"}, secrets : SUBSET Secrets]
    IN  Denied \in R /\ Error \in R /\ \A a \in Asks : Approved(Wants(a)) \in R
  BY WantsSecrets DEF Denied, Error, Approved

-----------------------------------------------------------------------------
(* What a step is to OneShotConsent *)

\* A step of the ask a as the abstract specification has it.
Moves(a) ==
    Promise!Stay(a) \/ Promise!Authorise(a) \/ Promise!Abandon(a)
                    \/ Promise!Refuse(a) \/ Promise!Answer(a)

\* Nothing happens to the ask.
LEMMA StayMoves ==
    ASSUME NEW a \in Asks, outbox'[a] = outbox[a], abandoned'[a] = abandoned[a],
           Resolving(a)' <=> Resolving(a)
    PROVE  Moves(a)
<1>1. PhaseOf(a)' = PhaseOf(a)
  BY DEF PhaseOf
<1>. QED  BY <1>1 DEF Moves, Promise!Stay

\* Its authority has been found.
LEMMA AuthoriseMoves ==
    ASSUME NEW a \in Asks, outbox[a] = <<>>, outbox'[a] = <<>>,
           abandoned[a] = 0, abandoned'[a] = 0, ~Resolving(a), Resolving(a)'
    PROVE  Moves(a)
<1>1. PhaseOf(a) = "open" /\ PhaseOf(a)' = "authorised"
  BY DEF PhaseOf
<1>. QED  BY <1>1 DEF Moves, Promise!Authorise

\* Its client has gone before anybody decided.
LEMMA AbandonMoves ==
    ASSUME NEW a \in Asks, outbox[a] = <<>>, outbox'[a] = <<>>,
           abandoned[a] = 0, abandoned'[a] = 1, ~Resolving(a)
    PROVE  Moves(a)
<1>1. PhaseOf(a) = "open" /\ PhaseOf(a)' = "abandoned"
  BY DEF PhaseOf
<1>. QED  BY <1>1 DEF Moves, Promise!Abandon

\* It is refused, open or authorised.
LEMMA RefuseMoves ==
    ASSUME NEW a \in Asks, outbox[a] = <<>>, outbox'[a] \in {<<Denied>>, <<Error>>},
           abandoned[a] = 0, abandoned'[a] = 0
    PROVE  Moves(a)
<1>1. PhaseOf(a)' = "answered" /\ PhaseOf(a) \in {"open", "authorised"}
  <2>1. outbox'[a] # <<>>
    BY Replies
  <2>2. PhaseOf(a)' = "answered"
    BY <2>1 DEF PhaseOf
  <2>3. PhaseOf(a) \in {"open", "authorised"}
    BY DEF PhaseOf
  <2>. QED  BY <2>2, <2>3
<1>2. \E r \in Promise!Refused : outbox'[a] = <<r>>
  BY DEF Promise!Refused, Denied, Error
<1>. QED  BY <1>1, <1>2 DEF Moves, Promise!Refuse, Promise!Answer

\* It gets what it asked for.
LEMMA AnswerMoves ==
    ASSUME NEW a \in Asks, outbox[a] = <<>>, outbox'[a] = <<Approved(Wants(a))>>,
           abandoned[a] = 0, abandoned'[a] = 0, Resolving(a)
    PROVE  Moves(a)
<1>1. PhaseOf(a)' = "answered" /\ PhaseOf(a) = "authorised"
  BY Replies DEF PhaseOf
<1>2. Promise!Granted(a) = Approved(Wants(a))
  BY DEF Promise!Granted, Approved
<1>. QED  BY <1>1, <1>2 DEF Moves, Promise!Answer

-----------------------------------------------------------------------------
(* What a consent once given, or a rule once applied, stays for *)

\* No authority is lost while the history grows.
LEMMA HistoryGrows ==
    ASSUME consents \subseteq consents', ruled \subseteq ruled'
    PROVE  /\ \A a : Consented(a) => Consented(a)'
           /\ \A a : Authorised(a) => Authorised(a)'
           /\ \A s : GivenTo(s) \subseteq GivenTo(s)'
<1>1. \A s : GivenTo(s) \subseteq GivenTo(s)'
  BY DEF GivenTo
<1>. QED  BY <1>1 DEF Consented, Authorised

\* A step that leaves the asks, the queue and the workers alone.
LEMMA UnrelatedStep ==
    ASSUME IndInv,
           UNCHANGED <<pc, outbox, abandoned, queue, nextId, approvals, releases, jobs,
                       consents, ruled>>,
           screen' \subseteq [key : Keys, id : Nat, rep : SUBSET Secrets,
                              allow_remember : BOOLEAN],
           clicks' \in Seq(Message \cup {Dismissal})
    PROVE  IndInv' /\ \A a \in Asks : Moves(a)
<1>1. TypeInv'
  BY DEF IndInv, TypeInv
<1>2. EarlyInv' /\ QueueInv' /\ JobInv' /\ ParkInv'
  BY DEF IndInv, EarlyInv, QueueInv, JobInv, ParkInv, Live, Queued, Worked
<1>3. MemoryInv' /\ AuthorityInv'
  BY DEF IndInv, MemoryInv, AuthorityInv, GivenTo, Consented, Authorised
<1>4. \A a \in Asks : Resolving(a)' <=> Resolving(a)
  BY DEF Resolving
<1>5. \A a \in Asks : Moves(a)
  BY <1>4, StayMoves
<1>. QED  BY <1>1, <1>2, <1>3, <1>5 DEF IndInv

\* A thread goes on with an ask that is neither parked nor done; if it has found
\* an authority the ask is authorised.
LEMMA ThreadMoves ==
    ASSUME IndInv, NEW a \in Asks, NEW label \in Labels \ {"parked", "done", "adopt"},
           Goto(a, label), pc[a] \notin {"parked", "done"}, a \in DOMAIN KeyOf,
           UNCHANGED <<outbox, abandoned, queue, nextId, approvals, releases, jobs,
                       screen, clicks, consents>>,
           ruled \subseteq ruled',
           label \in AuthLabels => Authorised(a) \/ a \in ruled',
           pc[a] \in AuthLabels => label \in AuthLabels
    PROVE  IndInv' /\ \A b \in Asks : Moves(b)
<1>1. /\ pc' \in [Asks -> Labels] /\ pc'[a] = label
      /\ \A b \in Asks \ {a} : pc'[b] = pc[b]
  BY DEF IndInv, TypeInv, Goto
<1>2. TypeInv'
  BY <1>1 DEF IndInv, TypeInv
<1>3. outbox[a] = <<>> /\ abandoned[a] = 0
  BY DEF IndInv, EarlyInv
<1>4. EarlyInv'
  BY <1>1, <1>3 DEF IndInv, EarlyInv
<1>5. /\ \A k \in Keys : Live(k) => a \notin queue[k].waiters
      /\ \A j \in jobs : j.stage = "resolve" => a \notin j.waiters
  BY DEF IndInv, QueueInv, JobInv
<1>6. /\ \A k \in Keys : Live(k) => queue[k].waiters \subseteq Asks
      /\ \A j \in jobs : j.waiters \subseteq Asks
  BY DEF IndInv, TypeInv, Live, Entry, Job
<1>7. QueueInv'
  BY <1>1, <1>5, <1>6 DEF IndInv, QueueInv, Live
<1>8. JobInv'
  BY <1>1, <1>5, <1>6 DEF IndInv, JobInv, Live
<1>9. ParkInv'
  BY <1>1 DEF IndInv, ParkInv, Queued, Worked, Live
<1>10. /\ \A b : Consented(b) => Consented(b)'
       /\ \A b : Authorised(b) => Authorised(b)'
       /\ \A s : GivenTo(s) \subseteq GivenTo(s)'
  BY HistoryGrows
<1>11. MemoryInv'
  BY <1>10 DEF IndInv, MemoryInv
<1>12. a \in ruled' => Authorised(a)'
  BY DEF Authorised
<1>13. AuthorityInv'
  BY <1>1, <1>10, <1>12 DEF IndInv, AuthorityInv
<1>14. \A b \in Asks \ {a} : Resolving(b)' <=> Resolving(b)
  BY <1>1 DEF Resolving
<1>15. /\ Resolving(a) <=> pc[a] \in AuthLabels
       /\ Resolving(a)' <=> label \in AuthLabels
  BY <1>1, <1>5 DEF Resolving, AuthLabels
<1>16. \A b \in Asks \ {a} : Moves(b)
  BY <1>14, StayMoves
<1>17. Moves(a)
  BY <1>3, <1>15, StayMoves, AuthoriseMoves
<1>. QED  BY <1>2, <1>4, <1>7, <1>8, <1>9, <1>11, <1>13, <1>16, <1>17 DEF IndInv

\* A thread ends its ask with a reply: secrets only if the ask is authorised.
LEMMA ThreadReplies ==
    ASSUME IndInv, NEW a \in Asks, NEW r, Reply(a, r), Goto(a, "done"),
           pc[a] \notin {"parked", "done"},
           r \in {Denied, Error} \/ (pc[a] \in AuthLabels /\ r = Approved(Wants(a))),
           UNCHANGED <<abandoned, queue, nextId, approvals, releases, jobs, screen,
                       clicks, consents, ruled>>
    PROVE  IndInv' /\ \A b \in Asks : Moves(b)
<1>1. /\ pc' \in [Asks -> Labels] /\ pc'[a] = "done"
      /\ \A b \in Asks \ {a} : pc'[b] = pc[b]
  BY DEF IndInv, TypeInv, Goto, Labels
<1>2. outbox[a] = <<>> /\ abandoned[a] = 0
  BY DEF IndInv, EarlyInv
<1>3. /\ outbox'[a] = <<r>> /\ \A b \in Asks \ {a} : outbox'[b] = outbox[b]
      /\ outbox' \in [Asks -> Seq([decision : {"approve", "deny", "err"},
                                   secrets : SUBSET Secrets])]
  <2>1. r \in [decision : {"approve", "deny", "err"}, secrets : SUBSET Secrets]
    BY ReplyTypes
  <2>2. outbox' = [outbox EXCEPT ![a] = <<r>>]
    BY <1>2, Replies DEF Reply
  <2>3. outbox \in [Asks -> Seq([decision : {"approve", "deny", "err"},
                                 secrets : SUBSET Secrets])]
    BY DEF IndInv, TypeInv
  <2>4. <<r>> \in Seq([decision : {"approve", "deny", "err"}, secrets : SUBSET Secrets])
    BY <2>1
  <2>. QED  BY <2>2, <2>3, <2>4
<1>4. TypeInv'
  BY <1>1, <1>3 DEF IndInv, TypeInv
<1>5. EarlyInv'
  BY <1>1, <1>3 DEF IndInv, EarlyInv
<1>6. /\ \A k \in Keys : Live(k) => a \notin queue[k].waiters
      /\ \A j \in jobs : j.stage = "resolve" => a \notin j.waiters
  BY DEF IndInv, QueueInv, JobInv
<1>7. /\ \A k \in Keys : Live(k) => queue[k].waiters \subseteq Asks
      /\ \A j \in jobs : j.waiters \subseteq Asks
  BY DEF IndInv, TypeInv, Live, Entry, Job
<1>8. QueueInv'
  BY <1>1, <1>3, <1>6, <1>7 DEF IndInv, QueueInv, Live
<1>9. JobInv'
  BY <1>1, <1>3, <1>6, <1>7 DEF IndInv, JobInv, Live
<1>10. ParkInv'
  BY <1>1, <1>3 DEF IndInv, ParkInv, Queued, Worked, Live
<1>11. MemoryInv'
  BY DEF IndInv, MemoryInv, GivenTo
<1>12. /\ \A b : Consented(b)' <=> Consented(b)
       /\ \A b : Authorised(b)' <=> Authorised(b)
  BY DEF Consented, Authorised, GivenTo
<1>13. AuthorityInv'
  <2>1. \/ outbox'[a] \in {<<Denied>>, <<Error>>}
        \/ outbox'[a] = <<Approved(Wants(a))>> /\ Authorised(a)
    BY <1>3 DEF IndInv, AuthorityInv
  <2>2. "done" \notin AuthLabels
    BY DEF AuthLabels
  <2>. QED  BY <1>1, <1>3, <1>12, <2>1, <2>2 DEF IndInv, AuthorityInv
<1>14. \A b \in Asks \ {a} : Moves(b)
  <2>1. \A b \in Asks \ {a} : Resolving(b)' <=> Resolving(b)
    BY <1>1 DEF Resolving
  <2>. QED  BY <1>3, <2>1, StayMoves
<1>15. Moves(a)
  <2>1. CASE r \in {Denied, Error}
    BY <1>2, <1>3, <2>1, RefuseMoves
  <2>2. CASE pc[a] \in AuthLabels /\ r = Approved(Wants(a))
    <3>1. Resolving(a)
      BY <2>2 DEF Resolving, AuthLabels
    <3>. QED  BY <1>2, <1>3, <2>2, <3>1, AnswerMoves
  <2>. QED  BY <2>1, <2>2
<1>. QED  BY <1>4, <1>5, <1>8, <1>9, <1>10, <1>11, <1>13, <1>14, <1>15 DEF IndInv

-----------------------------------------------------------------------------
(* The walk *)

\* A set of naturals has a least element: < is well-founded.
LEMMA LeastNatural ==
    ASSUME NEW T, T \subseteq Nat, T # {}
    PROVE  \E n \in T : \A m \in T : n <= m
<1>1. IsWellFoundedOn({p \in Nat \X Nat : p[1] < p[2]}, Nat)
  BY NatLessThanWellFounded DEF OpToRel
<1>2. PICK n \in T : \A m \in T : <<m, n>> \notin {p \in Nat \X Nat : p[1] < p[2]}
  BY <1>1, WFMin, Zenon
<1>3. ASSUME NEW m \in T PROVE n <= m
  <2>1. <<m, n>> \notin {p \in Nat \X Nat : p[1] < p[2]}
    BY <1>2
  <2>2. ~(m < n)
    BY <2>1
  <2>3. m \in Nat /\ n \in Nat
    OBVIOUS
  <2>. QED  BY <2>2, <2>3
<1>. QED  BY <1>3

\* The frames among the first n processes, counted.
LEMMA KeptCounts ==
    ASSUME NEW s, NEW n \in Nat
    PROVE  /\ IsFiniteSet(Kept(s, n)) /\ Cardinality(Kept(s, n)) \in Nat
           /\ n = 0 => Cardinality(Kept(s, n)) = 0
           /\ Cardinality(Kept(s, n + 1)) =
                IF is_self_frame(s[n + 1]) THEN Cardinality(Kept(s, n))
                ELSE Cardinality(Kept(s, n)) + 1
<1>1. IsFiniteSet(1..n) /\ Kept(s, n) \in SUBSET (1..n)
  BY FS_Interval DEF Kept
<1>2. IsFiniteSet(Kept(s, n)) /\ Cardinality(Kept(s, n)) \in Nat
  BY <1>1, FS_Subset, FS_CardinalityType
<1>3. n = 0 => Cardinality(Kept(s, n)) = 0
  <2>1. n = 0 => Kept(s, n) = {}
    BY DEF Kept
  <2>. QED  BY <2>1, FS_EmptySet
<1>4. 1..(n + 1) = (1..n) \cup {n + 1} /\ n + 1 \notin 1..n
  OBVIOUS
<1>5. CASE is_self_frame(s[n + 1])
  <2>1. Kept(s, n + 1) = Kept(s, n)
    BY <1>4, <1>5 DEF Kept
  <2>. QED  BY <1>2, <1>3, <1>5, <2>1
<1>6. CASE ~is_self_frame(s[n + 1])
  <2>1. Kept(s, n + 1) = Kept(s, n) \cup {n + 1} /\ n + 1 \notin Kept(s, n)
    BY <1>4, <1>6 DEF Kept
  <2>2. Cardinality(Kept(s, n + 1)) = Cardinality(Kept(s, n)) + 1
    BY <1>2, <2>1, FS_AddElement
  <2>. QED  BY <1>2, <1>3, <1>6, <2>2
<1>. QED  BY <1>5, <1>6

\* Every frame up to the count is one of the processes.
LEMMA FrameExists ==
    ASSUME NEW s, NEW n \in Nat, NEW m \in 1..Cardinality(Kept(s, n))
    PROVE  \E i \in Kept(s, n) : Cardinality(Kept(s, i)) = m
<1>. DEFINE T == {i \in 0..n : Cardinality(Kept(s, i)) >= m}
<1>1. \A i \in Nat : Cardinality(Kept(s, i)) \in Nat
  BY KeptCounts
<1>2. m \in Nat /\ m >= 1 /\ n \in T /\ T \subseteq Nat
  BY <1>1
<1>3. PICK i \in T : \A j \in T : i <= j
  BY <1>2, LeastNatural
<1>4. i \in Nat /\ i <= n /\ Cardinality(Kept(s, i)) >= m
  BY <1>2
<1>5. i # 0
  BY <1>1, <1>2, <1>4, KeptCounts
<1>6. i - 1 \in Nat /\ i - 1 \in 0..n /\ i - 1 \notin T /\ (i - 1) + 1 = i
  BY <1>2, <1>3, <1>4, <1>5
<1>7. Cardinality(Kept(s, i - 1)) < m
  BY <1>1, <1>2, <1>6
<1>8. Cardinality(Kept(s, i)) = IF is_self_frame(s[i]) THEN Cardinality(Kept(s, i - 1))
                                ELSE Cardinality(Kept(s, i - 1)) + 1
  <2>1. Cardinality(Kept(s, (i - 1) + 1)) =
           IF is_self_frame(s[(i - 1) + 1]) THEN Cardinality(Kept(s, i - 1))
           ELSE Cardinality(Kept(s, i - 1)) + 1
    BY <1>6, KeptCounts
  <2>. QED  BY <1>6, <2>1
<1>9. ~is_self_frame(s[i]) /\ Cardinality(Kept(s, i)) = m
  BY <1>1, <1>2, <1>4, <1>6, <1>7, <1>8
<1>10. i \in Kept(s, n)
  BY <1>4, <1>5, <1>9 DEF Kept
<1>. QED  BY <1>9, <1>10

\* The frames of a walk are processes behind the peer.
LEMMA CallersAreBehind ==
    ASSUME NEW a \in Asks
    PROVE  /\ Len(Callers[a]) \in Nat /\ DOMAIN Callers[a] = 1..Len(Callers[a])
           /\ Callers[a] # <<>> => Len(Callers[a]) # 0
           /\ \A i \in DOMAIN Callers[a] : \E j \in DOMAIN Ask[a].ancestry :
                 Callers[a][i].pid = Ask[a].ancestry[j].pid
<1>. DEFINE s == Ask[a].ancestry
            Enough(n) == n >= MaxWalk \/ Cardinality(Kept(s, n)) >= MaxChain
            Stops(n) == /\ n = Len(s) \/ Enough(n)
                        /\ \A i \in 0..(n - 1) : ~Enough(i)
            stop == CHOOSE n \in 0..Len(s) : Stops(n)
            at(m) == CHOOSE i \in Kept(s, stop) : Cardinality(Kept(s, i)) = m
            frame(m) == s[at(m)]
            count == Cardinality(Kept(s, stop))
<1>1. Len(s) \in Nat /\ DOMAIN s = 1..Len(s)
  BY BrokerAssumption DEF AskRecord
<1>2. stop \in 0..Len(s)
  <2>. DEFINE T == {n \in 0..Len(s) : n = Len(s) \/ Enough(n)}
  <2>. HIDE DEF Enough
  <2>1. T \subseteq Nat /\ Len(s) \in T
    BY <1>1
  <2>2. PICK n \in T : \A m \in T : n <= m
    BY <2>1, LeastNatural
  <2>3. \A i \in 0..(n - 1) : i \in 0..Len(s) /\ ~(n <= i)
    BY <1>1, <2>1
  <2>4. Stops(n)
    BY <2>2, <2>3
  <2>. QED  BY <2>4
<1>3. Callers[a] = [m \in 1..count |->
         Caller(frame(m).pid, frame(m).exe, frame(m).name,
                sanitize_display(frame(m).command))]
  BY DEF Callers, walk
<1>. HIDE DEF stop
<1>4. stop \in Nat /\ count \in Nat
  BY <1>1, <1>2, KeptCounts
<1>. HIDE DEF count
<1>5. DOMAIN Callers[a] = 1..count /\ \A m \in 1..count : Callers[a][m].pid = s[at(m)].pid
  <2>1. \A p, e, n, c : Caller(p, e, n, c).pid = p
    BY DEF Caller
  <2>. HIDE DEF at
  <2>. QED  BY <1>3, <2>1
<1>6. Len(Callers[a]) = count
  BY <1>3, <1>4
<1>7. Callers[a] # <<>> => count # 0
  BY <1>3
<1>8. ASSUME NEW m \in 1..count PROVE at(m) \in DOMAIN s
  <2>1. \E i \in Kept(s, stop) : Cardinality(Kept(s, i)) = m
    BY <1>4, FrameExists DEF count
  <2>2. at(m) \in Kept(s, stop)
    BY <2>1
  <2>. QED  BY <1>1, <1>2, <2>2 DEF Kept
<1>9. ASSUME NEW m \in DOMAIN Callers[a]
      PROVE  \E j \in DOMAIN s : Callers[a][m].pid = s[j].pid
  <2>. HIDE DEF at
  <2>. QED  BY <1>5, <1>8
<1>. QED  BY <1>4, <1>5, <1>6, <1>7, <1>9

\* Whose approvals serve an ask is behind it; a session is what it claims.
LEMMA ScopeIsBehind ==
    ASSUME NEW a \in DOMAIN KeyOf
    PROVE  /\ approval_scope_for(a) \subseteq
                {Ask[a].ancestry[i].pid : i \in DOMAIN Ask[a].ancestry}
           /\ IsSession(Key(a)) => Key(a).anchor = Ask[a].claim
<1>1. /\ a \in Asks /\ Callers[a] # <<>> /\ AskRecord(a) /\ Processes \cap Sessions = {}
      /\ Key(a).anchor = adopted_anchor(Ask[a].claim, Processes, Callers[a])
  BY KeyFacts, BrokerAssumption
<1>2. /\ Len(Callers[a]) \in Nat /\ DOMAIN Callers[a] = 1..Len(Callers[a])
      /\ Len(Callers[a]) # 0
      /\ \A i \in DOMAIN Callers[a] : \E j \in DOMAIN Ask[a].ancestry :
            Callers[a][i].pid = Ask[a].ancestry[j].pid
  BY <1>1, CallersAreBehind
<1>3. 1 \in DOMAIN Callers[a] /\ 2..Len(Callers[a]) \subseteq DOMAIN Callers[a]
  BY <1>2
<1>4. Callers[a][1].pid \in Processes
  BY <1>1, <1>2, <1>3 DEF AskRecord
<1>5. Key(a).anchor = IF Ask[a].claim \in Processes THEN Callers[a][1].pid ELSE Ask[a].claim
  BY <1>1 DEF adopted_anchor
<1>6. Key(a).anchor \in Processes => Key(a).anchor = Callers[a][1].pid
  BY <1>1, <1>5 DEF AskRecord
<1>7. IsSession(Key(a)) => Key(a).anchor = Ask[a].claim
  BY <1>1, <1>4, <1>5 DEF IsSession
<1>. QED  BY <1>2, <1>3, <1>6, <1>7 DEF approval_scope_for

-----------------------------------------------------------------------------
(* handle_ask and the resolution on its thread *)

\* An ask without callers is refused; the others have a key.
LEMMA AdoptStep ==
    ASSUME IndInv, NEW a \in Asks, adopt_peer_provenance(a)
    PROVE  IndInv' /\ \A b \in Asks : Moves(b)
<1>1. /\ pc[a] = "adopt"
      /\ UNCHANGED <<abandoned, queue, nextId, approvals, releases, jobs, screen,
                     clicks, consents, ruled>>
  BY DEF adopt_peer_provenance
<1>2. CASE Callers[a] # <<>> /\ Goto(a, "remembered") /\ UNCHANGED outbox
  <2>1. a \in DOMAIN KeyOf
    BY <1>2, KeyFacts
  <2>. QED  BY <1>1, <1>2, <2>1, ThreadMoves DEF Labels, AuthLabels
<1>3. CASE Reply(a, Error) /\ Goto(a, "done")
  BY <1>1, <1>3, ThreadReplies
<1>. QED  BY <1>2, <1>3 DEF adopt_peer_provenance

\* A remembered approval counts only for a process behind the ask.
LEMMA RememberedStep ==
    ASSUME IndInv, NEW a \in Asks, CheckRemembered(a)
    PROVE  IndInv' /\ \A b \in Asks : Moves(b)
<1>1. /\ pc[a] = "remembered"
      /\ UNCHANGED <<outbox, abandoned, queue, nextId, approvals, releases, jobs, screen,
                     clicks, consents, ruled>>
  BY DEF CheckRemembered
<1>2. a \in DOMAIN KeyOf
  BY <1>1 DEF IndInv, EarlyInv
<1>3. PICK label \in {"authorised", "rules"} :
         /\ Goto(a, label)
         /\ label = "authorised" => ~Ask[a].ignore_remembered /\ has_cached_approval(a)
  BY DEF CheckRemembered
<1>4. label = "authorised" => Authorised(a)
  <2>. SUFFICES ASSUME label = "authorised" PROVE Authorised(a)
    OBVIOUS
  <2>1. PICK p \in approval_scope_for(a) : [wrap |-> Key(a).wrap, parent |-> p] \in approvals
    BY <1>3 DEF has_cached_approval
  <2>2. PICK c \in consents : /\ c.decision = "remember" /\ c.key.wrap = Key(a).wrap
                              /\ c.scope = p
    BY <2>1 DEF IndInv, MemoryInv
  <2>3. /\ p \in {Ask[a].ancestry[i].pid : i \in DOMAIN Ask[a].ancestry}
        /\ Key(a).wrap = Ask[a].wrap
    BY <1>2, <2>1, ScopeIsBehind, KeyFacts
  <2>. QED  BY <1>3, <2>2, <2>3 DEF Authorised
<1>. QED  BY <1>1, <1>2, <1>3, <1>4, ThreadMoves DEF Labels, AuthLabels

\* A rule decides, or leaves the ask to a person.
LEMMA RuleHitStep ==
    ASSUME IndInv, NEW a \in Asks, handle_rule_hit(a)
    PROVE  IndInv' /\ \A b \in Asks : Moves(b)
<1>1. /\ pc[a] = "rules"
      /\ UNCHANGED <<abandoned, queue, nextId, approvals, releases, jobs, screen,
                     clicks, consents>>
  BY DEF handle_rule_hit
<1>2. a \in DOMAIN KeyOf
  BY <1>1 DEF IndInv, EarlyInv
<1>3. CASE Goto(a, "nested") /\ UNCHANGED <<outbox, ruled>>
  BY <1>1, <1>2, <1>3, ThreadMoves DEF Labels, AuthLabels
<1>4. CASE Reply(a, Denied) /\ Goto(a, "done") /\ UNCHANGED ruled
  BY <1>1, <1>4, ThreadReplies
<1>5. CASE ruled' = ruled \cup {a} /\ Goto(a, "authorised") /\ UNCHANGED outbox
  BY <1>1, <1>2, <1>5, ThreadMoves DEF Labels, AuthLabels
<1>. QED  BY <1>3, <1>4, <1>5 DEF handle_rule_hit

\* A nested run skips the window only for what its own session was given.
LEMMA NestedStep ==
    ASSUME IndInv, NEW a \in Asks, CheckNested(a)
    PROVE  IndInv' /\ \A b \in Asks : Moves(b)
<1>1. /\ pc[a] = "nested"
      /\ UNCHANGED <<outbox, abandoned, queue, nextId, approvals, releases, jobs, screen,
                     clicks, consents, ruled>>
  BY DEF CheckNested
<1>2. a \in DOMAIN KeyOf
  BY <1>1 DEF IndInv, EarlyInv
<1>3. PICK label \in {"authorised", "submit"} :
         Goto(a, label) /\ (label = "authorised" => nested_run_may_skip_window(a))
  BY DEF CheckNested
<1>4. label = "authorised" => Authorised(a)
  <2>. SUFFICES ASSUME nested_run_may_skip_window(a) PROVE Authorised(a)
    BY <1>3
  <2>1. /\ Ask[a].nested_run /\ Key(a).anchor \in Sessions
        /\ Wants(a) \subseteq releases[Key(a).anchor]
    BY DEF nested_run_may_skip_window, IsSession
  <2>2. releases[Key(a).anchor] \subseteq GivenTo(Key(a).anchor)
    BY <2>1 DEF IndInv, MemoryInv
  <2>3. Key(a).anchor = Ask[a].claim
    BY <1>2, <2>1, ScopeIsBehind DEF IsSession
  <2>. QED  BY <2>1, <2>2, <2>3 DEF Authorised
<1>. QED  BY <1>1, <1>2, <1>3, <1>4, ThreadMoves DEF Labels, AuthLabels

\* The steps of resolve_approved_with_pending up to its reply.
LEMMA ResolutionSteps ==
    ASSUME IndInv, NEW a \in Asks, ColdCheck(a) \/ begin_pending(a) \/ ResolveCold(a)
    PROVE  IndInv' /\ \A b \in Asks : Moves(b)
<1>1. /\ pc[a] \in {"authorised", "begin", "resolve cold"}
      /\ UNCHANGED <<outbox, abandoned, queue, nextId, approvals, releases, jobs, screen,
                     clicks, consents, ruled>>
      /\ \E label \in {"resolve", "begin", "resolve cold", "end ok", "end err"} :
            Goto(a, label)
  BY DEF ColdCheck, begin_pending, ResolveCold
<1>2. a \in DOMAIN KeyOf /\ Authorised(a)
  BY <1>1 DEF IndInv, EarlyInv, AuthorityInv, AuthLabels
<1>. QED  BY <1>1, <1>2, ThreadMoves DEF Labels, AuthLabels

\* The reply of an authorised ask's own thread.
LEMMA ReplySteps ==
    ASSUME IndInv, NEW a \in Asks, ResolveWarm(a) \/ end_pending(a)
    PROVE  IndInv' /\ \A b \in Asks : Moves(b)
<1>1. /\ pc[a] \in {"resolve", "end ok", "end err"} /\ Goto(a, "done")
      /\ UNCHANGED <<abandoned, queue, nextId, approvals, releases, jobs, screen,
                     clicks, consents, ruled>>
      /\ Reply(a, Error) \/ Reply(a, Approved(Wants(a)))
  BY DEF ResolveWarm, end_pending
<1>. QED  BY <1>1, ThreadReplies DEF AuthLabels

-----------------------------------------------------------------------------
(* The queue *)

\* What a queue entry holds.
LEMMA EntryFacts ==
    ASSUME IndInv, NEW k \in Keys, Live(k)
    PROVE  /\ queue[k] \in Entry /\ queue[k].id \in Nat
           /\ queue[k].rep \in SUBSET Secrets /\ queue[k].waiters \in SUBSET Asks
           /\ queue[k].allow_remember \in BOOLEAN
<1>1. queue[k] \in Entry
  BY DEF IndInv, TypeInv, Live
<1>. QED  BY <1>1 DEF Entry

\* An ask joins the entry under its key, or opens it.
LEMMA SubmitStep ==
    ASSUME IndInv, NEW a \in Asks, submit_ask(a)
    PROVE  IndInv' /\ \A b \in Asks : Moves(b)
<1>. DEFINE k == Key(a)
            fresh == [id |-> nextId, rep |-> Wants(a), waiters |-> {a},
                      allow_remember |-> Ask[a].allow_remember]
            e == IF Live(k) THEN Coalesced(queue[k], a) ELSE fresh
<1>1. /\ pc[a] = "submit" /\ Goto(a, "parked")
      /\ UNCHANGED <<outbox, abandoned, approvals, releases, jobs, screen, clicks,
                     consents, ruled>>
      /\ queue' = [queue EXCEPT ![k] = e]
      /\ nextId' = nextId \/ nextId' = nextId + 1
  BY DEF submit_ask
<1>2. /\ a \in DOMAIN KeyOf /\ k \in Keys /\ outbox[a] = <<>> /\ abandoned[a] = 0
      /\ \A q \in Keys : Live(q) => a \notin queue[q].waiters
      /\ \A j \in jobs : j.stage = "resolve" => a \notin j.waiters
  BY <1>1, KeyFacts DEF IndInv, EarlyInv, QueueInv, JobInv
<1>3. /\ e \in Entry /\ a \in e.waiters /\ Wants(a) \subseteq e.rep
      /\ Live(k) => e.waiters = queue[k].waiters \cup {a} /\ queue[k].rep \subseteq e.rep
      /\ ~Live(k) => e.waiters = {a}
  <2>1. CASE Live(k)
    <3>1. queue[k] \in Entry
      BY <1>2, <2>1, EntryFacts
    <3>. QED  BY <2>1, <3>1, WantsSecrets DEF Coalesced, Entry
  <2>2. CASE ~Live(k)
    <3>1. nextId \in Nat /\ Ask[a].allow_remember \in BOOLEAN
      BY BrokerAssumption DEF IndInv, TypeInv, AskRecord
    <3>. QED  BY <2>2, <3>1, WantsSecrets DEF Entry
  <2>. QED  BY <2>1, <2>2
<1>. HIDE DEF e
<1>4. /\ queue'[k] = e /\ \A q \in Keys \ {k} : queue'[q] = queue[q]
      /\ queue' \in [Keys -> Entry \cup {None}]
  BY <1>1, <1>2, <1>3 DEF IndInv, TypeInv
<1>. HIDE DEF k
<1>5. /\ Live(k)' /\ \A q \in Keys \ {k} : Live(q)' <=> Live(q)
  BY <1>3, <1>4, NoneIsNoEntry DEF Live
<1>6. /\ pc' \in [Asks -> Labels] /\ pc'[a] = "parked"
      /\ \A b \in Asks \ {a} : pc'[b] = pc[b]
  BY <1>1 DEF IndInv, TypeInv, Goto, Labels
<1>7. TypeInv'
  <2>1. nextId \in Nat
    BY DEF IndInv, TypeInv
  <2>2. nextId' \in Nat
    BY <1>1, <2>1
  <2>. QED  BY <1>1, <1>4, <1>6, <2>2 DEF IndInv, TypeInv
<1>8. EarlyInv'
  BY <1>1, <1>2, <1>6 DEF IndInv, EarlyInv
<1>9. /\ \A q \in Keys : Live(q) => queue[q].waiters \subseteq Asks
      /\ \A j \in jobs : j.waiters \subseteq Asks
  BY DEF IndInv, TypeInv, Live, Entry, Job
<1>10. QueueInv'
  <2>. SUFFICES ASSUME NEW q \in Keys, Live(q)'
                PROVE  /\ queue'[q].waiters # {}
                       /\ \A b \in queue'[q].waiters :
                             /\ b \in DOMAIN KeyOf /\ Key(b) = q
                             /\ Wants(b) \subseteq queue'[q].rep
                             /\ pc'[b] = "parked" /\ outbox'[b] = <<>>
    BY DEF QueueInv
  <2>1. CASE q = k
    BY <1>1, <1>2, <1>3, <1>4, <1>6, <1>9, <2>1 DEF IndInv, QueueInv, k
  <2>2. CASE q # k
    BY <1>1, <1>2, <1>4, <1>5, <1>6, <1>9, <2>2 DEF IndInv, QueueInv
  <2>. QED  BY <2>1, <2>2
<1>11. JobInv'
  <2>1. \A q \in Keys : Live(q)' => \A b \in queue'[q].waiters :
           b = a \/ (Live(q) /\ b \in queue[q].waiters)
    BY <1>3, <1>4, <1>5
  <2>. QED  BY <1>1, <1>2, <1>6, <1>9, <2>1 DEF IndInv, JobInv
<1>12. ParkInv'
  <2>1. Queued(a)'
    BY <1>2, <1>3, <1>4, <1>5 DEF Queued, k
  <2>2. \A b \in Asks : (Queued(b) => Queued(b)') /\ (Worked(b) <=> Worked(b)')
    BY <1>1, <1>3, <1>4, <1>5 DEF Queued, Worked
  <2>. QED  BY <1>1, <1>6, <2>1, <2>2 DEF IndInv, ParkInv
<1>13. /\ \A b : Consented(b)' <=> Consented(b)
       /\ \A b : Authorised(b)' <=> Authorised(b)
       /\ \A s : GivenTo(s)' = GivenTo(s)
  BY <1>1 DEF Consented, Authorised, GivenTo
<1>14. MemoryInv' /\ AuthorityInv'
  BY <1>1, <1>6, <1>13 DEF IndInv, MemoryInv, AuthorityInv, AuthLabels
<1>15. \A b \in Asks : Moves(b)
  <2>1. \A b \in Asks : Resolving(b)' <=> Resolving(b)
    BY <1>1, <1>6 DEF Resolving
  <2>. QED  BY <1>1, <2>1, StayMoves
<1>. QED  BY <1>7, <1>8, <1>10, <1>11, <1>12, <1>14, <1>15 DEF IndInv

\* A waiter that is withdrawn was on its entry, and so is nobody's any more; one
\* that was decided stays its worker's.
LEMMA WithdrawStep ==
    ASSUME IndInv, NEW a \in Asks, withdraw_waiter(a)
    PROVE  IndInv' /\ \A b \in Asks : Moves(b)
<1>. DEFINE k == Key(a)
<1>1. /\ pc[a] = "parked" /\ Goto(a, "done")
      /\ UNCHANGED <<outbox, nextId, approvals, releases, jobs, screen, clicks,
                     consents, ruled>>
      /\ \/ /\ StillQueued(a) /\ queue' = [queue EXCEPT ![k] = Without(queue[k], a)]
            /\ abandoned' = [abandoned EXCEPT ![a] = @ + 1]
         \/ ~StillQueued(a) /\ queue' = queue /\ abandoned' = abandoned
  BY DEF withdraw_waiter
<1>2. a \in DOMAIN KeyOf /\ k \in Keys /\ abandoned[a] = 0
  BY <1>1, KeyFacts DEF IndInv, EarlyInv
<1>3. StillQueued(a) <=> Live(k) /\ a \in queue[k].waiters
  BY DEF StillQueued
<1>. HIDE DEF k
<1>4. /\ pc' \in [Asks -> Labels] /\ pc'[a] = "done"
      /\ \A b \in Asks \ {a} : pc'[b] = pc[b]
  BY <1>1 DEF IndInv, TypeInv, Goto, Labels
<1>5. /\ abandoned' \in [Asks -> {0, 1}] /\ abandoned'[a] = (IF StillQueued(a) THEN 1 ELSE 0)
      /\ \A b \in Asks \ {a} : abandoned'[b] = abandoned[b]
  <2>1. abandoned \in [Asks -> {0, 1}]
    BY DEF IndInv, TypeInv
  <2>2. CASE StillQueued(a)
    <3>1. abandoned' = [abandoned EXCEPT ![a] = 1]
      BY <1>1, <1>2, <2>1, <2>2
    <3>. QED  BY <2>1, <2>2, <3>1
  <2>3. CASE ~StillQueued(a)
    BY <1>1, <1>2, <2>1, <2>3
  <2>. QED  BY <2>2, <2>3
<1>6. \A q \in Keys : Live(q) /\ a \in queue[q].waiters => q = k /\ StillQueued(a)
  BY <1>3 DEF IndInv, QueueInv, k
<1>7. /\ queue' \in [Keys -> Entry \cup {None}]
      /\ \A q \in Keys : Live(q)' =>
            /\ Live(q) /\ queue'[q].rep = queue[q].rep /\ queue'[q].waiters # {}
            /\ queue'[q].waiters = queue[q].waiters \ {a}
      /\ \A q \in Keys : Live(q) /\ ~Live(q)' => queue[q].waiters \subseteq {a}
  <2>1. queue \in [Keys -> Entry \cup {None}]
    BY DEF IndInv, TypeInv
  <2>2. CASE StillQueued(a)
    <3>1. queue[k] \in Entry /\ Live(k)
      BY <1>2, <1>3, <2>2, EntryFacts
    <3>2. \/ Without(queue[k], a) = None /\ queue[k].waiters \subseteq {a}
          \/ /\ Without(queue[k], a) \in Entry /\ ~(queue[k].waiters \subseteq {a})
             /\ Without(queue[k], a).rep = queue[k].rep
             /\ Without(queue[k], a).waiters = queue[k].waiters \ {a}
      BY <3>1 DEF Without, Entry
    <3>3. /\ queue'[k] = Without(queue[k], a) /\ \A q \in Keys \ {k} : queue'[q] = queue[q]
          /\ queue' \in [Keys -> Entry \cup {None}]
      BY <1>1, <1>2, <2>1, <2>2, <3>2
    <3>4. \A q \in Keys \ {k} : Live(q) => a \notin queue[q].waiters /\ queue[q].waiters # {}
      BY <1>6 DEF IndInv, QueueInv
    <3>. QED  BY <3>1, <3>2, <3>3, <3>4, NoneIsNoEntry DEF Live
  <2>3. CASE ~StillQueued(a)
    BY <1>1, <1>6, <2>1, <2>3 DEF IndInv, QueueInv, Live
  <2>. QED  BY <2>2, <2>3
<1>8. TypeInv'
  BY <1>1, <1>4, <1>5, <1>7 DEF IndInv, TypeInv
<1>9. EarlyInv'
  BY <1>1, <1>4, <1>5 DEF IndInv, EarlyInv
<1>10. /\ \A q \in Keys : Live(q) => queue[q].waiters \subseteq Asks
       /\ \A j \in jobs : j.waiters \subseteq Asks
  BY DEF IndInv, TypeInv, Live, Entry, Job
<1>11. QueueInv'
  BY <1>1, <1>4, <1>7, <1>10 DEF IndInv, QueueInv
<1>12. \A j \in jobs : j.stage = "resolve" /\ a \in j.waiters => ~StillQueued(a)
  BY <1>2, <1>3 DEF IndInv, JobInv
<1>13. JobInv'
  BY <1>1, <1>4, <1>5, <1>7, <1>10, <1>12 DEF IndInv, JobInv
<1>14. ParkInv'
  <2>1. \A b \in Asks \ {a} : (Queued(b) => Queued(b)') /\ (Worked(b) <=> Worked(b)')
    BY <1>1, <1>7 DEF Queued, Worked
  <2>. QED  BY <1>1, <1>4, <2>1 DEF IndInv, ParkInv
<1>15. /\ \A b : Consented(b)' <=> Consented(b)
       /\ \A b : Authorised(b)' <=> Authorised(b)
       /\ \A s : GivenTo(s)' = GivenTo(s)
  BY <1>1 DEF Consented, Authorised, GivenTo
<1>16. MemoryInv' /\ AuthorityInv'
  BY <1>1, <1>4, <1>15 DEF IndInv, MemoryInv, AuthorityInv, AuthLabels
<1>17. \A b \in Asks : Resolving(b)' <=> Resolving(b)
  BY <1>1, <1>4 DEF Resolving
<1>18. \A b \in Asks \ {a} : Moves(b)
  BY <1>1, <1>5, <1>17, StayMoves
<1>19. Moves(a)
  <2>1. CASE ~StillQueued(a)
    BY <1>1, <1>2, <1>5, <1>17, <2>1, StayMoves
  <2>2. CASE StillQueued(a)
    <3>1. outbox[a] = <<>>
      BY <1>2, <1>3, <2>2 DEF IndInv, QueueInv
    <3>2. ~Resolving(a)
      BY <1>1, <1>12, <2>2 DEF Resolving
    <3>. QED  BY <1>1, <1>2, <1>5, <2>2, <3>1, <3>2, AbandonMoves
  <2>. QED  BY <2>1, <2>2
<1>. QED  BY <1>8, <1>9, <1>11, <1>13, <1>14, <1>16, <1>18, <1>19 DEF IndInv

-----------------------------------------------------------------------------
(* Decisions *)

\* An approval moves every waiter of its entry to one worker.
LEMMA ApproveStep ==
    ASSUME IndInv, NEW k \in Keys, Live(k), NEW decision, NEW scope, NEW seen, NEW by,
           ApproveEntry(k, decision, scope, seen, by), by = "phone" => seen = queue[k].rep,
           UNCHANGED <<pc, abandoned, nextId, screen, ruled>>,
           clicks' \in Seq(Message \cup {Dismissal})
    PROVE  IndInv' /\ \A a \in Asks : Moves(a)
<1>. DEFINE e == queue[k]
            cold == ~ask_fully_cached(e.rep)
            job == [id |-> e.id, key |-> k, rep |-> e.rep, waiters |-> e.waiters,
                    cold |-> cold, stage |-> "resolve"]
            new == [key |-> k, decision |-> decision, scope |-> scope, seen |-> seen,
                    applied |-> e.rep, waiters |-> e.waiters, by |-> by]
<1>1. /\ queue' = [queue EXCEPT ![k] = None] /\ jobs' = jobs \cup {job}
      /\ consents' = consents \cup {new} /\ outbox' = outbox
      /\ approvals' = approvals \cup ToRemember(k, decision, scope)
      /\ releases' = [s \in Sessions |->
            releases[s] \cup IF s = k.anchor THEN e.rep ELSE {}]
  BY DEF ApproveEntry
<1>2. /\ e \in Entry /\ e.id \in Nat /\ e.rep \in SUBSET Secrets
      /\ e.waiters \in SUBSET Asks
  BY EntryFacts
<1>. HIDE DEF e, cold
<1>3. /\ job \in Job /\ job.rep = e.rep /\ job.waiters = e.waiters /\ job.stage = "resolve"
  <2>1. cold \in BOOLEAN
    BY DEF cold
  <2>. QED  BY <1>2, <2>1 DEF Job
<1>4. /\ new.key = k /\ new.decision = decision /\ new.scope = scope /\ new.seen = seen
      /\ new.applied = e.rep /\ new.waiters = e.waiters /\ new.by = by
  OBVIOUS
<1>. HIDE DEF job, new
<1>5. /\ queue' \in [Keys -> Entry \cup {None}] /\ ~Live(k)'
      /\ \A q \in Keys \ {k} : queue'[q] = queue[q] /\ (Live(q)' <=> Live(q))
  BY <1>1 DEF IndInv, TypeInv, Live
<1>6. TypeInv'
  <2>1. releases' \in [Sessions -> SUBSET Secrets]
    BY <1>1, <1>2 DEF IndInv, TypeInv
  <2>. QED  BY <1>1, <1>3, <1>5, <2>1 DEF IndInv, TypeInv
<1>7. EarlyInv'
  BY <1>1 DEF IndInv, EarlyInv
<1>8. QueueInv'
  BY <1>1, <1>5 DEF IndInv, QueueInv
<1>9. \A a \in e.waiters :
         /\ a \in Asks /\ pc[a] = "parked" /\ outbox[a] = <<>> /\ Wants(a) \subseteq e.rep
         /\ abandoned[a] = 0
         /\ \A q \in Keys \ {k} : Live(q) => a \notin queue[q].waiters
         /\ \A j \in jobs : j.stage = "resolve" => a \notin j.waiters
  BY <1>2 DEF IndInv, QueueInv, EarlyInv, JobInv, e
<1>10. JobInv'
  <2>. SUFFICES ASSUME NEW j \in jobs', j.stage = "resolve", NEW a \in j.waiters
                PROVE  /\ pc[a] \in {"parked", "done"} /\ Wants(a) \subseteq j.rep
                       /\ outbox[a] = <<>> /\ abandoned[a] = 0
                       /\ \A q \in Keys : Live(q)' => a \notin queue'[q].waiters
                       /\ \A i \in jobs' \ {j} : i.stage = "resolve" => a \notin i.waiters
    BY <1>1 DEF JobInv
  <2>1. CASE j = job
    BY <1>1, <1>3, <1>5, <1>9, <2>1
  <2>2. CASE j # job
    <3>1. j \in jobs /\ a \notin e.waiters
      BY <1>1, <2>2 DEF IndInv, JobInv, e
    <3>. QED  BY <1>1, <1>3, <1>5, <3>1 DEF IndInv, JobInv
  <2>. QED  BY <2>1, <2>2
<1>11. ParkInv'
  <2>1. \A a \in Asks : Queued(a) => Queued(a)' \/ Worked(a)'
    BY <1>1, <1>3, <1>5 DEF Queued, Worked, e
  <2>2. \A a \in Asks : Worked(a) => Worked(a)'
    BY <1>1 DEF Worked
  <2>. QED  BY <1>1, <2>1, <2>2 DEF IndInv, ParkInv
<1>12. /\ \A a : Consented(a) => Consented(a)'
       /\ \A a : Authorised(a) => Authorised(a)'
       /\ \A s : GivenTo(s) \subseteq GivenTo(s)'
  BY <1>1, HistoryGrows
<1>13. MemoryInv'
  <2>1. \A p \in ToRemember(k, decision, scope) :
           decision = "remember" /\ p.wrap = k.wrap /\ p.parent = scope
    BY DEF ToRemember
  <2>2. \A p \in approvals' : \E c \in consents' :
           c.decision = "remember" /\ c.key.wrap = p.wrap /\ c.scope = p.parent
    BY <1>1, <1>4, <2>1 DEF IndInv, MemoryInv
  <2>3. \A s \in Sessions : releases'[s] \subseteq GivenTo(s)'
    <3>. SUFFICES ASSUME NEW s \in Sessions PROVE releases'[s] \subseteq GivenTo(s)'
      OBVIOUS
    <3>1. releases[s] \subseteq GivenTo(s)'
      BY <1>12 DEF IndInv, MemoryInv
    <3>2. CASE s = k.anchor
      <4>1. e.rep \subseteq GivenTo(s)'
        BY <1>1, <1>4, <3>2 DEF GivenTo
      <4>. QED  BY <1>1, <3>1, <3>2, <4>1
    <3>3. CASE s # k.anchor
      BY <1>1, <3>1, <3>3
    <3>. QED  BY <3>2, <3>3
  <2>. QED  BY <2>2, <2>3 DEF MemoryInv
<1>14. AuthorityInv'
  <2>1. \A a \in e.waiters : Consented(a)'
    BY <1>1, <1>4 DEF Consented, e
  <2>. QED  BY <1>1, <1>3, <1>12, <2>1 DEF IndInv, AuthorityInv
<1>15. \A a \in Asks : Moves(a)
  <2>. SUFFICES ASSUME NEW a \in Asks PROVE Moves(a)
    OBVIOUS
  <2>1. CASE a \in e.waiters
    <3>1. ~Resolving(a) /\ Resolving(a)'
      BY <1>1, <1>3, <1>9, <2>1 DEF Resolving
    <3>. QED  BY <1>1, <1>9, <2>1, <3>1, AuthoriseMoves
  <2>2. CASE a \notin e.waiters
    <3>1. Resolving(a)' <=> Resolving(a)
      BY <1>1, <1>3, <2>2 DEF Resolving
    <3>. QED  BY <1>1, <3>1, StayMoves
  <2>. QED  BY <2>1, <2>2
<1>. QED  BY <1>6, <1>7, <1>8, <1>10, <1>11, <1>13, <1>14, <1>15 DEF IndInv

\* A denial answers every waiter of the entries it takes away.
LEMMA DenyStep ==
    ASSUME IndInv, NEW ks \in SUBSET Keys, DenyEntries(ks),
           UNCHANGED <<pc, abandoned, nextId, screen, ruled>>,
           clicks' \in Seq(Message \cup {Dismissal})
    PROVE  IndInv' /\ \A a \in Asks : Moves(a)
<1>. DEFINE denied == {a \in Asks : \E k \in ks : Live(k) /\ a \in queue[k].waiters}
<1>1. /\ queue' = [k \in Keys |-> IF k \in ks THEN None ELSE queue[k]]
      /\ outbox' = [a \in Asks |-> IF a \in denied THEN Append(outbox[a], Denied)
                                   ELSE outbox[a]]
      /\ UNCHANGED <<approvals, releases, jobs, consents>>
  BY DEF DenyEntries
<1>2. \A a \in denied : /\ a \in Asks /\ pc[a] = "parked" /\ outbox[a] = <<>>
                        /\ abandoned[a] = 0
                        /\ \A j \in jobs : j.stage = "resolve" => a \notin j.waiters
                        /\ \A k \in Keys \ ks : Live(k) => a \notin queue[k].waiters
  BY DEF IndInv, QueueInv, EarlyInv, JobInv
<1>3. \A a \in Asks : Queued(a) => a \in denied \/ \E k \in Keys \ ks :
                         Live(k) /\ a \in queue[k].waiters
  BY DEF Queued
<1>4. /\ queue' \in [Keys -> Entry \cup {None}] /\ \A k \in ks : ~Live(k)'
      /\ \A k \in Keys \ ks : queue'[k] = queue[k] /\ (Live(k)' <=> Live(k))
      /\ \A k \in Keys \ ks : Live(k) => \A a \in queue[k].waiters : a \in Asks \ denied
  <2>1. \A k \in Keys : Live(k) => queue[k].waiters \subseteq Asks
    BY EntryFacts
  <2>2. queue \in [Keys -> Entry \cup {None}]
    BY DEF IndInv, TypeInv
  <2>. QED  BY <1>1, <1>2, <2>1, <2>2 DEF Live
<1>. HIDE DEF denied
<1>5. /\ \A a \in denied : outbox'[a] = <<Denied>>
      /\ \A a \in Asks \ denied : outbox'[a] = outbox[a]
  BY <1>1, <1>2, Replies
<1>6. TypeInv'
  <2>1. \A a \in Asks : outbox[a] \in Seq([decision : {"approve", "deny", "err"},
                                           secrets : SUBSET Secrets])
    BY DEF IndInv, TypeInv
  <2>2. <<Denied>> \in Seq([decision : {"approve", "deny", "err"},
                            secrets : SUBSET Secrets])
    BY ReplyTypes
  <2>3. outbox' \in [Asks -> Seq([decision : {"approve", "deny", "err"},
                                  secrets : SUBSET Secrets])]
    <3>1. \A a \in Asks : outbox'[a] \in Seq([decision : {"approve", "deny", "err"},
                                               secrets : SUBSET Secrets])
      BY <1>5, <2>1, <2>2, Zenon
    <3>. QED  BY <1>1, <3>1
  <2>. QED  BY <1>1, <1>4, <2>3 DEF IndInv, TypeInv
<1>7. EarlyInv'
  BY <1>1, <1>2, <1>5 DEF IndInv, EarlyInv
<1>8. QueueInv'
  BY <1>1, <1>4, <1>5 DEF IndInv, QueueInv
<1>9. \A j \in jobs : j.waiters \subseteq Asks
  BY DEF IndInv, TypeInv, Job
<1>10. JobInv'
  BY <1>1, <1>2, <1>4, <1>5, <1>9 DEF IndInv, JobInv
<1>11. ParkInv'
  <2>1. \A a \in Asks : (Worked(a) => Worked(a)') /\ (Queued(a) => a \in denied \/ Queued(a)')
    BY <1>1, <1>3, <1>4 DEF Worked, Queued
  <2>. QED  BY <1>5, <2>1, Replies DEF IndInv, ParkInv
<1>12. /\ \A a : Consented(a)' <=> Consented(a)
       /\ \A a : Authorised(a)' <=> Authorised(a)
       /\ \A s : GivenTo(s)' = GivenTo(s)
  BY <1>1 DEF Consented, Authorised, GivenTo
<1>13. MemoryInv' /\ AuthorityInv'
  BY <1>1, <1>5, <1>12 DEF IndInv, MemoryInv, AuthorityInv
<1>14. \A a \in Asks : Moves(a)
  <2>1. \A a \in Asks : Resolving(a)' <=> Resolving(a)
    BY <1>1 DEF Resolving
  <2>. QED  BY <1>2, <1>5, <2>1, StayMoves, RefuseMoves
<1>. QED  BY <1>6, <1>7, <1>8, <1>10, <1>11, <1>13, <1>14 DEF IndInv

\* The window's messages, in the order they were sent.
LEMMA ClickStep ==
    ASSUME IndInv, HandleClick
    PROVE  IndInv' /\ \A a \in Asks : Moves(a)
<1>1. /\ clicks # <<>> /\ clicks \in Seq(Message \cup {Dismissal})
      /\ clicks' = Tail(clicks)
      /\ UNCHANGED <<pc, abandoned, nextId, screen, ruled>>
  BY DEF HandleClick, IndInv, TypeInv
<1>2. Head(clicks) \in Message \cup {Dismissal} /\ clicks' \in Seq(Message \cup {Dismissal})
  BY <1>1, HeadTailProperties
<1>3. PICK m \in Message \cup {Dismissal} :
         \/ /\ m.decision \in {"approve", "remember"} /\ Live(m.key)
            /\ ApproveEntry(m.key, m.decision, m.scope, m.seen, "window")
         \/ m.decision = "deny" /\ DenyEntries({m.key})
         \/ m.decision = "dismiss" /\ DenyEntries(Keys)
         \/ UNCHANGED <<queue, approvals, releases, jobs, outbox, consents>>
  BY <1>2 DEF HandleClick
<1>4. m.decision # "dismiss" => m.key \in Keys
  BY DEF Message, Dismissal
<1>5. CASE /\ m.decision \in {"approve", "remember"} /\ Live(m.key)
           /\ ApproveEntry(m.key, m.decision, m.scope, m.seen, "window")
  BY <1>1, <1>2, <1>4, <1>5, ApproveStep
<1>6. CASE m.decision = "deny" /\ DenyEntries({m.key})
  BY <1>1, <1>2, <1>4, <1>6, DenyStep
<1>7. CASE m.decision = "dismiss" /\ DenyEntries(Keys)
  BY <1>1, <1>2, <1>7, DenyStep
<1>8. CASE UNCHANGED <<queue, approvals, releases, jobs, outbox, consents>>
  <2>1. screen' \subseteq [key : Keys, id : Nat, rep : SUBSET Secrets,
                           allow_remember : BOOLEAN]
    BY <1>1 DEF IndInv, TypeInv
  <2>. QED  BY <1>1, <1>2, <1>8, <2>1, UnrelatedStep
<1>. QED  BY <1>3, <1>5, <1>6, <1>7, <1>8

\* A phone decides what it signed, or nothing.
LEMMA RemoteStep ==
    ASSUME IndInv, resolve_remote
    PROVE  IndInv' /\ \A a \in Asks : Moves(a)
<1>1. /\ UNCHANGED <<pc, abandoned, nextId, screen, clicks, ruled>>
      /\ clicks' \in Seq(Message \cup {Dismissal})
      /\ screen' \subseteq [key : Keys, id : Nat, rep : SUBSET Secrets,
                            allow_remember : BOOLEAN]
  BY DEF resolve_remote, IndInv, TypeInv
<1>2. PICK m \in phone :
         \/ \E k \in Keys : /\ Signs(m, k)
                            /\ \/ ApproveEntry(k, "approve", None, m.seen, "phone")
                               \/ DenyEntries({k})
         \/ UNCHANGED <<queue, approvals, releases, jobs, outbox, consents>>
  BY DEF resolve_remote
<1>3. CASE UNCHANGED <<queue, approvals, releases, jobs, outbox, consents>>
  BY <1>1, <1>3, UnrelatedStep
<1>4. CASE \E k \in Keys : /\ Signs(m, k)
                           /\ \/ ApproveEntry(k, "approve", None, m.seen, "phone")
                              \/ DenyEntries({k})
  <2>1. PICK k \in Keys : /\ Signs(m, k)
                          /\ \/ ApproveEntry(k, "approve", None, m.seen, "phone")
                             \/ DenyEntries({k})
    BY <1>4
  <2>2. Live(k) /\ m.seen = queue[k].rep
    BY <2>1 DEF Signs
  <2>3. CASE ApproveEntry(k, "approve", None, m.seen, "phone")
    BY <1>1, <2>2, <2>3, ApproveStep
  <2>4. CASE DenyEntries({k})
    BY <1>1, <2>4, DenyStep
  <2>. QED  BY <2>1, <2>3, <2>4
<1>. QED  BY <1>2, <1>3, <1>4

-----------------------------------------------------------------------------
(* The worker and the people *)

\* A worker answers each of its waiters, who are nobody else's.
LEMMA JobAnswersStep ==
    ASSUME IndInv, NEW j \in jobs, JobAnswers(j)
    PROVE  IndInv' /\ \A a \in Asks : Moves(a)
<1>. DEFINE over == [j EXCEPT !.stage = "end"]
<1>1. /\ j.stage = "resolve"
      /\ UNCHANGED <<pc, abandoned, queue, nextId, approvals, releases, screen, clicks,
                     consents, ruled>>
      /\ jobs' = (jobs \ {j}) \cup IF j.cold THEN {over} ELSE {}
  BY DEF JobAnswers
<1>2. PICK ok \in SUBSET j.rep :
         outbox' = [a \in Asks |-> IF a \notin j.waiters THEN outbox[a]
                                   ELSE Append(outbox[a], Slice(a, ok))]
  BY DEF JobAnswers
<1>3. j \in Job /\ jobs \subseteq Job /\ j.waiters \subseteq Asks
  BY DEF IndInv, TypeInv, Job
<1>4. over \in Job /\ over.stage = "end" /\ over.waiters = j.waiters
  BY <1>3 DEF Job
<1>. HIDE DEF over
<1>5. \A a \in j.waiters :
         /\ a \in Asks /\ outbox[a] = <<>> /\ abandoned[a] = 0 /\ Resolving(a)
         /\ \A i \in jobs \ {j} : i.stage = "resolve" => a \notin i.waiters
         /\ \A k \in Keys : Live(k) => a \notin queue[k].waiters
  BY <1>1, <1>3 DEF IndInv, JobInv, Resolving
<1>6. /\ \A a \in j.waiters : outbox'[a] \in {<<Error>>, <<Approved(Wants(a))>>}
      /\ \A a \in Asks \ j.waiters : outbox'[a] = outbox[a]
  BY <1>2, <1>5, Replies DEF Slice
<1>7. TypeInv'
  <2>1. \A a \in Asks : outbox[a] \in Seq([decision : {"approve", "deny", "err"},
                                           secrets : SUBSET Secrets])
    BY DEF IndInv, TypeInv
  <2>2. \A a \in Asks :
           /\ <<Error>> \in Seq([decision : {"approve", "deny", "err"},
                                 secrets : SUBSET Secrets])
           /\ <<Approved(Wants(a))>> \in Seq([decision : {"approve", "deny", "err"},
                                              secrets : SUBSET Secrets])
    BY ReplyTypes
  <2>3. \A a \in Asks : outbox'[a] \in Seq([decision : {"approve", "deny", "err"},
                                            secrets : SUBSET Secrets])
    BY <1>5, <1>6, <2>1, <2>2
  <2>4. outbox' \in [Asks -> Seq([decision : {"approve", "deny", "err"},
                                  secrets : SUBSET Secrets])]
    BY <1>2, <2>3
  <2>5. jobs' \subseteq Job
    BY <1>1, <1>3, <1>4
  <2>. QED  BY <1>1, <2>4, <2>5 DEF IndInv, TypeInv
<1>8. EarlyInv'
  <2>1. \A a \in j.waiters : pc[a] \in {"parked", "done"}
    BY <1>1 DEF IndInv, JobInv
  <2>. QED  BY <1>1, <1>6, <2>1 DEF IndInv, EarlyInv
<1>9. \A k \in Keys : /\ Live(k)' <=> Live(k)
                      /\ Live(k) => queue[k].waiters \subseteq Asks \ j.waiters
  BY <1>1, <1>5, EntryFacts DEF Live
<1>10. QueueInv'
  BY <1>1, <1>6, <1>9 DEF IndInv, QueueInv
<1>11. \A i \in jobs' : i.stage = "resolve" =>
          i \in jobs \ {j} /\ i.waiters \subseteq Asks \ j.waiters
  BY <1>1, <1>3, <1>4, <1>5 DEF Job
<1>12. JobInv'
  BY <1>1, <1>6, <1>9, <1>11 DEF IndInv, JobInv
<1>13. ParkInv'
  <2>1. \A a \in Asks \ j.waiters : Worked(a)' <=> Worked(a)
    BY <1>1, <1>4 DEF Worked
  <2>2. \A a \in Asks : Queued(a)' <=> Queued(a)
    BY <1>1, <1>9 DEF Queued
  <2>. QED  BY <1>1, <1>6, <2>1, <2>2, Replies DEF IndInv, ParkInv
<1>14. /\ \A a : Consented(a)' <=> Consented(a)
       /\ \A a : Authorised(a)' <=> Authorised(a)
       /\ \A s : GivenTo(s)' = GivenTo(s)
  BY <1>1 DEF Consented, Authorised, GivenTo
<1>15. MemoryInv' /\ AuthorityInv'
  <2>1. \A a \in j.waiters : Consented(a)
    BY DEF IndInv, AuthorityInv
  <2>2. \A i \in jobs' : \A a \in i.waiters : Consented(a)
    BY <1>1, <1>4, <2>1 DEF IndInv, AuthorityInv
  <2>. QED  BY <1>1, <1>6, <1>14, <2>1, <2>2 DEF IndInv, MemoryInv, AuthorityInv
<1>16. \A a \in Asks : Moves(a)
  <2>. SUFFICES ASSUME NEW a \in Asks PROVE Moves(a)
    OBVIOUS
  <2>1. CASE a \in j.waiters
    BY <1>1, <1>5, <1>6, <2>1, RefuseMoves, AnswerMoves
  <2>2. CASE a \notin j.waiters
    <3>1. Resolving(a)' <=> Resolving(a)
      BY <1>1, <1>4, <2>2 DEF Resolving
    <3>. QED  BY <1>1, <1>6, <2>2, <3>1, StayMoves
  <2>. QED  BY <2>1, <2>2
<1>. QED  BY <1>7, <1>8, <1>10, <1>12, <1>13, <1>15, <1>16 DEF IndInv

\* A worker that has answered ends.
LEMMA JobEndsStep ==
    ASSUME IndInv, NEW j \in jobs, JobEnds(j)
    PROVE  IndInv' /\ \A a \in Asks : Moves(a)
<1>1. /\ j.stage = "end" /\ jobs' = jobs \ {j}
      /\ UNCHANGED <<pc, outbox, abandoned, queue, nextId, approvals, releases, screen,
                     clicks, consents, ruled>>
  BY DEF JobEnds
<1>2. TypeInv' /\ EarlyInv'
  BY <1>1 DEF IndInv, TypeInv, EarlyInv
<1>3. QueueInv' /\ JobInv'
  BY <1>1 DEF IndInv, QueueInv, JobInv, Live
<1>4. ParkInv'
  BY <1>1 DEF IndInv, ParkInv, Queued, Worked, Live
<1>5. MemoryInv' /\ AuthorityInv'
  BY <1>1 DEF IndInv, MemoryInv, AuthorityInv, GivenTo, Consented, Authorised
<1>6. \A a \in Asks : Moves(a)
  <2>1. \A a \in Asks : Resolving(a)' <=> Resolving(a)
    BY <1>1 DEF Resolving
  <2>. QED  BY <1>1, <2>1, StayMoves
<1>. QED  BY <1>2, <1>3, <1>4, <1>5, <1>6 DEF IndInv

\* What the window shows and the person clicks is of its type; nothing else
\* changes before the daemon reads it.
LEMMA PeopleStep ==
    ASSUME IndInv, People
    PROVE  IndInv' /\ \A a \in Asks : Moves(a)
<1>. DEFINE Row == [key : Keys, id : Nat, rep : SUBSET Secrets, allow_remember : BOOLEAN]
<1>1. /\ UNCHANGED <<pc, outbox, abandoned, queue, nextId, approvals, releases, jobs,
                     consents, ruled>>
  BY DEF People, Render, Click, Dismiss, Sign
<1>2. screen \subseteq Row /\ clicks \in Seq(Message \cup {Dismissal})
  BY DEF IndInv, TypeInv
<1>3. CASE Render
  <2>1. snapshot \subseteq Row
    BY EntryFacts DEF snapshot
  <2>2. screen' \subseteq Row /\ clicks' \in Seq(Message \cup {Dismissal})
    BY <1>2, <1>3, <2>1 DEF Render
  <2>. QED  BY <1>1, <2>2, UnrelatedStep
<1>4. CASE \E r \in screen, d \in {"approve", "remember", "deny"} : Click(r, d)
  <2>1. PICK r \in screen, d \in {"approve", "remember", "deny"} : Click(r, d)
    BY <1>4
  <2>. DEFINE msg == [key |-> r.key, decision |-> d, scope |-> row_scope(r), seen |-> r.rep]
  <2>2. r.key \in Keys /\ r.rep \in SUBSET Secrets
    BY <1>2
  <2>3. row_scope(r) \in {k.anchor : k \in Keys} \cup {None}
    BY <2>2 DEF row_scope
  <2>4. msg \in Message
    BY <2>2, <2>3 DEF Message
  <2>5. screen' = screen /\ clicks' = Append(clicks, msg)
    BY <2>1 DEF Click
  <2>. HIDE DEF msg
  <2>6. clicks' \in Seq(Message \cup {Dismissal})
    BY <1>2, <2>4, <2>5, AppendProperties
  <2>. QED  BY <1>1, <1>2, <2>5, <2>6, UnrelatedStep
<1>5. CASE Dismiss
  <2>1. screen' = screen /\ clicks' = Append(clicks, Dismissal)
    BY <1>5 DEF Dismiss, Dismissal
  <2>2. clicks' \in Seq(Message \cup {Dismissal})
    BY <1>2, <2>1, AppendProperties
  <2>. QED  BY <1>1, <1>2, <2>1, <2>2, UnrelatedStep
<1>6. CASE \E k \in Keys, d \in {"approve", "deny"} : Sign(k, d)
  <2>1. screen' = screen /\ clicks' = clicks
    BY <1>6 DEF Sign
  <2>. QED  BY <1>1, <1>2, <2>1, UnrelatedStep
<1>. QED  BY <1>3, <1>4, <1>5, <1>6 DEF People

\* Every step keeps the invariant and is a step of OneShotConsent.
LEMMA NextStep ==
    ASSUME IndInv, [Next]_vars
    PROVE  IndInv' /\ \A a \in Asks : Moves(a)
<1>1. CASE \E a \in Asks : Connection(a)
  BY <1>1, AdoptStep, RememberedStep, RuleHitStep, NestedStep, SubmitStep,
     ResolutionSteps, ReplySteps, WithdrawStep DEF Connection
<1>2. CASE HandleClick \/ resolve_remote \/ Worker \/ People
  BY <1>2, ClickStep, RemoteStep, JobAnswersStep, JobEndsStep, PeopleStep DEF Worker
<1>3. CASE \/ \E a \in Asks : HangUp(a)
           \/ \E s \in Secrets : Expire(s)
           \/ UNCHANGED vars
  <2>1. /\ UNCHANGED <<pc, outbox, abandoned, queue, nextId, approvals, releases, jobs,
                       screen, clicks, consents, ruled>>
    BY <1>3 DEF HangUp, Expire, vars
  <2>2. /\ screen' \subseteq [key : Keys, id : Nat, rep : SUBSET Secrets,
                              allow_remember : BOOLEAN]
        /\ clicks' \in Seq(Message \cup {Dismissal})
    BY <2>1 DEF IndInv, TypeInv
  <2>. QED  BY <2>1, <2>2, UnrelatedStep
<1>. QED  BY <1>1, <1>2, <1>3 DEF Next, Quiescent

\* Nothing has happened at the start.
LEMMA InitStep ==
    ASSUME Init
    PROVE  IndInv /\ Promise!Init
<1>1. TypeInv
  BY DEF Init, TypeInv, Labels
<1>2. EarlyInv /\ QueueInv /\ JobInv /\ ParkInv
  BY DEF Init, EarlyInv, QueueInv, JobInv, ParkInv, Live
<1>3. MemoryInv /\ AuthorityInv
  BY DEF Init, MemoryInv, AuthorityInv, AuthLabels
<1>4. \A a \in Asks : PhaseOf(a) = "open"
  BY DEF Init, PhaseOf, Resolving
<1>. QED  BY <1>1, <1>2, <1>3, <1>4 DEF IndInv, Promise!Init, Init

-----------------------------------------------------------------------------
(* Theorems *)

\* The inductive invariant holds of every reachable state of the broker.
THEOREM Invariance == Spec => []IndInv
  BY InitStep, NextStep, PTL DEF Spec

\* However a decision, a hang-up, a phone and a worker race for its entry, an ask
\* is answered once or abandoned once and never both, with secrets only after it
\* was authorised, and then with its own: the broker implements OneShotConsent.
THEOREM ImplementsOneShotHolds == Spec => ImplementsOneShot
<1>1. Init => Promise!Init
  BY InitStep
<1>2. IndInv /\ IndInv' /\ [Next]_vars => [Promise!Next]_(Promise!state)
  <2>. SUFFICES ASSUME IndInv, IndInv', [Next]_vars PROVE Promise!Next
    OBVIOUS
  <2>1. \A a \in Asks : Moves(a)
    BY NextStep
  <2>2. DOMAIN outbox' = Asks
    BY DEF IndInv, TypeInv
  <2>. QED  BY <2>1, <2>2 DEF Moves, Promise!Next
<1>. QED  BY <1>1, <1>2, Invariance, PTL DEF Spec, ImplementsOneShot, Promise!Spec

\* Nothing reaches a client without a rule, a person who approved its entry, an
\* approval remembered for a process behind it, or those given to its session.
THEOREM ReleaseNeedsConsentHolds == Spec => []ReleaseNeedsConsent
<1>1. IndInv => ReleaseNeedsConsent
  <2>. SUFFICES ASSUME IndInv, NEW a \in Asks, Released(a) # {}
                PROVE  \/ Consented(a)
                       \/ a \in ruled
                       \/ \E c \in consents :
                            /\ c.decision = "remember" /\ ~Ask[a].ignore_remembered
                            /\ c.key.wrap = Ask[a].wrap
                            /\ c.scope \in {Ask[a].ancestry[i].pid :
                                            i \in DOMAIN Ask[a].ancestry}
                       \/ Ask[a].nested_run /\ Released(a) \subseteq GivenTo(Ask[a].claim)
    BY DEF ReleaseNeedsConsent, Consented, GivenTo
  <2>1. \A r : outbox[a] = <<r>> => Released(a) = r.secrets
    BY DEF Released
  <2>2. outbox[a] = <<>> => Released(a) = {}
    BY DEF Released
  <2>3. Denied.secrets = {} /\ Error.secrets = {} /\ Approved(Wants(a)).secrets = Wants(a)
    BY DEF Denied, Error, Approved
  <2>4. outbox[a] \notin {<<>>, <<Denied>>, <<Error>>}
    BY <2>1, <2>2, <2>3
  <2>5. Released(a) = Wants(a) /\ (Authorised(a) \/ Consented(a))
    BY <2>1, <2>3, <2>4 DEF IndInv, AuthorityInv
  <2>. QED  BY <2>5 DEF Authorised
<1>. QED  BY <1>1, Invariance, PTL

\* A parked ask without an answer has exactly one owner: its entry or one worker.
THEOREM NoLostWaiterHolds == Spec => []NoLostWaiter
<1>1. IndInv => NoLostWaiter
  <2>. SUFFICES ASSUME IndInv PROVE NoLostWaiter
    OBVIOUS
  <2>1. \A k \in Keys : Live(k) => queue[k].waiters # {}
    BY DEF IndInv, QueueInv
  <2>2. ASSUME NEW a \in Asks, pc[a] = "parked", outbox[a] = <<>>
        PROVE  LET holders == {k \in Keys : /\ Live(k) /\ a \in queue[k].waiters
                                            /\ Wants(a) \subseteq queue[k].rep}
                   workers == {j \in jobs : /\ a \in j.waiters /\ j.stage = "resolve"
                                            /\ Wants(a) \subseteq j.rep}
               IN  Cardinality(holders) + Cardinality(workers) = 1
    <3>. DEFINE holders == {k \in Keys : /\ Live(k) /\ a \in queue[k].waiters
                                         /\ Wants(a) \subseteq queue[k].rep}
                workers == {j \in jobs : /\ a \in j.waiters /\ j.stage = "resolve"
                                         /\ Wants(a) \subseteq j.rep}
    <3>1. CASE Queued(a)
      <4>1. PICK k \in Keys : Live(k) /\ a \in queue[k].waiters
        BY <3>1 DEF Queued
      <4>2. holders = {k} /\ workers = {}
        BY <4>1 DEF IndInv, QueueInv, JobInv
      <4>3. Cardinality(holders) = 1 /\ Cardinality(workers) = 0
        BY <4>2, FS_Singleton, FS_EmptySet
      <4>. QED  BY <4>3
    <3>2. CASE Worked(a)
      <4>1. PICK j \in jobs : j.stage = "resolve" /\ a \in j.waiters
        BY <3>2 DEF Worked
      <4>2. holders = {} /\ workers = {j}
        BY <4>1 DEF IndInv, JobInv
      <4>3. Cardinality(holders) = 0 /\ Cardinality(workers) = 1
        BY <4>2, FS_Singleton, FS_EmptySet
      <4>. QED  BY <4>3
    <3>. QED  BY <2>2, <3>1, <3>2 DEF IndInv, ParkInv
  <2>. QED  BY <2>1, <2>2 DEF NoLostWaiter
<1>. QED  BY <1>1, Invariance, PTL
=============================================================================
