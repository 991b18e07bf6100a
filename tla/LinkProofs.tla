----------------------------- MODULE LinkProofs -----------------------------
(***************************************************************************)
(* Proofs, for every number of phones, request threads, connections,       *)
(* tokens, requests, signed decisions and restarts, and for channels of    *)
(* every capacity, that a pairing token is spent once, that a request is   *)
(* decided once and as it was signed, and that a page which is still       *)
(* attached has the queue as it stands on its way.                         *)
(***************************************************************************)
EXTENDS Link, SequenceTheorems, TLAPS

(* What the components of the state are made of. *)

\* The pairing window that `secreq link' opened.
Window == [token : 1..tokens, expires : Nat, failed : 0..MaxFailed]
\* A device that spent a token, and until when the token was good.
Enrollment == [token : 1..tokens, phone : Phones, at : Nat, expires : Nat]
\* A decision that reached the queue, and what was true of it then.
Landing == [id : Ids, by : Phones \cup {None}, exact : BOOLEAN, paired : BOOLEAN]
\* A decision some phone signed.
Signature == [id : Ids, hash : 0..MaxHashes, phone : Phones]
\* The queue as one event of the stream.
SnapshotEvent == [kind : {"snapshot"}, rows : Rows]
\* What the stream of a phone may carry.
Event == SnapshotEvent \cup [kind : {"exit"}]
\* A stream that is being served: its first event, then the channel.
OpenStream == [at : {"open"}, first : SnapshotEvent \cup {None}, chan : Seq(Event)]
\* The stream of a phone.
StreamState == [at : {"idle", "accepted"}] \cup OpenStream
\* The steps of a decision request.
DecisionSteps == {"load", "live", "burn", "land", "retire"}
\* What a request thread may be doing.
ThreadState ==
    [at : {"idle"}] \cup [at : {"pair"}, phone : Phones, token : Nat]
    \cup [at : DecisionSteps, nonce : DOMAIN signed]

\* The pairing: an open window's token was given to no device yet.
PairTypes ==
    /\ now \in 0..MaxNow /\ listener \in BOOLEAN /\ tokens \in 0..MaxTokens
    /\ registry \subseteq {Device(p) : p \in Phones}
    /\ window \in Window \cup {None}
    /\ enrolled \in Seq(Enrollment)

\* The token of an open window has enrolled nobody.
UnspentWindow ==
    window # None => \A i \in DOMAIN enrolled : enrolled[i].token # window.token

\* The pairing part of the invariant.
PairInv == PairTypes /\ UnspentWindow /\ TokenIsSpentOnce

\* The queue: what landed was asked, and is no longer live.
QueueTypes ==
    /\ queue \in Rows /\ asked \in 0..MaxRequests
    /\ landed \in Seq(Landing)

\* A request that was decided is not on the queue, and ids are never reused.
LandedIsGone ==
    /\ \A r \in Live : r <= asked
    /\ \A i \in DOMAIN landed : landed[i].id <= asked /\ queue[landed[i].id] = 0

\* The queue's part of the invariant.
QueueInv == QueueTypes /\ LandedIsGone /\ DecidedOnce

\* The request threads: each works on a decision that some phone signed.
ThreadInv ==
    /\ thread \in [Threads -> ThreadState]
    /\ signed \in Seq(Signature) /\ Len(signed) <= MaxSigned
    /\ used \in [Ids -> SUBSET Nonces]

\* The pages: a subscriber's stream is open.
ViewTypes ==
    /\ stream \in [Phones -> StreamState]
    /\ subs \subseteq Phones /\ \A p \in subs : stream[p].at = "open"
    /\ page \in [Phones -> Rows]

\* The pages' part of the invariant.
ViewInv == ViewTypes /\ AttachedPageIsCurrent

\* The inductive invariant.
IndInv == PairInv /\ QueueInv /\ ThreadInv /\ ViewInv

-----------------------------------------------------------------------------
(* Each part depends on its own variables only. *)

\* A step that leaves the pairing alone.
LEMMA PairKept ==
    ASSUME PairInv, UNCHANGED <<now, registry, listener, window, tokens, enrolled>>
    PROVE  PairInv'
  BY DEF PairInv, PairTypes, UnspentWindow, TokenIsSpentOnce, Window, Enrollment

\* A step that leaves the queue alone.
LEMMA QueueKept ==
    ASSUME QueueInv, UNCHANGED <<queue, asked, landed>>
    PROVE  QueueInv'
  BY DEF QueueInv, QueueTypes, LandedIsGone, DecidedOnce, Live

\* A step that leaves the request threads alone.
LEMMA ThreadKept ==
    ASSUME ThreadInv, UNCHANGED <<thread, signed, used>>
    PROVE  ThreadInv'
  BY DEF ThreadInv, ThreadState

\* A step that leaves queue and streams alone.
LEMMA ViewKept ==
    ASSUME ViewInv, UNCHANGED <<queue, stream, subs, page>>
    PROVE  ViewInv'
  BY DEF ViewInv, ViewTypes, AttachedPageIsCurrent, LastSent

-----------------------------------------------------------------------------
(* The pages *)

\* An open stream's record, taken apart.
LEMMA OpenStreamIs ==
    ASSUME ViewTypes, NEW p \in Phones, stream[p].at = "open"
    PROVE  stream[p] \in OpenStream
  BY DEF ViewTypes, StreamState

\* What is appended to a channel comes last.
LEMMA LastAppended ==
    ASSUME NEW chan \in Seq(Event), NEW e \in Event
    PROVE  /\ Append(chan, e) \in Seq(Event)
           /\ DOMAIN Append(chan, e) = 1..(Len(chan) + 1)
           /\ DOMAIN chan = 1..Len(chan) /\ Len(chan) \in Nat
           /\ Append(chan, e)[Len(chan) + 1] = e
           /\ \A i \in 1..Len(chan) : Append(chan, e)[i] = chan[i]
  OBVIOUS

\* Every change of the queue is announced: a subscriber that keeps its place
\* has the new queue last in its channel, one without room is dropped, and the
\* end of the stream changes nothing of what was sent before it.
LEMMA BroadcastKeeps ==
    ASSUME ViewInv, NEW event \in Event, Broadcast(event), page' = page,
           \/ event.kind = "snapshot" /\ event.rows = queue'
           \/ event.kind = "exit" /\ queue' = queue
    PROVE  ViewInv'
<1>. DEFINE roomy == {p \in subs : Len(stream[p].chan) < Room}
<1>1. subs' = roomy /\ roomy \subseteq subs /\ subs \subseteq Phones
  BY DEF Broadcast, ViewInv, ViewTypes
<1>2. ASSUME NEW p \in roomy
      PROVE  /\ stream'[p] = [stream[p] EXCEPT !.chan = Append(@, event)]
             /\ stream[p] \in OpenStream
  BY <1>1, <1>2, OpenStreamIs DEF Broadcast, ViewInv, ViewTypes
<1>3. ASSUME NEW p \in Phones \ roomy
      PROVE  stream'[p] = stream[p]
  BY <1>3 DEF Broadcast
<1>4. ASSUME NEW p \in roomy
      PROVE  /\ stream'[p] \in OpenStream
             /\ stream'[p].first = stream[p].first
             /\ stream'[p].chan = Append(stream[p].chan, event)
  <2>1. /\ stream'[p] = [stream[p] EXCEPT !.chan = Append(@, event)]
        /\ stream[p] \in OpenStream
    BY <1>2, <1>4
  <2>2. Append(stream[p].chan, event) \in Seq(Event)
    BY <2>1, LastAppended DEF OpenStream
  <2>. QED  BY <2>1, <2>2 DEF OpenStream
<1>5. ViewTypes'
  <2>1. stream' \in [Phones -> StreamState]
    <3>1. \A p \in Phones : stream'[p] \in StreamState
      BY <1>3, <1>4 DEF ViewInv, ViewTypes, StreamState
    <3>2. stream' = [p \in Phones |-> stream'[p]]
      BY DEF Broadcast
    <3>. QED  BY <3>1, <3>2
  <2>2. \A p \in subs' : stream'[p].at = "open"
    BY <1>1, <1>4 DEF OpenStream
  <2>. QED  BY <1>1, <2>1, <2>2 DEF ViewInv, ViewTypes, StreamState, OpenStream,
                                     Event, SnapshotEvent, Rows, Ids
<1>6. ASSUME NEW p \in roomy
      PROVE  LastSent(p, queue)'
  <2>. DEFINE chan == stream[p].chan
              chan1 == Append(chan, event)
              shots == {i \in DOMAIN chan : chan[i].kind = "snapshot"}
              shots1 == {i \in DOMAIN chan1 : chan1[i].kind = "snapshot"}
  <2>1. chan \in Seq(Event)
    BY <1>2, <1>6 DEF OpenStream
  <2>2. /\ DOMAIN chan1 = 1..(Len(chan) + 1) /\ DOMAIN chan = 1..Len(chan)
        /\ Len(chan) \in Nat /\ chan1[Len(chan) + 1] = event
        /\ \A i \in 1..Len(chan) : chan1[i] = chan[i]
    BY <2>1, LastAppended
  <2>3. stream'[p].chan = chan1 /\ stream'[p].first = stream[p].first
    BY <1>4, <1>6
  <2>. HIDE DEF chan, chan1
  <2>4. CASE event.kind = "snapshot" /\ event.rows = queue'
    <3>1. Len(chan) + 1 \in shots1 /\ \A j \in shots1 : j <= Len(chan) + 1
      BY <2>2, <2>4
    <3>. QED  BY <2>2, <2>3, <2>4, <3>1 DEF LastSent
  <2>5. CASE event.kind = "exit" /\ queue' = queue
    <3>1. shots1 = shots
      BY <2>2, <2>5
    <3>2. LastSent(p, queue)
      BY <1>1, <1>6 DEF ViewInv, AttachedPageIsCurrent
    <3>. QED  BY <2>2, <2>3, <2>5, <3>1, <3>2 DEF LastSent, chan
  <2>. QED  BY <2>4, <2>5
<1>. QED  BY <1>1, <1>5, <1>6 DEF ViewInv, AttachedPageIsCurrent

\* A step that touches only the stream of a page that is not subscribed
\* afterwards leaves every subscriber's rows alone.
LEMMA OtherStream ==
    ASSUME ViewInv, NEW p \in Phones, NEW s \in StreamState,
           stream' = [stream EXCEPT ![p] = s],
           subs' = subs \ {p}, UNCHANGED <<queue, page>>
    PROVE  ViewInv'
<1>1. \A q \in Phones \ {p} : stream'[q] = stream[q]
  BY DEF ViewInv, ViewTypes
<1>2. stream' \in [Phones -> StreamState]
  BY DEF ViewInv, ViewTypes
<1>3. ViewTypes'
  BY <1>1, <1>2 DEF ViewInv, ViewTypes, StreamState, OpenStream
<1>4. AttachedPageIsCurrent'
  BY <1>1 DEF ViewInv, ViewTypes, AttachedPageIsCurrent, LastSent
<1>. QED  BY <1>3, <1>4 DEF ViewInv

\* GET /events: the accept, and the attach with the queue as it stands.
LEMMA AcceptEventsView ==
    ASSUME ViewInv, NEW p \in Phones, AcceptEvents(p)
    PROVE  ViewInv'
<1>1. p \notin subs
  BY DEF ViewInv, ViewTypes, AcceptEvents, Idle
<1>2. [at |-> "accepted"] \in StreamState
  BY DEF StreamState
<1>. QED  BY <1>1, <1>2, OtherStream DEF AcceptEvents, queueVars

\* An attached page is sent the queue as it stands.
LEMMA AttachView ==
    ASSUME ViewInv, QueueTypes, NEW p \in Phones, attach_link_events(p)
    PROVE  ViewInv'
<1>. DEFINE opened == [at |-> "open", first |-> Snapshot(queue), chan |-> <<>>]
<1>1. p \notin subs /\ UNCHANGED <<queue, page>>
  BY DEF ViewInv, ViewTypes, attach_link_events, queueVars
<1>2. CASE stream' = [stream EXCEPT ![p] = Idle] /\ subs' = subs
  <2>1. Idle \in StreamState
    BY DEF StreamState, Idle
  <2>. QED  BY <1>1, <1>2, <2>1, OtherStream
<1>3. CASE stream' = [stream EXCEPT ![p] = opened] /\ subs' = subs \cup {p}
  <2>1. Snapshot(queue) \in SnapshotEvent /\ Snapshot(queue).rows = queue
        /\ Snapshot(queue) # None
    BY LinkAssumption DEF QueueTypes, Snapshot, SnapshotEvent, Rows, Ids
  <2>. HIDE DEF Snapshot
  <2>2. /\ opened \in OpenStream /\ opened.at = "open"
        /\ opened.first = Snapshot(queue) /\ opened.chan = <<>>
    BY <2>1 DEF OpenStream
  <2>. HIDE DEF opened
  <2>3. /\ stream' \in [Phones -> StreamState] /\ stream'[p] = opened
        /\ \A q \in Phones \ {p} : stream'[q] = stream[q]
    BY <1>3, <2>2 DEF ViewInv, ViewTypes, StreamState
  <2>4. ViewTypes'
    BY <1>1, <1>3, <2>2, <2>3 DEF ViewInv, ViewTypes, StreamState, OpenStream
  <2>5. LastSent(p, queue)'
    BY <1>1, <2>1, <2>2, <2>3 DEF LastSent
  <2>6. \A q \in subs : LastSent(q, queue)'
    BY <1>1, <2>3 DEF ViewInv, ViewTypes, AttachedPageIsCurrent, LastSent
  <2>. QED  BY <1>3, <2>4, <2>5, <2>6 DEF ViewInv, AttachedPageIsCurrent
<1>. QED  BY <1>2, <1>3 DEF attach_link_events

\* A detached page is owed nothing.
LEMMA DetachView ==
    ASSUME ViewInv, NEW p \in Phones, detach_link_events(p)
    PROVE  ViewInv'
<1>1. Idle \in StreamState
  BY DEF StreamState, Idle
<1>. QED  BY <1>1, OtherStream DEF detach_link_events, queueVars

\* What the stream's thread reads from the channel, the page shows: reading
\* moves the last rows nearer and loses none.
LEMMA WriteView ==
    ASSUME ViewInv, NEW p \in Phones, write_sse_snapshot(p)
    PROVE  ViewInv'
<1>1. stream[p] \in OpenStream /\ UNCHANGED <<queue, subs>>
  BY OpenStreamIs DEF ViewInv, write_sse_snapshot, queueVars
<1>2. \A q \in Phones \ {p} : page'[q] = page[q] /\ stream'[q] = stream[q]
  BY DEF ViewInv, ViewTypes, write_sse_snapshot, handleMessage
<1>3. CASE /\ stream[p].first # None
           /\ handleMessage(p, stream[p].first.rows)
           /\ stream' = [stream EXCEPT ![p].first = None]
  <2>1. /\ stream'[p] \in OpenStream /\ stream'[p].first = None
        /\ stream'[p].chan = stream[p].chan
    BY <1>1, <1>3 DEF ViewInv, ViewTypes, OpenStream
  <2>2. page'[p] = stream[p].first.rows /\ page' \in [Phones -> Rows]
    BY <1>1, <1>3 DEF ViewInv, ViewTypes, OpenStream, SnapshotEvent, handleMessage
  <2>3. stream' \in [Phones -> StreamState]
    BY <1>3, <2>1 DEF ViewInv, ViewTypes, StreamState
  <2>4. ViewTypes'
    BY <1>1, <1>2, <2>1, <2>2, <2>3 DEF ViewInv, ViewTypes, OpenStream, StreamState
  <2>5. LastSent(p, queue) => LastSent(p, queue)'
    BY <1>1, <1>3, <2>1, <2>2 DEF LastSent
  <2>6. \A q \in subs \ {p} : LastSent(q, queue)'
    BY <1>1, <1>2 DEF ViewInv, ViewTypes, AttachedPageIsCurrent, LastSent
  <2>. QED  BY <1>1, <2>4, <2>5, <2>6 DEF ViewInv, AttachedPageIsCurrent
<1>4. CASE /\ stream[p].first = None /\ stream[p].chan # <<>>
           /\ Head(stream[p].chan).kind = "snapshot"
           /\ handleMessage(p, Head(stream[p].chan).rows)
           /\ stream' = [stream EXCEPT ![p].chan = Tail(@)]
  <2>. DEFINE chan == stream[p].chan
  <2>1. chan \in Seq(Event) /\ chan # <<>>
    BY <1>1, <1>4 DEF OpenStream
  <2>2. /\ Len(chan) \in Nat \ {0} /\ DOMAIN chan = 1..Len(chan)
        /\ Tail(chan) \in Seq(Event) /\ DOMAIN Tail(chan) = 1..(Len(chan) - 1)
        /\ \A i \in 1..(Len(chan) - 1) : Tail(chan)[i] = chan[i + 1]
        /\ Head(chan) = chan[1] /\ Head(chan) \in Event
    BY <2>1
  <2>3. /\ stream'[p] \in OpenStream /\ stream'[p].first = None
        /\ stream'[p].chan = Tail(chan)
    BY <1>1, <1>4, <2>2 DEF ViewInv, ViewTypes, OpenStream
  <2>4. Head(chan).rows \in Rows
    BY <1>4, <2>2 DEF Event, SnapshotEvent
  <2>5. page'[p] = chan[1].rows /\ page' \in [Phones -> Rows]
    BY <1>4, <2>2, <2>4 DEF ViewInv, ViewTypes, handleMessage
  <2>6. stream' \in [Phones -> StreamState]
    BY <1>4, <2>3 DEF ViewInv, ViewTypes, StreamState
  <2>7. ViewTypes'
    BY <1>1, <1>2, <2>3, <2>5, <2>6 DEF ViewInv, ViewTypes, OpenStream, StreamState
  <2>8. ASSUME LastSent(p, queue) PROVE LastSent(p, queue)'
    <3>. DEFINE next == Tail(chan)
                shots == {i \in DOMAIN chan : chan[i].kind = "snapshot"}
                later == {i \in DOMAIN next : next[i].kind = "snapshot"}
    <3>1. 1 \in shots /\ \A i \in later : i + 1 \in shots
      BY <1>4, <2>2
    <3>2. PICK i \in shots : chan[i].rows = queue /\ \A j \in shots : j <= i
      BY <2>8, <3>1 DEF LastSent
    <3>3. CASE i = 1
      <4>1. later = {}
        BY <2>2, <3>1, <3>2, <3>3
      <4>. QED  BY <1>1, <2>3, <2>5, <3>2, <3>3, <4>1 DEF LastSent
    <3>4. CASE i # 1
      <4>1. i - 1 \in later /\ next[i - 1] = chan[i]
        <5>1. i \in DOMAIN chan /\ chan[i].kind = "snapshot"
          OBVIOUS
        <5>2. i - 1 \in 1..(Len(chan) - 1) /\ (i - 1) + 1 = i
          BY <2>2, <3>4, <5>1
        <5>3. i - 1 \in DOMAIN next /\ next[i - 1] = chan[i]
          BY <2>2, <5>2
        <5>. QED  BY <5>1, <5>3
      <4>2. \A j \in later : j <= i - 1
        BY <2>2, <3>1, <3>2
      <4>. HIDE DEF next, chan
      <4>. QED  BY <1>1, <2>3, <3>2, <4>1, <4>2 DEF LastSent, next
    <3>. QED  BY <3>3, <3>4
  <2>9. \A q \in subs \ {p} : LastSent(q, queue)'
    BY <1>1, <1>2 DEF ViewInv, ViewTypes, AttachedPageIsCurrent, LastSent
  <2>. QED  BY <1>1, <2>7, <2>8, <2>9 DEF ViewInv, AttachedPageIsCurrent
<1>. QED  BY <1>3, <1>4 DEF write_sse_snapshot

-----------------------------------------------------------------------------
(* The pairing *)

\* A fresh token was given to nobody.
LEMMA OpenPair ==
    ASSUME PairInv, NEW c, open_at(c)
    PROVE  PairInv'
<1>1. /\ tokens \in Nat /\ now \in Nat /\ MaxFailed \in Nat /\ MaxTokens \in Nat
      /\ Ttl \in Nat /\ tokens' = tokens + 1 /\ tokens' \in 0..MaxTokens
  BY LinkAssumption DEF PairInv, PairTypes, open_at
<1>2. window' \in Window'
  BY <1>1 DEF open_at, Window
<1>3. /\ enrolled' = enrolled /\ enrolled \in Seq(Enrollment)
      /\ Enrollment \subseteq Enrollment'
  BY <1>1 DEF PairInv, PairTypes, open_at, Enrollment
<1>4. enrolled' \in Seq(Enrollment')
  BY <1>3
<1>5. PairTypes'
  BY <1>1, <1>2, <1>4 DEF PairInv, PairTypes, open_at
<1>6. UnspentWindow'
  <2>1. \A i \in DOMAIN enrolled : enrolled[i].token <= tokens /\ enrolled[i].token \in Nat
    <3>1. \A i \in DOMAIN enrolled : enrolled[i] \in Enrollment
      BY <1>3
    <3>. QED  BY <1>1, <3>1 DEF Enrollment
  <2>2. window'.token = tokens + 1
    BY DEF open_at
  <2>. QED  BY <1>1, <1>3, <2>1, <2>2 DEF UnspentWindow
<1>7. TokenIsSpentOnce'
  BY DEF PairInv, TokenIsSpentOnce, open_at
<1>. QED  BY <1>5, <1>6, <1>7 DEF PairInv

\* A device that is taken away leaves the others as they were.
LEMMA RemovePair ==
    ASSUME PairInv, NEW c, NEW d, remove(c, d)
    PROVE  PairInv'
<1>1. registry' \subseteq registry /\ UNCHANGED <<now, listener, window, tokens, enrolled>>
  BY DEF remove
<1>. QED  BY <1>1 DEF PairInv, PairTypes, UnspentWindow, TokenIsSpentOnce, Window,
                      Enrollment

\* Closing the window, or counting a wrong token in it, spends nothing.
LEMMA WindowPair ==
    ASSUME PairInv, UNCHANGED <<registry, tokens, enrolled>>,
           now' \in 0..MaxNow, listener' \in BOOLEAN,
           \/ window' = None \/ window' = window
           \/ /\ window # None /\ window' \in Window
              /\ window'.token = window.token
    PROVE  PairInv'
  BY DEF PairInv, PairTypes, UnspentWindow, TokenIsSpentOnce, Window, Enrollment

\* The enrollment closes the window in the critical section that spends its
\* token: the token is new among the enrolled ones, in time, and the device
\* collides with none.
LEMMA EnrollPair ==
    ASSUME PairInv, NEW p \in Phones, Enroll(p), ~Collides(p),
           window # None, now < window.expires, UNCHANGED <<now, listener, tokens>>
    PROVE  PairInv'
<1>. DEFINE e == [token |-> window.token, phone |-> p, at |-> now,
                  expires |-> window.expires]
            n == Len(enrolled)
<1>1. e \in Enrollment /\ e.at < e.expires /\ e.token = window.token
  BY LinkAssumption DEF PairInv, PairTypes, Window, Enrollment
<1>2. enrolled' = Append(enrolled, e) /\ enrolled \in Seq(Enrollment)
  BY DEF Enroll, PairInv, PairTypes
<1>. HIDE DEF e
<1>3. /\ enrolled' \in Seq(Enrollment) /\ n \in Nat
      /\ DOMAIN enrolled = 1..n /\ DOMAIN enrolled' = 1..(n + 1)
      /\ \A i \in 1..n : enrolled'[i] = enrolled[i]
      /\ enrolled'[n + 1] = e
  BY <1>1, <1>2
<1>4. PairTypes'
  <2>1. Enrollment' = Enrollment
    BY DEF Enrollment
  <2>. QED  BY <1>3, <2>1 DEF PairInv, PairTypes, Enroll
<1>5. UnspentWindow'
  BY DEF UnspentWindow, Enroll
<1>6. TokenIsSpentOnce'
  <2>1. \A i \in 1..n : enrolled[i].token # e.token /\ enrolled[i].at < enrolled[i].expires
    BY <1>1, <1>3 DEF PairInv, UnspentWindow, TokenIsSpentOnce, Range
  <2>2. ASSUME NEW i \in DOMAIN enrolled', NEW j \in DOMAIN enrolled',
               enrolled'[i].token = enrolled'[j].token
        PROVE  i = j
    <3>1. CASE i = n + 1 \/ j = n + 1
      BY <1>3, <2>1, <2>2, <3>1
    <3>2. CASE i \in 1..n /\ j \in 1..n
      BY <1>3, <2>2, <3>2 DEF PairInv, TokenIsSpentOnce
    <3>. QED  BY <1>3, <3>1, <3>2
  <2>3. ASSUME NEW i \in DOMAIN enrolled'
        PROVE  enrolled'[i].at < enrolled'[i].expires
    <3>1. CASE i = n + 1
      BY <1>1, <1>3, <3>1
    <3>2. CASE i \in 1..n
      BY <1>3, <2>1, <3>2
    <3>. QED  BY <1>3, <3>1, <3>2
  <2>4. Device(p).nickname = Nick[p] /\ Device(p).key = p
    BY DEF Device
  <2>5. ASSUME NEW d \in registry', NEW f \in registry',
               d.nickname = f.nickname \/ d.key = f.key
        PROVE  d = f
    BY <2>4, <2>5 DEF PairInv, TokenIsSpentOnce, Enroll, Collides
  <2>. QED  BY <2>2, <2>3, <2>5 DEF TokenIsSpentOnce, Range
<1>. QED  BY <1>4, <1>5, <1>6 DEF PairInv

\* Every answer of Pairing::pair_at.
LEMMA PairAtPair ==
    ASSUME PairInv, ThreadInv, NEW t \in Threads, pair_at(t)
    PROVE  PairInv'
<1>. DEFINE p == thread[t].phone
            missed == window.failed + 1
<1>1. p \in Phones /\ UNCHANGED <<now, listener, tokens>>
  BY DEF ThreadInv, ThreadState, DecisionSteps, pair_at
<1>2. now' \in 0..MaxNow /\ listener' \in BOOLEAN
  BY <1>1 DEF PairInv, PairTypes
<1>3. CASE UNCHANGED <<registry, window, enrolled>>
  BY <1>1, <1>3, PairKept
<1>4. CASE window' = None /\ UNCHANGED <<registry, enrolled>>
  BY <1>1, <1>2, <1>4, WindowPair
<1>5. CASE /\ window # None /\ missed < MaxFailed
           /\ window' = [window EXCEPT !.failed = missed]
           /\ UNCHANGED <<registry, enrolled>>
  <2>1. window \in Window
    BY <1>5 DEF PairInv, PairTypes
  <2>2. window' \in Window /\ window'.token = window.token
    <3>1. window.failed \in 0..MaxFailed /\ MaxFailed \in Nat
      BY <2>1, LinkAssumption DEF Window
    <3>2. missed \in 0..MaxFailed
      BY <1>5, <3>1
    <3>. HIDE DEF missed
    <3>3. window' \in Window
      BY <1>5, <2>1, <3>2 DEF Window
    <3>. QED  BY <1>5, <2>1, <3>3 DEF Window
  <2>. QED  BY <1>1, <1>2, <1>5, <2>2, WindowPair
<1>6. CASE Enroll(p) /\ ~Collides(p) /\ window # None /\ now < window.expires
  BY <1>1, <1>6, EnrollPair
<1>7. missed \in Nat \/ window = None
  BY LinkAssumption DEF PairInv, PairTypes, Window
<1>. QED  BY <1>3, <1>4, <1>5, <1>6, <1>7, LinkAssumption DEF pair_at

-----------------------------------------------------------------------------
(* The queue *)

\* A live entry was never decided, and is decided once: it goes with the
\* decision that lands, in the critical section that looked at it.
LEMMA DecideQueue ==
    ASSUME QueueInv, NEW r \in Live, NEW record \in Landing,
           record.id = r, record.exact, Decide(r, record), UNCHANGED asked
    PROVE  QueueInv'
<1>. DEFINE n == Len(landed)
<1>1. r \in Ids /\ queue[r] # 0 /\ r <= asked
  BY DEF QueueInv, LandedIsGone, Live
<1>2. landed' = Append(landed, record) /\ landed \in Seq(Landing)
  BY DEF Decide, QueueInv, QueueTypes
<1>3. /\ landed' \in Seq(Landing) /\ n \in Nat
      /\ DOMAIN landed = 1..n /\ DOMAIN landed' = 1..(n + 1)
      /\ \A i \in 1..n : landed'[i] = landed[i]
      /\ landed'[n + 1] = record
  BY <1>2
<1>4. /\ queue' \in Rows /\ queue'[r] = 0
      /\ \A q \in Ids \ {r} : queue'[q] = queue[q]
  BY <1>1, LinkAssumption DEF Decide, QueueInv, QueueTypes, Rows
<1>5. \A i \in 1..n : /\ landed[i] \in Landing /\ landed[i].id # r
                      /\ landed[i].id <= asked /\ queue[landed[i].id] = 0
                      /\ landed[i].id \in Ids /\ landed[i].exact
  <2>1. \A i \in 1..n : landed[i] \in Landing
    BY <1>2, <1>3
  <2>2. \A i \in 1..n : landed[i].exact
    BY <1>3 DEF QueueInv, DecidedOnce, Range
  <2>. QED  BY <1>1, <1>3, <2>1, <2>2 DEF QueueInv, LandedIsGone, Landing
<1>6. QueueTypes'
  BY <1>3, <1>4 DEF QueueInv, QueueTypes
<1>7. LandedIsGone'
  <2>1. \A q \in Live' : q <= asked'
    BY <1>1, <1>4 DEF QueueInv, LandedIsGone, Live
  <2>2. ASSUME NEW i \in DOMAIN landed'
        PROVE  landed'[i].id <= asked' /\ queue'[landed'[i].id] = 0
    <3>1. CASE i = n + 1
      BY <1>1, <1>3, <1>4, <3>1
    <3>2. CASE i \in 1..n
      BY <1>3, <1>4, <1>5, <3>2
    <3>. QED  BY <1>3, <3>1, <3>2
  <2>. QED  BY <2>1, <2>2 DEF LandedIsGone
<1>8. DecidedOnce'
  <2>1. ASSUME NEW i \in DOMAIN landed', NEW j \in DOMAIN landed',
               landed'[i].id = landed'[j].id
        PROVE  i = j
    <3>1. CASE i = n + 1 \/ j = n + 1
      BY <1>3, <1>5, <2>1, <3>1
    <3>2. CASE i \in 1..n /\ j \in 1..n
      BY <1>3, <2>1, <3>2 DEF QueueInv, DecidedOnce
    <3>. QED  BY <1>3, <3>1, <3>2
  <2>2. \A i \in DOMAIN landed' : landed'[i].exact
    BY <1>3, <1>5
  <2>. QED  BY <2>1, <2>2 DEF DecidedOnce, Range
<1>. QED  BY <1>6, <1>7, <1>8 DEF QueueInv

\* An ask opens an entry of a number never used, or widens a live one.
LEMMA SubmitQueue ==
    ASSUME QueueInv, NEW r \in Ids, submit_ask(r)
    PROVE  QueueInv'
<1>1. /\ queue' = [queue EXCEPT ![r] = @ + 1] /\ landed' = landed
      /\ queue \in Rows /\ asked \in Nat /\ MaxRequests \in Nat
      /\ MaxHashes \in Nat \ {0}
  BY LinkAssumption DEF QueueInv, QueueTypes, submit_ask
<1>2. \/ r = asked + 1 /\ asked' = r
      \/ r \in Live /\ queue[r] < MaxHashes /\ asked' = asked
  BY DEF submit_ask
<1>3. /\ r \in Nat /\ r <= asked' /\ asked <= asked' /\ asked' \in 0..MaxRequests
      /\ queue[r] < MaxHashes
  <2>1. CASE r = asked + 1 /\ asked' = r
    BY <1>1, <2>1 DEF Rows, QueueInv, LandedIsGone, Live, Ids
  <2>2. CASE r \in Live /\ queue[r] < MaxHashes /\ asked' = asked
    BY <1>1, <2>2 DEF QueueInv, QueueTypes, LandedIsGone, Live, Ids
  <2>. QED  BY <1>2, <2>1, <2>2
<1>4. queue' \in Rows /\ \A q \in Ids \ {r} : queue'[q] = queue[q]
  BY <1>1, <1>3 DEF Rows
<1>5. \A i \in DOMAIN landed : /\ landed[i].id \in Ids /\ landed[i].id # r
                               /\ landed[i].id <= asked
                               /\ queue[landed[i].id] = 0
  <2>1. \A i \in DOMAIN landed : landed[i] \in Landing
    BY DEF QueueInv, QueueTypes
  <2>2. \A i \in DOMAIN landed : landed[i].id <= asked /\ queue[landed[i].id] = 0
    BY DEF QueueInv, LandedIsGone
  <2>. QED  BY <1>1, <1>2, <2>1, <2>2 DEF Landing, Live, Ids
<1>6. QueueTypes'
  BY <1>1, <1>3, <1>4 DEF QueueInv, QueueTypes
<1>7. LandedIsGone'
  BY <1>1, <1>3, <1>4, <1>5 DEF QueueInv, LandedIsGone, Live, Ids
<1>8. DecidedOnce'
  BY <1>1 DEF QueueInv, DecidedOnce
<1>. QED  BY <1>6, <1>7, <1>8 DEF QueueInv

\* A restart empties the queue; what landed stays landed.
LEMMA RestartQueue ==
    ASSUME QueueInv, Restart
    PROVE  QueueInv'
<1>1. queue' = [r \in Ids |-> 0] /\ UNCHANGED <<asked, landed>>
  BY DEF Restart
<1>2. queue' \in Rows
  BY <1>1, LinkAssumption DEF Rows
<1>3. \A i \in DOMAIN landed : landed[i] \in Landing
  BY DEF QueueInv, QueueTypes
<1>4. \A i \in DOMAIN landed : landed[i].id \in Ids
  BY <1>3 DEF Landing
<1>. QED  BY <1>1, <1>2, <1>4 DEF QueueInv, QueueTypes, LandedIsGone, DecidedOnce, Live

-----------------------------------------------------------------------------
(* The request threads *)

\* A thread of POST /decision holds the number of a decision that was signed.
LEMMA DecisionOf ==
    ASSUME ThreadInv, NEW t \in Threads, thread[t].at \in DecisionSteps
    PROVE  /\ thread[t] \in [at : DecisionSteps, nonce : DOMAIN signed]
           /\ thread[t].nonce \in Nonces
           /\ signed[thread[t].nonce] \in Signature
<1>1. thread[t] \in [at : DecisionSteps, nonce : DOMAIN signed]
  BY DEF ThreadInv, ThreadState, DecisionSteps
<1>2. thread[t].nonce \in DOMAIN signed
  BY <1>1
<1>. QED  BY <1>1, <1>2, LinkAssumption DEF ThreadInv, Nonces

\* Whatever a thread becomes, and whichever nonces are burnt or retired.
LEMMA ThreadMoves ==
    ASSUME ThreadInv, NEW t \in Threads, NEW state \in ThreadState,
           thread' = [thread EXCEPT ![t] = state], signed' = signed,
           used' \in [Ids -> SUBSET Nonces]
    PROVE  ThreadInv'
  BY DEF ThreadInv, ThreadState

\* A decision request moves on, or is refused.
LEMMA StepOrStop ==
    ASSUME ThreadInv, NEW t \in Threads, thread[t].at \in DecisionSteps,
           Stop(t) \/ \E label \in DecisionSteps : Step(t, label),
           signed' = signed, used' \in [Ids -> SUBSET Nonces]
    PROVE  ThreadInv'
<1>1. CASE Stop(t)
  <2>1. Idle \in ThreadState
    BY DEF Idle, ThreadState
  <2>. QED  BY <1>1, <2>1, ThreadMoves DEF Stop
<1>2. ASSUME NEW label \in DecisionSteps, Step(t, label)
      PROVE  ThreadInv'
  <2>. DEFINE state == [thread[t] EXCEPT !.at = label]
  <2>1. state \in ThreadState
    BY DecisionOf DEF ThreadState
  <2>2. thread' = [thread EXCEPT ![t] = state]
    BY <1>2 DEF Step
  <2>. QED  BY <2>1, <2>2, ThreadMoves
<1>. QED  BY <1>1, <1>2

\* A signature is of the row that the page shows.
LEMMA SubmitThread ==
    ASSUME ThreadInv, ViewTypes, NEW p \in Phones, NEW r \in Ids, submitDecision(p, r)
    PROVE  ThreadInv'
<1>. DEFINE m == [id |-> r, hash |-> page[p][r], phone |-> p]
<1>1. m \in Signature
  BY DEF ViewTypes, Rows, Signature
<1>2. signed' = Append(signed, m) /\ Len(signed) < MaxSigned /\ UNCHANGED <<thread, used>>
  BY DEF submitDecision, queueVars
<1>. HIDE DEF m
<1>3. signed' \in Seq(Signature) /\ Len(signed') <= MaxSigned
      /\ DOMAIN signed \subseteq DOMAIN signed'
  BY <1>1, <1>2, LinkAssumption DEF ThreadInv
<1>4. ThreadState \subseteq ThreadState'
  BY <1>3 DEF ThreadState
<1>. QED  BY <1>2, <1>3, <1>4 DEF ThreadInv

-----------------------------------------------------------------------------
(* The actions *)

\* Nothing is paired, asked, signed or attached at the start.
LEMMA InitIndInv == Init => IndInv
<1>. SUFFICES ASSUME Init PROVE IndInv
  OBVIOUS
<1>1. queue \in Rows
  BY LinkAssumption DEF Init, Rows
<1>2. PairInv
  <2>1. now \in 0..MaxNow /\ tokens \in 0..MaxTokens
    BY LinkAssumption DEF Init
  <2>2. enrolled = <<>> /\ registry = {} /\ window = None /\ listener = FALSE
    BY DEF Init
  <2>3. enrolled \in Seq(Enrollment) /\ DOMAIN enrolled = {}
    BY <2>2
  <2>4. PairTypes
    BY <2>1, <2>2, <2>3 DEF PairTypes
  <2>5. UnspentWindow /\ TokenIsSpentOnce
    BY <2>2, <2>3 DEF UnspentWindow, TokenIsSpentOnce, Range
  <2>. QED  BY <2>4, <2>5 DEF PairInv
<1>3. QueueInv
  BY <1>1, LinkAssumption
     DEF Init, QueueInv, QueueTypes, LandedIsGone, DecidedOnce, Live, Range
<1>4. ThreadInv
  BY LinkAssumption DEF Init, ThreadInv, ThreadState, Idle
<1>5. ViewInv
  BY <1>1 DEF Init, ViewInv, ViewTypes, AttachedPageIsCurrent, StreamState, Idle
<1>. QED  BY <1>2, <1>3, <1>4, <1>5 DEF IndInv

\* secreq link and secreq link remove.
LEMMA CommandLineStep ==
    ASSUME IndInv, NEW c \in Clients, CommandLine(c)
    PROVE  IndInv'
<1>1. QueueInv' /\ ThreadInv'
  BY QueueKept, ThreadKept DEF IndInv, CommandLine, ensure_listener, open_at, remove,
     drop_listener, close_link_events, queueVars
<1>2. CASE close_link_events(c)
  <2>1. ExitPlease \in Event /\ ExitPlease.kind = "exit"
    BY DEF ExitPlease, Event
  <2>2. PairInv' /\ ViewInv'
    BY <1>2, <2>1, PairKept, BroadcastKeeps DEF IndInv, close_link_events, queueVars
  <2>. QED  BY <1>1, <2>2 DEF IndInv
<1>3. CASE ~close_link_events(c)
  <2>1. ViewInv'
    BY <1>3, ViewKept DEF IndInv, CommandLine, ensure_listener, open_at, remove,
       drop_listener, queueVars, viewVars
  <2>2. PairInv'
    <3>1. CASE ensure_listener(c) \/ drop_listener(c)
      <4>1. /\ UNCHANGED <<now, registry, window, tokens, enrolled>>
            /\ listener' \in BOOLEAN
        BY <3>1 DEF ensure_listener, drop_listener, Bind
      <4>. QED  BY <4>1, WindowPair DEF IndInv, PairInv, PairTypes
    <3>2. CASE open_at(c)
      BY <3>2, OpenPair DEF IndInv
    <3>3. CASE \E d \in registry : remove(c, d)
      BY <3>3, RemovePair DEF IndInv
    <3>. QED  BY <1>3, <3>1, <3>2, <3>3 DEF CommandLine
  <2>. QED  BY <1>1, <2>1, <2>2 DEF IndInv
<1>. QED  BY <1>2, <1>3

\* POST /pair.
LEMMA PairThreadStep ==
    ASSUME IndInv, NEW t \in Threads, PairThread(t)
    PROVE  IndInv'
<1>1. UNCHANGED <<queueVars, viewVars, signed>>
  BY DEF PairThread, AcceptPair, pair_at
<1>2. QueueInv' /\ ViewInv'
  BY <1>1, QueueKept, ViewKept DEF IndInv, queueVars, viewVars
<1>3. used' \in [Ids -> SUBSET Nonces]
  BY <1>1 DEF IndInv, ThreadInv, queueVars
<1>4. CASE pair_at(t)
  <2>1. Idle \in ThreadState /\ thread' = [thread EXCEPT ![t] = Idle]
    BY <1>4 DEF Idle, ThreadState, pair_at
  <2>2. ThreadInv'
    BY <1>1, <1>3, <2>1, ThreadMoves DEF IndInv
  <2>. QED  BY <1>2, <1>4, <2>2, PairAtPair DEF IndInv
<1>5. ASSUME NEW p \in Phones, NEW k \in 0..tokens, AcceptPair(t, p, k)
      PROVE  IndInv'
  <2>1. PairInv'
    BY <1>5, PairKept DEF IndInv, AcceptPair, pairVars
  <2>2. [at |-> "pair", phone |-> p, token |-> k] \in ThreadState
    BY LinkAssumption DEF ThreadState, IndInv, PairInv, PairTypes
  <2>3. ThreadInv'
    BY <1>1, <1>3, <1>5, <2>2, ThreadMoves DEF IndInv, AcceptPair, Accept
  <2>. QED  BY <1>2, <2>1, <2>3 DEF IndInv
<1>. QED  BY <1>4, <1>5 DEF PairThread

\* POST /decision, up to the nonce that it burns.
LEMMA DecisionThreadStep ==
    ASSUME IndInv, NEW t \in Threads,
           \/ \E n \in Nonces : AcceptDecision(t, n)
           \/ load(t) \/ CheckLive(t) \/ accept(t) \/ retire(t)
    PROVE  IndInv'
<1>1. UNCHANGED <<now, pairVars, queue, asked, landed, viewVars, signed>>
  BY DEF AcceptDecision, load, CheckLive, accept, retire, queueVars
<1>2. PairInv' /\ QueueInv' /\ ViewInv'
  BY <1>1, PairKept, QueueKept, ViewKept DEF IndInv, pairVars, viewVars
<1>3. used \in [Ids -> SUBSET Nonces]
  BY DEF IndInv, ThreadInv
<1>4. ASSUME NEW n \in Nonces, AcceptDecision(t, n)
      PROVE  ThreadInv'
  <2>1. [at |-> "load", nonce |-> n] \in ThreadState
    BY <1>4 DEF AcceptDecision, ThreadState, DecisionSteps
  <2>. QED  BY <1>1, <1>3, <1>4, <2>1, ThreadMoves
               DEF IndInv, AcceptDecision, Accept, queueVars
<1>5. CASE load(t) \/ CheckLive(t)
  <2>1. /\ used' = used /\ thread[t].at \in DecisionSteps
        /\ Stop(t) \/ \E label \in DecisionSteps : Step(t, label)
    BY <1>5 DEF load, CheckLive, queueVars, DecisionSteps
  <2>. QED  BY <1>1, <1>2, <1>3, <2>1, StepOrStop DEF IndInv
<1>6. CASE accept(t) \/ retire(t)
  <2>1. /\ thread[t].at \in DecisionSteps
        /\ Stop(t) \/ \E label \in DecisionSteps : Step(t, label)
    BY <1>6 DEF accept, retire, DecisionSteps
  <2>2. thread[t].nonce \in Nonces /\ signed[thread[t].nonce].id \in Ids
    BY <2>1, DecisionOf DEF IndInv, Signature
  <2>3. used' \in [Ids -> SUBSET Nonces]
    <3>. DEFINE r == signed[thread[t].nonce].id
    <3>1. \/ used' = used
          \/ used' = [used EXCEPT ![r] = @ \cup {thread[t].nonce}]
          \/ used' = [used EXCEPT ![r] = {}]
      BY <1>6 DEF accept, retire
    <3>2. r \in Ids
      BY <2>2
    <3>. HIDE DEF r
    <3>3. used[r] \cup {thread[t].nonce} \in SUBSET Nonces
      BY <1>3, <2>2, <3>2
    <3>. QED  BY <1>3, <3>1, <3>2, <3>3
  <2>. QED  BY <1>1, <1>2, <2>1, <2>3, StepOrStop DEF IndInv
<1>. QED  BY <1>2, <1>4, <1>5, <1>6 DEF IndInv

\* What a decision that lands does to the queue, the nonces and the pages.
LEMMA DecideKeeps ==
    ASSUME IndInv, NEW r \in Live, NEW record \in Landing, record.id = r, record.exact,
           Decide(r, record), UNCHANGED <<asked, page>>
    PROVE  QueueInv' /\ ViewInv' /\ used' \in [Ids -> SUBSET Nonces]
<1>1. QueueInv'
  BY DecideQueue DEF IndInv
<1>2. Snapshot(queue') \in Event /\ Snapshot(queue').kind = "snapshot"
      /\ Snapshot(queue').rows = queue'
  BY <1>1 DEF Snapshot, Event, SnapshotEvent, QueueInv, QueueTypes, Rows, Ids
<1>3. ViewInv'
  BY <1>2, BroadcastKeeps DEF IndInv, Decide, Announce
<1>4. used' \in [Ids -> SUBSET Nonces]
  BY DEF IndInv, ThreadInv, Decide, Live
<1>. QED  BY <1>1, <1>3, <1>4

\* State::resolve_remote looks again, under the lock that lands the decision.
LEMMA ResolveRemoteStep ==
    ASSUME IndInv, NEW t \in Threads, resolve_remote(t)
    PROVE  IndInv'
<1>. DEFINE m == signed[thread[t].nonce]
            record == [id |-> m.id, by |-> m.phone, exact |-> link_request_matches(m),
                       paired |-> \E d \in registry : d.key = m.phone]
<1>1. /\ thread[t].at \in DecisionSteps /\ Step(t, "retire")
      /\ UNCHANGED <<now, pairVars, asked, page, signed>>
  BY DEF resolve_remote, DecisionSteps
<1>2. m \in Signature
  BY <1>1, DecisionOf DEF IndInv
<1>3. PairInv'
  BY <1>1, PairKept DEF IndInv, pairVars
<1>4. QueueInv' /\ ViewInv' /\ used' \in [Ids -> SUBSET Nonces]
  <2>1. CASE StillSigned(m)
    <3>1. m.id \in Live /\ m.phone \in Phones /\ m.id \in Ids /\ link_request_matches(m)
      BY <1>2, <2>1 DEF StillSigned, link_request_matches, Signature
    <3>2. record \in Landing /\ record.id = m.id /\ record.exact
      BY <3>1 DEF Landing
    <3>3. Decide(m.id, record)
      BY <2>1 DEF resolve_remote
    <3>. HIDE DEF record, m
    <3>. QED  BY <1>1, <3>1, <3>2, <3>3, DecideKeeps
  <2>2. CASE ~StillSigned(m)
    BY <1>1, <2>2, QueueKept, ViewKept DEF IndInv, ThreadInv, resolve_remote
  <2>. QED  BY <2>1, <2>2
<1>5. ThreadInv'
  BY <1>1, <1>4, StepOrStop DEF IndInv, DecisionSteps
<1>. QED  BY <1>3, <1>4, <1>5 DEF IndInv

\* The pages' own steps.
LEMMA PageStep ==
    ASSUME IndInv, NEW p \in Phones, Page(p)
    PROVE  IndInv'
<1>1. UNCHANGED <<now, pairVars, queueVars, thread>>
  BY DEF Page, AcceptEvents, attach_link_events, write_sse_snapshot,
         detach_link_events, submitDecision
<1>2. PairInv' /\ QueueInv'
  BY <1>1, PairKept, QueueKept DEF IndInv, pairVars, queueVars
<1>3. CASE \E r \in Ids : submitDecision(p, r)
  <2>1. ViewInv'
    BY <1>3, ViewKept DEF IndInv, submitDecision, queueVars, viewVars
  <2>2. ThreadInv'
    BY <1>3, SubmitThread DEF IndInv, ViewInv
  <2>. QED  BY <1>2, <2>1, <2>2 DEF IndInv
<1>4. CASE \/ AcceptEvents(p) \/ attach_link_events(p) \/ write_sse_snapshot(p)
           \/ detach_link_events(p)
  <2>1. signed' = signed
    BY <1>4 DEF AcceptEvents, attach_link_events, write_sse_snapshot,
                detach_link_events
  <2>2. ThreadInv'
    BY <1>1, <2>1, ThreadKept DEF IndInv, queueVars
  <2>3. ViewInv'
    BY <1>4, AcceptEventsView, AttachView, WriteView, DetachView
       DEF IndInv, QueueInv
  <2>. QED  BY <1>2, <2>2, <2>3 DEF IndInv
<1>. QED  BY <1>3, <1>4 DEF Page

\* Asks that arrive, and decisions taken at the host.
LEMMA HostStep ==
    ASSUME IndInv, NEW r \in Ids, submit_ask(r) \/ DecideLocally(r)
    PROVE  IndInv'
<1>1. UNCHANGED <<now, pairVars, thread, page, signed>>
  BY DEF submit_ask, DecideLocally
<1>2. PairInv'
  BY <1>1, PairKept DEF IndInv, pairVars
<1>3. CASE submit_ask(r)
  <2>1. QueueInv'
    BY <1>3, SubmitQueue DEF IndInv
  <2>2. Snapshot(queue') \in Event /\ Snapshot(queue').kind = "snapshot"
        /\ Snapshot(queue').rows = queue'
    BY <2>1 DEF Snapshot, Event, SnapshotEvent, QueueInv, QueueTypes, Rows, Ids
  <2>3. ViewInv'
    BY <1>1, <1>3, <2>2, BroadcastKeeps DEF IndInv, submit_ask, Announce
  <2>4. ThreadInv'
    BY <1>1, <1>3, ThreadKept DEF IndInv, submit_ask
  <2>. QED  BY <1>2, <2>1, <2>3, <2>4 DEF IndInv
<1>4. CASE DecideLocally(r)
  <2>. DEFINE record == [id |-> r, by |-> None, exact |-> TRUE, paired |-> TRUE]
  <2>1. record \in Landing /\ record.id = r /\ record.exact
    BY DEF Landing
  <2>2. r \in Live /\ Decide(r, record) /\ UNCHANGED <<asked, page>>
    BY <1>4 DEF DecideLocally
  <2>. HIDE DEF record
  <2>3. QueueInv' /\ ViewInv' /\ used' \in [Ids -> SUBSET Nonces]
    BY <2>1, <2>2, DecideKeeps
  <2>4. ThreadInv'
    BY <1>1, <2>3 DEF IndInv, ThreadInv, ThreadState
  <2>. QED  BY <1>2, <2>3, <2>4 DEF IndInv
<1>. QED  BY <1>3, <1>4

\* A restart: the registry and the history are all that is left.
LEMMA RestartStep ==
    ASSUME IndInv, Restart
    PROVE  IndInv'
<1>1. PairInv'
  <2>1. UNCHANGED <<now, registry, tokens, enrolled>> /\ window' = None
        /\ listener' \in BOOLEAN
    BY DEF Restart
  <2>. QED  BY <2>1, WindowPair DEF IndInv, PairInv, PairTypes
<1>2. QueueInv'
  BY RestartQueue DEF IndInv
<1>3. ThreadInv'
  BY DEF IndInv, ThreadInv, ThreadState, Restart, Idle
<1>4. ViewInv'
  BY DEF IndInv, ViewInv, ViewTypes, AttachedPageIsCurrent, StreamState,
         Restart, Idle
<1>. QED  BY <1>1, <1>2, <1>3, <1>4 DEF IndInv

\* The clock.
LEMMA TickStep == IndInv /\ Tick => IndInv'
<1>. SUFFICES ASSUME IndInv, Tick PROVE IndInv'
  OBVIOUS
<1>1. QueueInv' /\ ThreadInv' /\ ViewInv'
  BY QueueKept, ThreadKept, ViewKept DEF IndInv, Tick, queueVars, viewVars
<1>2. /\ now' \in 0..MaxNow /\ listener' \in BOOLEAN
      /\ UNCHANGED <<registry, tokens, enrolled, window>>
  BY LinkAssumption DEF IndInv, PairInv, PairTypes, Tick, pairVars
<1>3. PairInv'
  BY <1>2, WindowPair DEF IndInv
<1>. QED  BY <1>1, <1>3 DEF IndInv

\* Every step of the system keeps the invariant.
LEMMA NextIndInv == IndInv /\ [Next]_vars => IndInv'
<1>. SUFFICES ASSUME IndInv, [Next]_vars PROVE IndInv'
  OBVIOUS
<1>1. CASE \E c \in Clients : CommandLine(c)
  BY <1>1, CommandLineStep
<1>2. CASE \E t \in Threads : PairThread(t) \/ DecisionThread(t)
  BY <1>2, PairThreadStep, DecisionThreadStep, ResolveRemoteStep DEF DecisionThread
<1>3. CASE \E p \in Phones : Page(p)
  BY <1>3, PageStep
<1>4. CASE \E r \in Ids : submit_ask(r) \/ DecideLocally(r)
  BY <1>4, HostStep
<1>5. CASE Restart
  BY <1>5, RestartStep
<1>6. CASE Tick
  BY <1>6, TickStep
<1>7. CASE UNCHANGED vars
  BY <1>7, PairKept, QueueKept, ThreadKept, ViewKept DEF IndInv, vars
<1>. QED  BY <1>1, <1>2, <1>3, <1>4, <1>5, <1>6, <1>7 DEF Next

\* The pairing, the queue, the request threads and the pages keep their
\* invariants in every behaviour.
THEOREM Invariance == Spec => []IndInv
<1>. QED  BY InitIndInv, NextIndInv, PTL DEF Spec

\* Type correctness.
THEOREM TypeCorrect == Spec => []TypeOK
<1>1. IndInv => TypeOK
  <2>. SUFFICES ASSUME IndInv PROVE TypeOK
    OBVIOUS
  <2>1. window = None \/ window \in [token : 1..MaxTokens, expires : Nat,
                                     failed : 0..MaxFailed]
    BY LinkAssumption DEF IndInv, PairInv, PairTypes, Window
  <2>. QED  BY <2>1 DEF TypeOK, IndInv, PairInv, PairTypes, QueueInv, QueueTypes,
                        ThreadInv, ViewInv, ViewTypes
<1>. QED  BY <1>1, Invariance, PTL

\* Pairing::pair_at spends a token on one device, in its minute, and pairs no
\* two devices of one nickname or key.
THEOREM TokenIsSpentOnceHolds == Spec => []TokenIsSpentOnce
<1>1. IndInv => TokenIsSpentOnce
  BY DEF IndInv, PairInv
<1>. QED  BY <1>1, Invariance, PTL

\* However often a signed decision is delivered, and whatever overtakes it, a
\* request is decided once and as it was signed.
THEOREM DecidedOnceHolds == Spec => []DecidedOnce
<1>1. IndInv => DecidedOnce
  BY DEF IndInv, QueueInv
<1>. QED  BY <1>1, Invariance, PTL

\* A page that is still attached has, or has on its way, the queue as it stands.
THEOREM AttachedPageIsCurrentHolds == Spec => []AttachedPageIsCurrent
<1>1. IndInv => AttachedPageIsCurrent
  BY DEF IndInv, ViewInv
<1>. QED  BY <1>1, Invariance, PTL
=============================================================================
