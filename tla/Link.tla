-------------------------------- MODULE Link --------------------------------
(***************************************************************************)
(* Linked devices (link/, and the linked half of daemon/state.rs): a phone *)
(* is paired with a token that is shown once, watches the queue over a     *)
(* server-sent event stream, and sends signed decisions, while a person at *)
(* the host pairs, revokes and decides, and the daemon may restart.        *)
(*                                                                         *)
(* Every HTTP request has a thread of its own, started by the accept loop  *)
(* while the listener is up; it outlives the listener.  A step is one      *)
(* critical section of the pairing window's mutex, of the State mutex or   *)
(* of the nonce store's, or one step of a thread between two of them.  The *)
(* network may deliver a signed decision late and any number of times.     *)
(***************************************************************************)
EXTENDS Naturals, Sequences, FiniteSets, Functions

CONSTANTS
    Phones,        \* browsers, each with a key pair and a page of its own
    Nick,          \* Nick[p]: the nickname typed at phone p
    Threads,       \* request threads for POST /pair and POST /decision
    Clients,       \* connections of `secreq link` and `secreq link remove`
    Ttl,           \* ENROLLMENT_TTL, in ticks
    MaxFailed,     \* MAX_FAILED_TOKEN_ATTEMPTS
    MaxStreams,    \* MAX_LINK_SUBSCRIBERS
    Room,          \* MAX_PENDING_SNAPSHOTS
    MaxNow,        \* bound: ticks of the clock
    MaxTokens,     \* bound: enrollment windows opened
    MaxRequests,   \* bound: asks that open a queue entry
    MaxHashes,     \* bound: shapes an entry's representative takes
    MaxSigned,     \* bound: decisions signed by phones
    MaxRestarts,   \* bound: daemon restarts
    None

ASSUME LinkAssumption ==
    /\ DOMAIN Nick = Phones
    /\ {Ttl, MaxFailed, MaxStreams, Room, MaxHashes} \subseteq Nat \ {0}
    /\ {MaxNow, MaxTokens, MaxRequests, MaxSigned, MaxRestarts} \subseteq Nat
    /\ None \notin Phones
    /\ None \notin [kind : {"snapshot"}, rows : [1..MaxRequests -> 0..MaxHashes]]

VARIABLES
    now,         \* the monotonic clock
    registry,    \* devices.json: the paired devices
    listener,    \* whether the LAN listener is bound
    window,      \* Pairing.window
    tokens,      \* tokens minted so far
    queue,       \* hash of the representative of each live request id
    asked,       \* request ids minted so far
    used,        \* NonceStore: the nonces burnt for each request id
    thread,      \* request threads
    client,      \* where each command-line connection is
    stream,      \* the /events connection of each phone's page
    subs,        \* LinkSubscriberGroup: the attached streams
    page,        \* the rows each page shows
    signed,      \* decisions signed so far; the index is the nonce
    restarts,
    enrolled,    \* history: devices written to the registry
    landed       \* history: decisions that ended an entry of the queue

pairVars == <<registry, listener, window, tokens, client, enrolled>>
queueVars == <<queue, asked, used, landed>>
viewVars == <<stream, subs, page>>
vars == <<now, registry, listener, window, tokens, queue, asked, used, thread,
          client, stream, subs, page, signed, restarts, enrolled, landed>>

Ids == 1..MaxRequests
Nonces == 1..MaxSigned

Device(p) == [nickname |-> Nick[p], key |-> p]
Idle == [at |-> "idle"]
Live == {r \in Ids : queue[r] # 0}

Init ==
    /\ now = 0
    /\ registry = {}
    /\ listener = FALSE
    /\ window = None
    /\ tokens = 0
    /\ queue = [r \in Ids |-> 0]
    /\ asked = 0
    /\ used = [r \in Ids |-> {}]
    /\ thread = [t \in Threads |-> Idle]
    /\ client = [c \in Clients |-> "idle"]
    /\ stream = [p \in Phones |-> Idle]
    /\ subs = {}
    /\ page = [p \in Phones |-> queue]
    /\ signed = <<>>
    /\ restarts = 0
    /\ enrolled = <<>>
    /\ landed = <<>>

Tick ==
    /\ now < MaxNow
    /\ now' = now + 1
    /\ UNCHANGED <<pairVars, queueVars, viewVars, thread, signed, restarts>>

-----------------------------------------------------------------------------
(* secreq link: LinkControl::open_pairing, then LinkControl::remove. *)

\* lan::start: bound to a private address of the host, never to another.
Bind == listener' = TRUE

\* The listener comes up unless the port is taken or there is no private route.
ensure_listener(c) ==
    /\ client[c] = "idle" /\ tokens < MaxTokens
    /\ Bind
    /\ client' = [client EXCEPT ![c] = "open"]
    /\ UNCHANGED <<now, registry, window, tokens, enrolled, queueVars,
                   viewVars, thread, signed, restarts>>

\* Pairing::open: a fresh token replaces the window there was.
open_at(c) ==
    /\ client[c] = "open" /\ tokens < MaxTokens
    /\ tokens' = tokens + 1
    /\ window' = [token |-> tokens + 1, expires |-> now + Ttl, failed |-> 0]
    /\ client' = [client EXCEPT ![c] = "idle"]
    /\ UNCHANGED <<now, registry, listener, enrolled, queueVars, viewVars,
                   thread, signed, restarts>>

\* Pairing::remove, under the window's mutex.
remove(c, d) ==
    /\ client[c] = "idle" /\ d \in registry
    /\ registry' = registry \ {d}
    /\ client' = [client EXCEPT ![c] =
                    IF registry = {d} THEN "drop listener" ELSE "idle"]
    /\ UNCHANGED <<now, listener, window, tokens, enrolled, queueVars,
                   viewVars, thread, signed, restarts>>

\* The last device is gone: the listener is dropped.
drop_listener(c) ==
    /\ client[c] = "drop listener"
    /\ listener' = FALSE
    /\ client' = [client EXCEPT ![c] = "close events"]
    /\ UNCHANGED <<now, registry, window, tokens, enrolled, queueVars,
                   viewVars, thread, signed, restarts>>

-----------------------------------------------------------------------------
(* POST /pair *)

\* The accept loop starts a thread for a request that it routes.
Accept(t, request) ==
    /\ listener /\ thread[t] = Idle
    /\ thread' = [thread EXCEPT ![t] = request]

\* A phone posts a token: one that it was shown, or a wrong one (0).
AcceptPair(t, p, token) ==
    /\ Accept(t, [at |-> "pair", phone |-> p, token |-> token])
    /\ UNCHANGED <<now, pairVars, queueVars, viewVars, signed, restarts>>

\* A device of that nickname, or that key, is already paired.
Collides(p) == \E d \in registry : d.nickname = Nick[p] \/ d.key = p

\* Mutant of Enroll: the window stays open after a device was enrolled.
EnrollAgain(p) ==
    /\ registry' = registry \cup {Device(p)}
    /\ enrolled' = Append(enrolled, [token |-> window.token, phone |-> p,
                                     at |-> now, expires |-> window.expires])
    /\ UNCHANGED window

Enroll(p) ==
    /\ registry' = registry \cup {Device(p)}
    /\ enrolled' = Append(enrolled, [token |-> window.token, phone |-> p,
                                     at |-> now, expires |-> window.expires])
    /\ window' = None

\* Pairing::pair_at, one critical section with the registry's read and write:
\* expiry, the token and its failed attempts, collisions, then the enrollment.
\* The write of the registry may fail; the window is then still open.
pair_at(t) ==
    /\ thread[t].at = "pair"
    /\ LET p == thread[t].phone
           missed == window.failed + 1
       IN  \/ /\ window = None
              /\ UNCHANGED <<registry, window, enrolled>>
           \/ /\ window # None /\ now >= window.expires
              /\ window' = None
              /\ UNCHANGED <<registry, enrolled>>
           \/ /\ window # None /\ now < window.expires
              /\ thread[t].token # window.token
              /\ window' = IF missed >= MaxFailed THEN None
                           ELSE [window EXCEPT !.failed = missed]
              /\ UNCHANGED <<registry, enrolled>>
           \/ /\ window # None /\ now < window.expires
              /\ thread[t].token = window.token
              /\ IF Collides(p) THEN UNCHANGED <<registry, window, enrolled>>
                 ELSE \/ Enroll(p)
                      \/ UNCHANGED <<registry, window, enrolled>>
    /\ thread' = [thread EXCEPT ![t] = Idle]
    /\ UNCHANGED <<now, listener, tokens, client, queueVars, viewVars, signed,
                   restarts>>

-----------------------------------------------------------------------------
(* LinkSubscriberGroup: what every change of the queue sends to the pages. *)

\* LinkSnapshot: the request id and the hash of every row, nothing that only
\* the desktop may see.
Snapshot(rows) == [kind |-> "snapshot", rows |-> rows]
ExitPlease == [kind |-> "exit"]

\* Mutant of Broadcast: a full channel loses the event and keeps the subscriber.
BroadcastLossy(event) ==
    /\ stream' = [p \in Phones |->
          IF p \in subs /\ Len(stream[p].chan) < Room
          THEN [stream[p] EXCEPT !.chan = Append(@, event)] ELSE stream[p]]
    /\ UNCHANGED subs

\* try_send to each subscriber; one whose channel is full is dropped.
Broadcast(event) ==
    LET roomy == {p \in subs : Len(stream[p].chan) < Room}
    IN  /\ subs' = roomy
        /\ stream' = [p \in Phones |->
              IF p \in roomy THEN [stream[p] EXCEPT !.chan = Append(@, event)]
              ELSE stream[p]]

\* broadcast_consent_update with the queue as it is after the step.
Announce == Broadcast(Snapshot(queue'))

\* close_link_events ends the streams of an unpaired daemon.
close_link_events(c) ==
    /\ client[c] = "close events"
    /\ Broadcast(ExitPlease)
    /\ client' = [client EXCEPT ![c] = "idle"]
    /\ UNCHANGED <<now, registry, listener, window, tokens, enrolled,
                   queueVars, thread, page, signed, restarts>>

-----------------------------------------------------------------------------
(* GET /events *)

AcceptEvents(p) ==
    /\ listener /\ stream[p] = Idle
    /\ stream' = [stream EXCEPT ![p] = [at |-> "accepted"]]
    /\ UNCHANGED <<now, pairVars, queueVars, thread, subs, page, signed,
                   restarts>>

\* Under the State mutex: refused at the cap (503), else attached with the
\* snapshot that opens the stream.
attach_link_events(p) ==
    /\ stream[p].at = "accepted"
    /\ IF Cardinality(subs) >= MaxStreams
       THEN /\ stream' = [stream EXCEPT ![p] = Idle]
            /\ UNCHANGED subs
       ELSE /\ stream' = [stream EXCEPT ![p] =
                            [at |-> "open", first |-> Snapshot(queue), chan |-> <<>>]]
            /\ subs' = subs \cup {p}
    /\ UNCHANGED <<now, pairVars, queueVars, thread, page, signed, restarts>>

\* The page draws the rows it is sent.
handleMessage(p, rows) == page' = [page EXCEPT ![p] = rows]

\* The stream's thread writes the opening snapshot, then what the channel holds.
write_sse_snapshot(p) ==
    /\ stream[p].at = "open"
    /\ \/ /\ stream[p].first # None
          /\ handleMessage(p, stream[p].first.rows)
          /\ stream' = [stream EXCEPT ![p].first = None]
       \/ /\ stream[p].first = None /\ stream[p].chan # <<>>
          /\ Head(stream[p].chan).kind = "snapshot"
          /\ handleMessage(p, Head(stream[p].chan).rows)
          /\ stream' = [stream EXCEPT ![p].chan = Tail(@)]
    /\ UNCHANGED <<now, pairVars, queueVars, thread, subs, signed, restarts>>

\* ExitPlease, a sender that was dropped with nothing left to read, or a write
\* (a heartbeat too) to a page that has gone: the subscription is dropped.
detach_link_events(p) ==
    /\ stream[p].at = "open"
    /\ stream' = [stream EXCEPT ![p] = Idle]
    /\ subs' = subs \ {p}
    /\ UNCHANGED <<now, pairVars, queueVars, thread, page, signed, restarts>>

\* The page signs the request id and the hash of the row that it shows, with a
\* fresh nonce.  A phone keeps its key when it is revoked.
submitDecision(p, r) ==
    /\ Len(signed) < MaxSigned
    /\ page[p][r] # 0
    /\ \E e \in Range(enrolled) : e.phone = p
    /\ signed' = Append(signed, [id |-> r, hash |-> page[p][r], phone |-> p])
    /\ UNCHANGED <<now, pairVars, queueVars, viewVars, thread, restarts>>

-----------------------------------------------------------------------------
(* POST /decision *)

AcceptDecision(t, n) ==
    /\ n \in DOMAIN signed
    /\ Accept(t, [at |-> "load", nonce |-> n])
    /\ UNCHANGED <<now, pairVars, queueVars, viewVars, signed, restarts>>

Step(t, label) == thread' = [thread EXCEPT ![t].at = label]
Stop(t) == thread' = [thread EXCEPT ![t] = Idle]

\* The registry is read for this request and the signer looked for in it.
load(t) ==
    /\ thread[t].at = "load"
    /\ LET m == signed[thread[t].nonce]
       IN  IF \E d \in registry : d.key = m.phone THEN Step(t, "live") ELSE Stop(t)
    /\ UNCHANGED <<now, pairVars, queueVars, viewVars, signed, restarts>>

\* canonical_hash: two representatives hash alike only if every field that the
\* page shows is the same.
canonical_hash(r) == queue[r]

\* The decision names a live entry whose representative is the one signed.
link_request_matches(m) == m.id \in Live /\ canonical_hash(m.id) = m.hash

CheckLive(t) ==
    /\ thread[t].at = "live"
    /\ IF link_request_matches(signed[thread[t].nonce])
       THEN Step(t, "burn") ELSE Stop(t)
    /\ UNCHANGED <<now, pairVars, queueVars, viewVars, signed, restarts>>

\* NonceStore::accept
accept(t) ==
    /\ thread[t].at = "burn"
    /\ LET n == thread[t].nonce
           r == signed[n].id
       IN  IF n \in used[r]
           THEN Stop(t) /\ UNCHANGED used
           ELSE /\ used' = [used EXCEPT ![r] = @ \cup {n}]
                /\ Step(t, "land")
    /\ UNCHANGED <<now, pairVars, queue, asked, landed, viewVars, signed, restarts>>

\* resolve_with_device, as far as the linked devices see it: the entry goes,
\* its nonces are retired and the pages are told.
Decide(r, record) ==
    /\ queue' = [queue EXCEPT ![r] = 0]
    /\ used' = [used EXCEPT ![r] = {}]
    /\ landed' = Append(landed, record)
    /\ Announce

\* Mutant of StillSigned: the entry is not looked at again under the lock.
StillSignedOnce(m) == TRUE

StillSigned(m) == link_request_matches(m)

\* State::resolve_remote repeats the proof, and lands the decision.
resolve_remote(t) ==
    /\ thread[t].at = "land"
    /\ LET m == signed[thread[t].nonce]
       IN  IF StillSigned(m)
           THEN Decide(m.id, [id |-> m.id, by |-> m.phone,
                              exact |-> link_request_matches(m),
                              paired |-> \E d \in registry : d.key = m.phone])
           ELSE UNCHANGED <<queue, used, landed, stream, subs>>
    /\ Step(t, "retire")
    /\ UNCHANGED <<now, pairVars, asked, page, signed, restarts>>

\* NonceStore::retire, whatever became of the decision.
retire(t) ==
    /\ thread[t].at = "retire"
    /\ used' = [used EXCEPT ![signed[thread[t].nonce].id] = {}]
    /\ Stop(t)
    /\ UNCHANGED <<now, pairVars, queue, asked, landed, viewVars, signed, restarts>>

-----------------------------------------------------------------------------
(* The daemon's other users, and its end. *)

\* submit_ask opens an entry, or widens the representative of the one it joins.
submit_ask(r) ==
    /\ \/ r = asked + 1 /\ asked' = r
       \/ r \in Live /\ queue[r] < MaxHashes /\ UNCHANGED asked
    /\ queue' = [queue EXCEPT ![r] = @ + 1]
    /\ Announce
    /\ UNCHANGED <<now, pairVars, used, landed, thread, page, signed, restarts>>

\* The consent window decides, or the last waiter goes away (withdraw_waiter).
DecideLocally(r) ==
    /\ r \in Live
    /\ Decide(r, [id |-> r, by |-> None, exact |-> TRUE, paired |-> TRUE])
    /\ UNCHANGED <<now, pairVars, asked, thread, page, signed, restarts>>

\* The daemon stops and is started again: pending asks, nonces, the pairing
\* window and every thread die with it; the registry does not.  The listener is
\* bound at start if a device is paired and a private address can be had.
Restart ==
    /\ restarts < MaxRestarts
    /\ restarts' = restarts + 1
    /\ listener' \in {registry # {}, FALSE}
    /\ window' = None
    /\ queue' = [r \in Ids |-> 0]
    /\ used' = [r \in Ids |-> {}]
    /\ thread' = [t \in Threads |-> Idle]
    /\ client' = [c \in Clients |-> "idle"]
    /\ stream' = [p \in Phones |-> Idle]
    /\ subs' = {}
    /\ UNCHANGED <<now, registry, tokens, asked, page, signed, enrolled, landed>>

CommandLine(c) ==
    \/ ensure_listener(c)
    \/ open_at(c)
    \/ \E d \in registry : remove(c, d)
    \/ drop_listener(c)
    \/ close_link_events(c)

PairThread(t) == (\E p \in Phones, k \in 0..tokens : AcceptPair(t, p, k)) \/ pair_at(t)

DecisionThread(t) ==
    \/ \E n \in Nonces : AcceptDecision(t, n)
    \/ load(t) \/ CheckLive(t) \/ accept(t) \/ resolve_remote(t) \/ retire(t)

Page(p) ==
    \/ AcceptEvents(p)
    \/ attach_link_events(p)
    \/ write_sse_snapshot(p)
    \/ detach_link_events(p)
    \/ \E r \in Ids : submitDecision(p, r)

Next ==
    \/ Tick
    \/ \E c \in Clients : CommandLine(c)
    \/ \E t \in Threads : PairThread(t) \/ DecisionThread(t)
    \/ \E p \in Phones : Page(p)
    \/ \E r \in Ids : submit_ask(r) \/ DecideLocally(r)
    \/ Restart

Spec == Init /\ [][Next]_vars

-----------------------------------------------------------------------------
(* Properties. *)

Rows == [Ids -> 0..MaxHashes]

\* The state of every variable is of its type.
TypeOK ==
    /\ now \in 0..MaxNow
    /\ registry \subseteq {Device(p) : p \in Phones}
    /\ listener \in BOOLEAN
    /\ window = None \/ window \in [token : 1..MaxTokens, expires : Nat,
                                    failed : 0..MaxFailed]
    /\ queue \in Rows /\ asked \in 0..MaxRequests
    /\ used \in [Ids -> SUBSET Nonces]
    /\ subs \subseteq Phones
    /\ page \in [Phones -> Rows]
    /\ \A p \in subs : stream[p].at = "open"

\* A token is good for one device and only until its minute is over, and no two
\* paired devices share a nickname or a key: however many requests arrive with
\* it at once, and although revocation rewrites the same file.
TokenIsSpentOnce ==
    /\ \A i, j \in DOMAIN enrolled :
          enrolled[i].token = enrolled[j].token => i = j
    /\ \A e \in Range(enrolled) : e.at < e.expires
    /\ \A d, e \in registry : d.nickname = e.nickname \/ d.key = e.key => d = e

\* A request is decided once and only as it was signed: a decision delivered
\* twice, or overtaken by a click, a withdrawal, a joining ask or a restart
\* between the two looks that handle_decision takes at the queue, does nothing.
DecidedOnce ==
    /\ \A i, j \in DOMAIN landed : landed[i].id = landed[j].id => i = j
    /\ \A d \in Range(landed) : d.exact

\* The last rows an attached page was sent, or will find in its channel.
LastSent(p, rows) ==
    LET chan == stream[p].chan
        snapshots == {i \in DOMAIN chan : chan[i].kind = "snapshot"}
    IN  IF snapshots = {}
        THEN rows = IF stream[p].first # None THEN stream[p].first.rows ELSE page[p]
        ELSE \E i \in snapshots :
                chan[i].rows = rows /\ \A j \in snapshots : j <= i

\* A page that is still attached under-reports nothing: the last rows on their
\* way to it are the queue as it stands, however slowly it reads.
AttachedPageIsCurrent == \A p \in subs : LastSent(p, queue)
=============================================================================
