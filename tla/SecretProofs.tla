---------------------------- MODULE SecretProofs ----------------------------
(***************************************************************************)
(* Proofs about where secret values come from and whom they go to.         *)
(*                                                                         *)
(* For every number of calls, every set of keys and every request, the     *)
(* resolvers of SecretResolution are single-flight, leave no waiter on a   *)
(* slot nobody will signal, signal Ready only after the value is cached,   *)
(* fail only when something outside them did, and account for every entry  *)
(* of a request in the reply.  None of it needs the requests to be         *)
(* ordered: what circular waiting breaks is liveness, not these            *)
(* invariants.                                                             *)
(*                                                                         *)
(* For every number of agents, guests and references, every list of        *)
(* allowed references and every Ttl, an agent of ScopedAgent releases only *)
(* what one of its own prompts showed and the user approved, and a release *)
(* without a prompt follows its approval within Ttl of real time as long   *)
(* as the wall clock is never stepped back.                                *)
(***************************************************************************)
EXTENDS SecretResolution, ScopedAgent, TLAPS

-----------------------------------------------------------------------------
(* The resolvers.                                                          *)

\* A call is inside acquire(), or re-reading, for an entry of its request.
AtEntryInv ==
    \A t \in Threads : pc[t] \in {"acquire", "parked", "reread"} => AtEntry(t)

\* A guard of t stands for a slot of t that is still Pending and that the
\* map still holds, except the one guard whose drop is half done.
GuardInv ==
    \A t \in Threads : \A i \in guards[t] :
        /\ i \in Entries(t)
        /\ slot[t][Request[t][i]] = "pending"
        /\ inFlight[Request[t][i]] = t <=> ~(pc[t] = "publish" /\ Oldest(t, i))

\* No call holds two guards for one key.
DistinctInv ==
    \A t \in Threads : \A i, j \in guards[t] :
        Request[t][i] = Request[t][j] => i = j

\* What the map holds is a slot some call still has to publish.
MapInv ==
    \A k \in Keys : inFlight[k] # NoThread =>
        \E i \in guards[inFlight[k]] : Request[inFlight[k]][i] = k

\* A call that drops its guards knows what it will publish, and publishes
\* Ready only for keys that are cached or may expire.
VerdictInv ==
    \A t \in Threads : pc[t] \in {"release", "publish"} =>
        /\ verdict[t] \in {"ready", "failed"}
        /\ verdict[t] = "ready" =>
             \A i \in guards[t] :
                 Request[t][i] \in TtlKeys \/ Cached(Request[t][i])

\* A parked call is parked on the slot of a call.
ParkedInv ==
    \A t \in Threads : pc[t] = "parked" => parkedOn[t] \in Threads

\* The inductive invariant.
IndInv ==
    /\ TypeOK
    /\ AtEntryInv
    /\ GuardInv
    /\ DistinctInv
    /\ MapInv
    /\ VerdictInv
    /\ ParkedInv
    /\ NoOrphanWaiter
    /\ ReadyMeansCached

-----------------------------------------------------------------------------
\* The key of an entry of a request is a key, by the type of Request.
LEMMA EntryKey ==
    ASSUME NEW t \in Threads, NEW i \in Entries(t)
    PROVE  Request[t][i] \in Keys
  BY ResolutionAssumption DEF Entries

\* A step of t that leaves the slots, the guards and the other calls alone
\* cannot orphan a waiter.
LEMMA WaitersKept ==
    ASSUME IndInv, NEW t \in Threads, UNCHANGED <<slot, guards>>,
           pc'[t] # "parked",
           \A u \in Threads \ {t} : /\ pc'[u] = pc[u]
                                     /\ pos'[u] = pos[u]
                                     /\ parkedOn'[u] = parkedOn[u]
    PROVE  ParkedInv' /\ NoOrphanWaiter'
<1>1. ParkedInv'
  BY DEF IndInv, ParkedInv
<1>2. ASSUME NEW u \in Threads, pc'[u] = "parked"
      PROVE  pc[u] = "parked" /\ Key(u)' = Key(u) /\ parkedOn'[u] = parkedOn[u]
  BY <1>2 DEF Key
<1>3. NoOrphanWaiter'
  BY <1>2 DEF IndInv, NoOrphanWaiter, KeysAt
<1>. QED  BY <1>1, <1>3

\* A cache hit moves on to the next entry: no slot, guard or map entry changes.
LEMMA CacheHitStep ==
    ASSUME IndInv, NEW t \in Threads, CacheHit(t)
    PROVE  IndInv'
<1>1. TypeOK'
  BY DEF IndInv, TypeOK, CacheHit, Advance
<1>2. AtEntryInv'
  BY DEF IndInv, TypeOK, AtEntryInv, AtEntry, CacheHit, Advance
<1>3. GuardInv' /\ DistinctInv' /\ MapInv'
  BY DEF IndInv, GuardInv, DistinctInv, MapInv, Oldest, CacheHit
<1>4. VerdictInv'
  BY DEF IndInv, VerdictInv, Cached, CacheHit
<1>5. ParkedInv' /\ NoOrphanWaiter'
  BY WaitersKept DEF IndInv, TypeOK, CacheHit, Advance
<1>6. ReadyMeansCached'
  BY DEF IndInv, ReadyMeansCached, Cached, CacheHit
<1>. QED  BY <1>1, <1>2, <1>3, <1>4, <1>5, <1>6 DEF IndInv

\* A miss only leads to acquire().
LEMMA CacheMissStep ==
    ASSUME IndInv, NEW t \in Threads, CacheMiss(t)
    PROVE  IndInv'
<1>1. TypeOK'
  BY DEF IndInv, TypeOK, Labels, CacheMiss, Goto
<1>2. AtEntryInv'
  BY DEF IndInv, TypeOK, AtEntryInv, AtEntry, CacheMiss, Goto
<1>3. GuardInv' /\ DistinctInv' /\ MapInv'
  BY DEF IndInv, TypeOK, GuardInv, DistinctInv, MapInv, Oldest, CacheMiss,
         Goto
<1>4. VerdictInv'
  BY DEF IndInv, TypeOK, VerdictInv, Cached, CacheMiss, Goto
<1>5. ParkedInv' /\ NoOrphanWaiter'
  BY WaitersKept DEF IndInv, TypeOK, CacheMiss, Goto
<1>6. ReadyMeansCached'
  BY DEF IndInv, TypeOK, ReadyMeansCached, Cached, CacheMiss, Goto
<1>. QED  BY <1>1, <1>2, <1>3, <1>4, <1>5, <1>6 DEF IndInv

\* A repeated pair of a union is passed over.
LEMMA SkipRepeatedStep ==
    ASSUME IndInv, NEW t \in Threads, SkipRepeated(t)
    PROVE  IndInv'
<1>1. TypeOK'
  BY DEF IndInv, TypeOK, AtEntry, Entries, SkipRepeated, Advance
<1>2. AtEntryInv'
  BY DEF IndInv, TypeOK, AtEntryInv, AtEntry, SkipRepeated, Advance
<1>3. GuardInv' /\ DistinctInv' /\ MapInv'
  BY DEF IndInv, TypeOK, GuardInv, DistinctInv, MapInv, Oldest, SkipRepeated,
         Advance
<1>4. VerdictInv'
  BY DEF IndInv, TypeOK, VerdictInv, Cached, SkipRepeated, Advance
<1>5. ParkedInv' /\ NoOrphanWaiter'
  BY WaitersKept DEF IndInv, TypeOK, SkipRepeated, Advance
<1>6. ReadyMeansCached'
  BY DEF IndInv, TypeOK, ReadyMeansCached, Cached, SkipRepeated, Advance
<1>. QED  BY <1>1, <1>2, <1>3, <1>4, <1>5, <1>6 DEF IndInv

\* The new guard is the only one for its key: the map held none, and a guard whose
\* drop is not half done is in the map.
LEMMA BecomeResolverStep ==
    ASSUME IndInv, NEW t \in Threads, BecomeResolver(t)
    PROVE  IndInv'
<1>. DEFINE k == Key(t)
<1>1. k \in Keys /\ pos[t] \in Entries(t)
  BY EntryKey DEF IndInv, AtEntryInv, AtEntry, Key, BecomeResolver
<1>2. TypeOK'
  BY <1>1 DEF IndInv, TypeOK, Labels, BecomeResolver, Goto, Advance
<1>3. AtEntryInv'
  BY DEF IndInv, TypeOK, AtEntryInv, AtEntry, BecomeResolver, Goto, Advance
<1>4. \A i \in guards[t] : Request[t][i] # k
  BY ResolutionAssumption DEF IndInv, GuardInv, BecomeResolver
<1>5. GuardInv'
  <2>1. \A u \in Threads : guards'[u] =
            IF u = t THEN guards[t] \cup {pos[t]} ELSE guards[u]
    BY DEF IndInv, TypeOK, BecomeResolver
  <2>2. /\ pc'[t] = "lookup" /\ Request[t][pos[t]] = k
        /\ \A u \in Threads \ {t} : pc'[u] = pc[u]
    BY DEF IndInv, TypeOK, BecomeResolver, Goto, Key
  <2>3. \A u \in Threads, j \in Keys :
            slot'[u][j] = IF u = t /\ j = k THEN "pending" ELSE slot[u][j]
    BY <1>1 DEF IndInv, TypeOK, BecomeResolver
  <2>4. /\ inFlight[k] \notin Threads
        /\ \A j \in Keys : inFlight'[j] = IF j = k THEN t ELSE inFlight[j]
    BY <1>1, ResolutionAssumption DEF IndInv, TypeOK, BecomeResolver
  <2>. HIDE DEF k
  <2>5. ASSUME NEW u \in Threads, NEW i \in guards'[u]
        PROVE  /\ i \in Entries(u) /\ slot'[u][Request[u][i]] = "pending"
               /\ inFlight'[Request[u][i]] = u <=> ~(pc'[u] = "publish" /\ Oldest(u, i)')
    <3>1. CASE u = t /\ i = pos[t]
      BY <1>1, <2>2, <2>3, <2>4, <3>1
    <3>2. CASE i \in guards[u]
      <4>1. /\ i \in Entries(u) /\ slot[u][Request[u][i]] = "pending"
            /\ inFlight[Request[u][i]] = u <=> ~(pc[u] = "publish" /\ Oldest(u, i))
        BY <3>2 DEF IndInv, GuardInv
      <4>2. Request[u][i] \in Keys
        BY <4>1, EntryKey
      <4>3. CASE u = t
        <5>1. Request[u][i] # k /\ pc[t] = "acquire"
          BY <1>4, <3>2, <4>3 DEF BecomeResolver
        <5>. QED  BY <2>2, <2>3, <2>4, <4>1, <4>2, <4>3, <5>1
      <4>4. CASE u # t
        <5>1. Oldest(u, i)' <=> Oldest(u, i)
          BY <2>1, <4>4 DEF Oldest
        <5>. QED  BY <2>2, <2>3, <2>4, <4>1, <4>2, <4>4, <5>1
      <4>. QED  BY <4>3, <4>4
    <3>. QED  BY <2>1, <3>1, <3>2
  <2>. QED  BY <2>5 DEF GuardInv
<1>6. DistinctInv'
  <2>1. \A u \in Threads : guards'[u] =
            IF u = t THEN guards[t] \cup {pos[t]} ELSE guards[u]
    BY DEF IndInv, TypeOK, BecomeResolver
  <2>. QED  BY <2>1, <1>4 DEF IndInv, DistinctInv, Key
<1>7. MapInv'
  <2>. SUFFICES ASSUME NEW j \in Keys, inFlight'[j] # NoThread
                PROVE  \E i \in guards'[inFlight'[j]] :
                          Request[inFlight'[j]][i] = j
    BY DEF MapInv
  <2>1. CASE j = k
    BY <1>1, <2>1 DEF IndInv, TypeOK, Key, BecomeResolver
  <2>2. CASE j # k
    BY <2>2 DEF IndInv, TypeOK, MapInv, BecomeResolver
  <2>. QED  BY <2>1, <2>2
<1>8. VerdictInv'
  BY DEF IndInv, TypeOK, VerdictInv, Cached, BecomeResolver, Goto
<1>9. ParkedInv' /\ NoOrphanWaiter'
  <2>1. ASSUME NEW u \in Threads, pc'[u] = "parked"
        PROVE  pc[u] = "parked" /\ Key(u)' = Key(u)
    BY <2>1 DEF IndInv, TypeOK, Key, BecomeResolver, Goto, Advance
  <2>2. ASSUME NEW u \in Threads, NEW j \in Keys
        PROVE  /\ slot'[u][j] = IF u = t /\ j = k THEN "pending" ELSE slot[u][j]
               /\ j \in KeysAt(u, guards[u]) => j \in KeysAt(u, guards'[u])
               /\ k \in KeysAt(t, guards'[t])
    BY <1>1 DEF IndInv, TypeOK, KeysAt, Key, BecomeResolver
  <2>3. \A u \in Threads : pc[u] = "parked" => Key(u) \in Keys
    BY EntryKey DEF IndInv, AtEntryInv, AtEntry, Key
  <2>4. ParkedInv'
    BY <2>1 DEF IndInv, ParkedInv, BecomeResolver
  <2>5. NoOrphanWaiter'
    BY <2>1, <2>2, <2>3, <2>4
       DEF IndInv, ParkedInv, NoOrphanWaiter, KeysAt, BecomeResolver
  <2>. QED  BY <2>4, <2>5
<1>10. ReadyMeansCached'
  BY DEF IndInv, TypeOK, ReadyMeansCached, Cached, BecomeResolver
<1>. QED  BY <1>2, <1>3, <1>5, <1>6, <1>7, <1>8, <1>9, <1>10 DEF IndInv

\* The slot found in the map is one its creator still holds a guard for.
LEMMA ParkStep ==
    ASSUME IndInv, NEW t \in Threads, Park(t)
    PROVE  IndInv'
<1>. DEFINE u == inFlight[Key(t)]
<1>1. Key(t) \in Keys
  BY EntryKey DEF IndInv, AtEntryInv, AtEntry, Key, Park
<1>2. u \in Threads
  BY <1>1 DEF IndInv, TypeOK, Park
<1>3. Key(t) \in KeysAt(u, guards[u]) /\ slot[u][Key(t)] = "pending"
  BY <1>1, <1>2 DEF IndInv, MapInv, GuardInv, KeysAt, Park
<1>4. TypeOK'
  BY <1>2 DEF IndInv, TypeOK, Labels, Park, Goto
<1>5. AtEntryInv'
  BY DEF IndInv, TypeOK, AtEntryInv, AtEntry, Park, Goto
<1>6. GuardInv' /\ DistinctInv' /\ MapInv'
  BY DEF IndInv, TypeOK, GuardInv, DistinctInv, MapInv, Oldest, Park, Goto
<1>7. VerdictInv'
  BY DEF IndInv, TypeOK, VerdictInv, Cached, Park, Goto
<1>8. ParkedInv'
  BY <1>2 DEF IndInv, TypeOK, ParkedInv, Park, Goto
<1>9. NoOrphanWaiter'
  <2>. SUFFICES ASSUME NEW w \in Threads, pc'[w] = "parked"
                PROVE  \/ slot[parkedOn'[w]][Key(w)] \in {"ready", "failed"}
                       \/ /\ slot[parkedOn'[w]][Key(w)] = "pending"
                          /\ Key(w) \in KeysAt(parkedOn'[w], guards[parkedOn'[w]])
    BY DEF NoOrphanWaiter, Key, KeysAt, Park
  <2>1. CASE w = t
    BY <2>1, <1>3 DEF IndInv, TypeOK, Park
  <2>2. CASE w # t
    BY <2>2 DEF IndInv, TypeOK, NoOrphanWaiter, Park, Goto
  <2>. QED  BY <2>1, <2>2
<1>10. ReadyMeansCached'
  BY DEF IndInv, ReadyMeansCached, Cached, Park
<1>. QED  BY <1>4, <1>5, <1>6, <1>7, <1>8, <1>9, <1>10 DEF IndInv

\* A woken call is no longer parked.
LEMMA WakeReadyStep ==
    ASSUME IndInv, NEW t \in Threads, WakeReady(t)
    PROVE  IndInv'
<1>1. TypeOK'
  BY DEF IndInv, TypeOK, Labels, WakeReady, Goto
<1>2. AtEntryInv'
  BY DEF IndInv, TypeOK, AtEntryInv, AtEntry, WakeReady, Goto
<1>3. GuardInv' /\ DistinctInv' /\ MapInv'
  BY DEF IndInv, TypeOK, GuardInv, DistinctInv, MapInv, Oldest, WakeReady,
         Goto
<1>4. VerdictInv'
  BY DEF IndInv, TypeOK, VerdictInv, Cached, WakeReady, Goto
<1>5. ParkedInv' /\ NoOrphanWaiter'
  BY WaitersKept DEF IndInv, TypeOK, WakeReady, Goto
<1>6. ReadyMeansCached'
  BY DEF IndInv, TypeOK, ReadyMeansCached, Cached, WakeReady, Goto
<1>. QED  BY <1>1, <1>2, <1>3, <1>4, <1>5, <1>6 DEF IndInv

\* The re-read finds the value and moves on.
LEMMA RereadHitStep ==
    ASSUME IndInv, NEW t \in Threads, RereadHit(t)
    PROVE  IndInv'
<1>1. TypeOK'
  BY DEF IndInv, TypeOK, Labels, AtEntry, Entries, Key, RereadHit, Goto,
         Advance
<1>2. AtEntryInv'
  BY DEF IndInv, TypeOK, AtEntryInv, AtEntry, RereadHit, Goto, Advance
<1>3. GuardInv' /\ DistinctInv' /\ MapInv'
  BY DEF IndInv, TypeOK, GuardInv, DistinctInv, MapInv, Oldest, RereadHit,
         Goto, Advance
<1>4. VerdictInv'
  BY DEF IndInv, TypeOK, VerdictInv, Cached, RereadHit, Goto, Advance
<1>5. ParkedInv' /\ NoOrphanWaiter'
  BY WaitersKept DEF IndInv, TypeOK, RereadHit, Goto, Advance
<1>6. ReadyMeansCached'
  BY DEF IndInv, TypeOK, ReadyMeansCached, Cached, RereadHit, Goto, Advance
<1>. QED  BY <1>1, <1>2, <1>3, <1>4, <1>5, <1>6 DEF IndInv

\* Giving up decides that the guards drop as failed.
LEMMA AbandonAskStep ==
    ASSUME IndInv, NEW t \in Threads, AbandonAsk(t)
    PROVE  IndInv'
<1>1. TypeOK'
  BY DEF IndInv, TypeOK, Labels, Refused, AbandonAsk, Goto
<1>2. AtEntryInv'
  BY DEF IndInv, TypeOK, AtEntryInv, AtEntry, Refused, AbandonAsk, Goto
<1>3. GuardInv' /\ DistinctInv' /\ MapInv'
  BY DEF IndInv, TypeOK, GuardInv, DistinctInv, MapInv, Oldest, Refused,
         AbandonAsk, Goto
<1>4. VerdictInv'
  BY DEF IndInv, TypeOK, VerdictInv, Cached, Refused, AbandonAsk, Goto
<1>5. ParkedInv' /\ NoOrphanWaiter'
  BY WaitersKept DEF IndInv, TypeOK, AbandonAsk, Goto
<1>6. ReadyMeansCached'
  BY DEF IndInv, TypeOK, ReadyMeansCached, Cached, AbandonAsk, Goto
<1>. QED  BY <1>1, <1>2, <1>3, <1>4, <1>5, <1>6 DEF IndInv

\* The union notes the failure and moves on.
LEMMA RecordFailureStep ==
    ASSUME IndInv, NEW t \in Threads, RecordFailure(t)
    PROVE  IndInv'
<1>1. TypeOK'
  BY DEF IndInv, TypeOK, Labels, AtEntry, Entries, Key, Refused,
         RecordFailure, Goto, Advance
<1>2. AtEntryInv'
  BY DEF IndInv, TypeOK, AtEntryInv, AtEntry, Refused, RecordFailure, Goto,
         Advance
<1>3. GuardInv' /\ DistinctInv' /\ MapInv'
  BY DEF IndInv, TypeOK, GuardInv, DistinctInv, MapInv, Oldest, Refused,
         RecordFailure, Goto, Advance
<1>4. VerdictInv'
  BY DEF IndInv, TypeOK, VerdictInv, Cached, Refused, RecordFailure, Goto,
         Advance
<1>5. ParkedInv' /\ NoOrphanWaiter'
  BY WaitersKept DEF IndInv, TypeOK, RecordFailure, Goto, Advance
<1>6. ReadyMeansCached'
  BY DEF IndInv, TypeOK, ReadyMeansCached, Cached, RecordFailure, Goto,
         Advance
<1>. QED  BY <1>1, <1>2, <1>3, <1>4, <1>5, <1>6 DEF IndInv

\* A call without guards has nothing to publish.
LEMMA NothingOwnedStep ==
    ASSUME IndInv, NEW t \in Threads, NothingOwned(t)
    PROVE  IndInv'
<1>1. TypeOK'
  BY DEF IndInv, TypeOK, Labels, NothingOwned, Goto
<1>2. AtEntryInv'
  BY DEF IndInv, TypeOK, AtEntryInv, AtEntry, NothingOwned, Goto
<1>3. GuardInv' /\ DistinctInv' /\ MapInv'
  BY DEF IndInv, TypeOK, GuardInv, DistinctInv, MapInv, Oldest, NothingOwned,
         Goto
<1>4. VerdictInv'
  BY DEF IndInv, TypeOK, VerdictInv, Cached, NothingOwned, Goto
<1>5. ParkedInv' /\ NoOrphanWaiter'
  BY WaitersKept DEF IndInv, TypeOK, NothingOwned, Goto
<1>6. ReadyMeansCached'
  BY DEF IndInv, TypeOK, ReadyMeansCached, Cached, NothingOwned, Goto
<1>. QED  BY <1>1, <1>2, <1>3, <1>4, <1>5, <1>6 DEF IndInv

\* The call into the provider changes only the history.
LEMMA CallProviderStep ==
    ASSUME IndInv, NEW t \in Threads, CallProvider(t)
    PROVE  IndInv'
<1>1. TypeOK'
  BY DEF IndInv, TypeOK, Labels, CallProvider, Goto
<1>2. AtEntryInv'
  BY DEF IndInv, TypeOK, AtEntryInv, AtEntry, CallProvider, Goto
<1>3. GuardInv' /\ DistinctInv' /\ MapInv'
  BY DEF IndInv, TypeOK, GuardInv, DistinctInv, MapInv, Oldest, CallProvider,
         Goto
<1>4. VerdictInv'
  BY DEF IndInv, TypeOK, VerdictInv, Cached, CallProvider, Goto
<1>5. ParkedInv' /\ NoOrphanWaiter'
  BY WaitersKept DEF IndInv, TypeOK, CallProvider, Goto
<1>6. ReadyMeansCached'
  BY DEF IndInv, TypeOK, ReadyMeansCached, Cached, CallProvider, Goto
<1>. QED  BY <1>1, <1>2, <1>3, <1>4, <1>5, <1>6 DEF IndInv

\* The put comes before any slot is published, and takes nothing out of the cache.
LEMMA ProviderReturnsStep ==
    ASSUME IndInv, NEW t \in Threads, ProviderReturns(t)
    PROVE  IndInv'
<1>1. TypeOK'
  BY DEF IndInv, TypeOK, Labels, ProviderReturns, Goto
<1>2. AtEntryInv'
  BY DEF IndInv, TypeOK, AtEntryInv, AtEntry, ProviderReturns, Goto
<1>3. GuardInv' /\ DistinctInv' /\ MapInv'
  BY DEF IndInv, TypeOK, GuardInv, DistinctInv, MapInv, Oldest,
         ProviderReturns, Goto
<1>4. VerdictInv'
  BY EntryKey DEF IndInv, TypeOK, VerdictInv, Cached, GuardInv, KeysAt,
         ProviderReturns, Goto
<1>5. ParkedInv' /\ NoOrphanWaiter'
  BY WaitersKept DEF IndInv, TypeOK, ProviderReturns, Goto
<1>6. ReadyMeansCached'
  BY DEF IndInv, TypeOK, ReadyMeansCached, Cached, ProviderReturns, Goto
<1>. QED  BY <1>1, <1>2, <1>3, <1>4, <1>5, <1>6 DEF IndInv

\* A failed batch drops its guards as failed.
LEMMA ProviderFailsStep ==
    ASSUME IndInv, NEW t \in Threads, ProviderFails(t)
    PROVE  IndInv'
<1>1. TypeOK'
  BY EntryKey DEF IndInv, TypeOK, Labels, GuardInv, KeysAt, Entries,
         ProviderFails, Goto
<1>2. AtEntryInv'
  BY DEF IndInv, TypeOK, AtEntryInv, AtEntry, ProviderFails, Goto
<1>3. GuardInv' /\ DistinctInv' /\ MapInv'
  BY DEF IndInv, TypeOK, GuardInv, DistinctInv, MapInv, Oldest,
         ProviderFails, Goto
<1>4. VerdictInv'
  BY DEF IndInv, TypeOK, VerdictInv, Cached, ProviderFails, Goto
<1>5. ParkedInv' /\ NoOrphanWaiter'
  BY WaitersKept DEF IndInv, TypeOK, ProviderFails, Goto
<1>6. ReadyMeansCached'
  BY DEF IndInv, TypeOK, ReadyMeansCached, Cached, ProviderFails, Goto
<1>. QED  BY <1>1, <1>2, <1>3, <1>4, <1>5, <1>6 DEF IndInv

\* The slot leaves the map while its guard is still held: this is the half-done drop.
LEMMA RemoveSlotStep ==
    ASSUME IndInv, NEW t \in Threads, RemoveSlot(t)
    PROVE  IndInv'
<1>. PICK i \in guards[t] :
          /\ Oldest(t, i)
          /\ inFlight' = [inFlight EXCEPT ![Request[t][i]] = NoThread]
  BY DEF RemoveSlot
<1>. DEFINE k == Request[t][i]
<1>1. k \in Keys /\ inFlight[k] = t
  BY EntryKey DEF IndInv, GuardInv, RemoveSlot
<1>2. TypeOK'
  BY DEF IndInv, TypeOK, Labels, RemoveSlot, Goto
<1>3. AtEntryInv'
  BY DEF IndInv, TypeOK, AtEntryInv, AtEntry, RemoveSlot, Goto
<1>4. GuardInv'
  <2>. SUFFICES ASSUME NEW u \in Threads, NEW j \in guards[u]
                PROVE  inFlight'[Request[u][j]] = u
                           <=> ~(pc'[u] = "publish" /\ Oldest(u, j))
    BY DEF IndInv, GuardInv, Oldest, RemoveSlot
  <2>1. CASE u = t /\ j = i
    BY <2>1, <1>1, ResolutionAssumption DEF IndInv, TypeOK, RemoveSlot, Goto
  <2>2. CASE u = t /\ j # i
    <3>1. Request[u][j] # k /\ inFlight[Request[u][j]] = u
      BY <2>2 DEF IndInv, GuardInv, DistinctInv, RemoveSlot
    <3>2. ~Oldest(u, j)
      BY <2>2 DEF IndInv, TypeOK, Oldest
    <3>. QED  BY <3>1, <3>2, <2>2, EntryKey DEF IndInv, TypeOK, GuardInv
  <2>3. CASE u # t
    <3>1. Request[u][j] \in Keys
      BY EntryKey DEF IndInv, GuardInv
    <3>2. inFlight'[Request[u][j]] = u <=> inFlight[Request[u][j]] = u
      BY <3>1, <2>3, <1>1, ResolutionAssumption DEF IndInv, TypeOK
    <3>. QED  BY <3>2, <2>3 DEF IndInv, TypeOK, GuardInv, RemoveSlot, Goto
  <2>. QED  BY <2>1, <2>2, <2>3
<1>5. DistinctInv' /\ MapInv'
  BY <1>1 DEF IndInv, TypeOK, DistinctInv, MapInv, RemoveSlot
<1>6. VerdictInv'
  BY DEF IndInv, TypeOK, VerdictInv, Cached, RemoveSlot, Goto
<1>7. ParkedInv' /\ NoOrphanWaiter'
  BY DEF IndInv, TypeOK, ParkedInv, NoOrphanWaiter, Key, KeysAt, RemoveSlot, Goto
<1>8. ReadyMeansCached'
  BY DEF IndInv, ReadyMeansCached, Cached, RemoveSlot
<1>. QED  BY <1>2, <1>3, <1>4, <1>5, <1>6, <1>7, <1>8 DEF IndInv

\* Publishing ends the drop: the guard is gone, its waiters can wake.
LEMMA PublishSlotStep ==
    ASSUME IndInv, NEW t \in Threads, PublishSlot(t)
    PROVE  IndInv'
<1>. PICK i \in guards[t] :
          /\ Oldest(t, i)
          /\ slot' = [slot EXCEPT ![t][Request[t][i]] = verdict[t]]
          /\ guards' = [guards EXCEPT ![t] = @ \ {i}]
  BY DEF PublishSlot
<1>. DEFINE k == Request[t][i]
<1>1. k \in Keys /\ verdict[t] \in {"ready", "failed"}
  BY EntryKey DEF IndInv, GuardInv, VerdictInv, PublishSlot
<1>2. TypeOK'
  BY <1>1 DEF IndInv, TypeOK, Labels, PublishSlot, Goto
<1>3. AtEntryInv'
  BY DEF IndInv, TypeOK, AtEntryInv, AtEntry, PublishSlot, Goto
<1>4. \A j \in guards[t] : j # i =>
          Request[t][j] # k /\ inFlight[Request[t][j]] = t
  BY DEF IndInv, TypeOK, GuardInv, DistinctInv, Oldest, PublishSlot
<1>5. inFlight[k] # t
  BY DEF IndInv, GuardInv, PublishSlot
<1>6. GuardInv' /\ DistinctInv'
  BY <1>1, <1>4, EntryKey
     DEF IndInv, TypeOK, GuardInv, DistinctInv, Oldest, PublishSlot, Goto
<1>7. MapInv'
  BY <1>4, <1>5 DEF IndInv, TypeOK, MapInv, PublishSlot
<1>8. VerdictInv'
  BY DEF IndInv, TypeOK, VerdictInv, Cached, PublishSlot, Goto
<1>9. ParkedInv' /\ NoOrphanWaiter'
  BY <1>1 DEF IndInv, TypeOK, ParkedInv, NoOrphanWaiter, Key, KeysAt,
              PublishSlot, Goto
<1>10. ReadyMeansCached'
  BY <1>1 DEF IndInv, TypeOK, ReadyMeansCached, VerdictInv, Cached, PublishSlot
<1>. QED  BY <1>2, <1>3, <1>6, <1>7, <1>8, <1>9, <1>10 DEF IndInv

\* A call that returns holds no guard.
LEMMA ReturnStep ==
    ASSUME IndInv, NEW t \in Threads, Return(t)
    PROVE  IndInv'
<1>1. TypeOK'
  BY DEF IndInv, TypeOK, Labels, Return, Goto
<1>2. AtEntryInv'
  BY DEF IndInv, TypeOK, AtEntryInv, AtEntry, Return, Goto
<1>3. GuardInv' /\ DistinctInv' /\ MapInv'
  BY DEF IndInv, TypeOK, GuardInv, DistinctInv, MapInv, Oldest, Return, Goto
<1>4. VerdictInv'
  BY DEF IndInv, TypeOK, VerdictInv, Cached, Return, Goto
<1>5. ParkedInv' /\ NoOrphanWaiter'
  BY WaitersKept DEF IndInv, TypeOK, Return, Goto
<1>6. ReadyMeansCached'
  BY DEF IndInv, TypeOK, ReadyMeansCached, Cached, Return, Goto
<1>. QED  BY <1>1, <1>2, <1>3, <1>4, <1>5, <1>6 DEF IndInv

\* The clock takes values only from keys with a ttl.
LEMMA ClockStep ==
    ASSUME IndInv, (\E k \in Keys : Expire(k)) \/ prune_expired
    PROVE  IndInv'
<1>1. /\ cache' \in [Keys -> {"absent", "live", "expired"}]
      /\ \A k \in Keys \ TtlKeys : cache[k] = "live" => cache'[k] = "live"
  BY DEF IndInv, TypeOK, Expire, prune_expired
<1>2. UNCHANGED <<inFlight, slot, pc, pos, guards, parkedOn, got, failed,
                  verdict, reply, calls, faults>> /\ lapsed' \in SUBSET Keys
  BY DEF IndInv, TypeOK, Expire, prune_expired
<1>3. TypeOK'
  BY <1>1, <1>2 DEF IndInv, TypeOK
<1>4. AtEntryInv' /\ DistinctInv' /\ MapInv' /\ ParkedInv'
  BY <1>2 DEF IndInv, AtEntryInv, AtEntry, DistinctInv, MapInv, ParkedInv
<1>5. GuardInv' /\ NoOrphanWaiter'
  BY <1>2 DEF IndInv, GuardInv, Oldest, NoOrphanWaiter, Key, KeysAt
<1>6. VerdictInv'
  BY <1>1, <1>2, EntryKey DEF IndInv, GuardInv, VerdictInv, Cached
<1>7. ReadyMeansCached'
  BY <1>1, <1>2 DEF IndInv, ReadyMeansCached, Cached
<1>. QED  BY <1>3, <1>4, <1>5, <1>6, <1>7 DEF IndInv

\* The invariant holds when the daemon starts: no slot, no guard, no value.
LEMMA InitInv == Init => IndInv
<1>. SUFFICES ASSUME Init PROVE IndInv
  OBVIOUS
<1>1. TypeOK
  BY DEF Init, TypeOK, Labels
<1>2. AtEntryInv /\ GuardInv /\ DistinctInv /\ MapInv
  BY DEF Init, AtEntryInv, GuardInv, DistinctInv, MapInv
<1>3. VerdictInv /\ ParkedInv /\ NoOrphanWaiter /\ ReadyMeansCached
  BY DEF Init, VerdictInv, ParkedInv, NoOrphanWaiter, ReadyMeansCached
<1>. QED  BY <1>1, <1>2, <1>3 DEF IndInv

\* Every step of the specification keeps the invariant.
LEMMA NextInv == IndInv /\ [Next]_vars => IndInv'
<1>. SUFFICES ASSUME IndInv, [Next]_vars PROVE IndInv'
  OBVIOUS
<1>1. ASSUME NEW t \in Threads, Shared(t) PROVE IndInv'
  BY <1>1, CacheHitStep, CacheMissStep, BecomeResolverStep, ParkStep,
     WakeReadyStep, RereadHitStep, NothingOwnedStep, CallProviderStep,
     ProviderReturnsStep, ProviderFailsStep, RemoveSlotStep, PublishSlotStep,
     ReturnStep DEF Shared
<1>2. ASSUME NEW t \in Threads, Step(t) PROVE IndInv'
  BY <1>1, <1>2, SkipRepeatedStep, RecordFailureStep, AbandonAskStep
     DEF Step, resolve_for_ask, resolve_union, resolve_single_cached
<1>3. CASE UNCHANGED vars
  <2>1. TypeOK' /\ AtEntryInv' /\ GuardInv' /\ DistinctInv' /\ MapInv'
    BY <1>3 DEF IndInv, vars, TypeOK, AtEntryInv, AtEntry, GuardInv, Oldest,
                DistinctInv, MapInv
  <2>2. VerdictInv' /\ ParkedInv' /\ NoOrphanWaiter' /\ ReadyMeansCached'
    BY <1>3 DEF IndInv, vars, VerdictInv, ParkedInv, NoOrphanWaiter, Key,
                KeysAt, ReadyMeansCached, Cached
  <2>. QED  BY <2>1, <2>2 DEF IndInv
<1>. QED  BY <1>2, <1>3, ClockStep DEF Next, Quiescent

-----------------------------------------------------------------------------
\* The inductive invariant holds in every reachable state.
THEOREM Invariance == Spec => []IndInv
<1>. QED  BY InitInv, NextInv, PTL DEF Spec

\* Every variable keeps its type.
THEOREM TypeCorrect == Spec => []TypeOK
<1>1. IndInv => TypeOK
  BY DEF IndInv
<1>. QED  BY <1>1, Invariance, PTL

\* However many resolutions race, no two of them are inside the provider for
\* the same (provider, locator) pair: in_flight.rs's promise that a burst of
\* concurrent misses does not become a burst of biometric prompts.
THEOREM SingleFlightHolds == Spec => []SingleFlight
<1>1. IndInv => SingleFlight
  <2>. SUFFICES ASSUME IndInv, NEW t \in Threads, NEW u \in Threads, t # u,
                       NEW k \in Fetching(t), k \in Fetching(u)
                PROVE  FALSE
    BY DEF SingleFlight
  <2>1. pc[t] = "provider" /\ k \in KeysAt(t, guards[t])
    BY DEF Fetching
  <2>2. pc[u] = "provider" /\ k \in KeysAt(u, guards[u])
    BY DEF Fetching
  <2>3. inFlight[k] = t
    BY <2>1 DEF IndInv, GuardInv, KeysAt
  <2>4. inFlight[k] = u
    BY <2>2 DEF IndInv, GuardInv, KeysAt
  <2>. QED  BY <2>3, <2>4
<1>. QED  BY <1>1, Invariance, PTL

\* No call sleeps on a slot that nobody is going to publish, although a slot
\* leaves the map before its final state is published (InFlightGuard::drop).
THEOREM NoOrphanWaiterHolds == Spec => []NoOrphanWaiter
<1>1. IndInv => NoOrphanWaiter
  BY DEF IndInv
<1>. QED  BY <1>1, Invariance, PTL

\* A Ready slot has its value in the cache, unless the value may expire: the
\* "ready but cache was empty" error of the resolvers is dead code for keys
\* without a ttl.
THEOREM ReadyMeansCachedHolds == Spec => []ReadyMeansCached
<1>1. IndInv => ReadyMeansCached
  BY DEF IndInv
<1>. QED  BY <1>1, Invariance, PTL
-----------------------------------------------------------------------------
(* Why a resolution goes wrong. *)

\* Something outside the resolvers went wrong: a provider invocation failed,
\* or a value outlived its ttl.
Blamed == faults \cup lapsed # {}

\* The value under k is there, or was there and its ttl elapsed.
HeldOrLapsed(k) == Cached(k) \/ k \in lapsed

\* Ready is never published of a key that was not cached, Failed never without
\* something outside the resolvers having gone wrong.
SlotCause(t) ==
    \A k \in Keys : /\ slot[t][k] = "ready" => HeldOrLapsed(k)
                    /\ slot[t][k] = "failed" => Blamed

\* Every way a call can turn to failure leads back to the same.
CallCause(t) ==
    /\ pc[t] = "reread" => HeldOrLapsed(Key(t))
    /\ pc[t] = "provider" => guards[t] # {}
    /\ verdict[t] = "ready" => \A i \in guards[t] : HeldOrLapsed(Request[t][i])
    /\ verdict[t] = "failed" => Blamed
    /\ pc[t] \notin {"release", "publish", "done"} => verdict[t] = "none"
    /\ reply[t] = "err" => Blamed
    /\ failed[t] # {} => Blamed

\* The invariant: every slot and every call has its cause.
CauseInv == \A t \in Threads : SlotCause(t) /\ CallCause(t)

\* Blame is never lifted, and a key that was cached stays cached or lapses.
LEMMA BlameStays ==
    ASSUME IndInv, Next
    PROVE  /\ Blamed => Blamed'
           /\ \A k \in Keys : HeldOrLapsed(k) => HeldOrLapsed(k)'
<1>1. ASSUME NEW t \in Threads, Step(t)
      PROVE  /\ faults \subseteq faults' /\ lapsed' = lapsed
             /\ \A k \in Keys : cache[k] = "live" => cache'[k] = "live"
  <2>1. CASE ProviderReturns(t)
    BY <2>1 DEF ProviderReturns
  <2>2. CASE ProviderFails(t)
    BY <2>2 DEF ProviderFails
  <2>3. CASE CacheHit(t) \/ CacheMiss(t) \/ BecomeResolver(t) \/ Park(t)
    BY <2>3 DEF CacheHit, CacheMiss, BecomeResolver, Park
  <2>4. CASE WakeReady(t) \/ RereadHit(t) \/ NothingOwned(t) \/ CallProvider(t)
    BY <2>4 DEF WakeReady, RereadHit, NothingOwned, CallProvider
  <2>5. CASE RemoveSlot(t) \/ PublishSlot(t) \/ Return(t)
    BY <2>5 DEF RemoveSlot, PublishSlot, Return
  <2>6. CASE SkipRepeated(t) \/ RecordFailure(t) \/ AbandonAsk(t)
    BY <2>6 DEF SkipRepeated, RecordFailure, AbandonAsk
  <2>. QED  BY <1>1, <2>1, <2>2, <2>3, <2>4, <2>5, <2>6
            DEF Step, resolve_for_ask, resolve_union, resolve_single_cached,
                Shared
<1>2. CASE \E t \in Threads : Step(t)
  BY <1>1, <1>2 DEF Blamed, HeldOrLapsed, Cached
<1>3. CASE \E k \in Keys : Expire(k)
  BY <1>3 DEF IndInv, TypeOK, Expire, Blamed, HeldOrLapsed, Cached
<1>4. CASE prune_expired
  BY <1>4 DEF prune_expired, Blamed, HeldOrLapsed, Cached
<1>5. CASE Quiescent
  BY <1>5 DEF Quiescent, vars, Blamed, HeldOrLapsed, Cached
<1>. QED  BY <1>2, <1>3, <1>4, <1>5 DEF Next

\* A step of t leaves the slots and the local state of every other call alone.
LEMMA OthersAlone ==
    ASSUME IndInv, NEW t \in Threads, Step(t), NEW u \in Threads, u # t
    PROVE  /\ slot'[u] = slot[u] /\ pc'[u] = pc[u] /\ pos'[u] = pos[u]
           /\ guards'[u] = guards[u] /\ got'[u] = got[u]
           /\ failed'[u] = failed[u] /\ verdict'[u] = verdict[u]
           /\ reply'[u] = reply[u]
<1>1. CASE CacheHit(t) \/ CacheMiss(t) \/ BecomeResolver(t) \/ Park(t)
  BY <1>1 DEF IndInv, TypeOK, CacheHit, CacheMiss, BecomeResolver, Park, Goto,
              Advance
<1>2. CASE WakeReady(t) \/ RereadHit(t) \/ NothingOwned(t) \/ CallProvider(t)
  BY <1>2 DEF IndInv, TypeOK, WakeReady, RereadHit, NothingOwned, CallProvider,
              Goto, Advance
<1>3. CASE ProviderReturns(t) \/ ProviderFails(t)
  BY <1>3 DEF IndInv, TypeOK, ProviderReturns, ProviderFails, Goto
<1>4. CASE RemoveSlot(t) \/ PublishSlot(t) \/ Return(t)
  BY <1>4 DEF IndInv, TypeOK, RemoveSlot, PublishSlot, Return, Goto
<1>5. CASE SkipRepeated(t) \/ RecordFailure(t) \/ AbandonAsk(t)
  BY <1>5 DEF IndInv, TypeOK, SkipRepeated, RecordFailure, AbandonAsk, Goto,
              Advance
<1>. QED  BY <1>1, <1>2, <1>3, <1>4, <1>5
          DEF Step, resolve_for_ask, resolve_union, resolve_single_cached,
              Shared

\* A call that is told of a failure, or finds the cache empty after Ready, is
\* told so for a reason.
LEMMA RefusedIsBlamed ==
    ASSUME IndInv, CauseInv, NEW t \in Threads, Refused(t)
    PROVE  Blamed
<1>1. CASE pc[t] = "parked" /\ slot[parkedOn[t]][Key(t)] = "failed"
  BY <1>1, EntryKey
     DEF IndInv, ParkedInv, AtEntryInv, AtEntry, Key, CauseInv, SlotCause
<1>2. CASE pc[t] = "reread" /\ ~Cached(Key(t))
  BY <1>2 DEF CauseInv, CallCause, HeldOrLapsed, Blamed
<1>. QED  BY <1>1, <1>2 DEF Refused

\* A step of a resolver keeps the causes of its own call.
LEMMA StepCause ==
    ASSUME IndInv, CauseInv, NEW t \in Threads, Step(t)
    PROVE  SlotCause(t)' /\ CallCause(t)'
<1>0. /\ Blamed => Blamed'
      /\ \A k \in Keys : HeldOrLapsed(k) => HeldOrLapsed(k)'
  BY BlameStays DEF Next
<1>1. SlotCause(t) /\ CallCause(t)
  BY DEF CauseInv
<1>2. \A i \in guards[t] : Request[t][i] \in Keys
  BY EntryKey DEF IndInv, GuardInv
<1>3. CASE CacheHit(t) \/ SkipRepeated(t) \/ CacheMiss(t)
  <2>1. /\ UNCHANGED <<slot, guards, verdict, reply, failed>>
        /\ pc'[t] \in {"lookup", "acquire"} /\ pc[t] = "lookup"
    BY <1>3 DEF IndInv, TypeOK, CacheHit, SkipRepeated, CacheMiss, Goto
  <2>. QED  BY <2>1, <1>0, <1>1, <1>2 DEF SlotCause, CallCause
<1>4. CASE BecomeResolver(t)
  <2>1. Key(t) \in Keys
    BY <1>4, EntryKey
       DEF IndInv, AtEntryInv, AtEntry, Key, BecomeResolver
  <2>2. /\ UNCHANGED <<verdict, reply, failed>>
        /\ pc'[t] = "lookup" /\ pc[t] = "acquire"
        /\ \A k \in Keys : slot'[t][k] = IF k = Key(t) THEN "pending"
                                                      ELSE slot[t][k]
    BY <1>4, <2>1 DEF IndInv, TypeOK, BecomeResolver, Goto
  <2>. QED  BY <2>2, <1>0, <1>1 DEF SlotCause, CallCause
<1>5. CASE Park(t)
  <2>1. /\ UNCHANGED <<slot, guards, verdict, reply, failed>>
        /\ pc'[t] = "parked" /\ pc[t] = "acquire"
    BY <1>5 DEF IndInv, TypeOK, Park, Goto
  <2>. QED  BY <2>1, <1>0, <1>1, <1>2 DEF SlotCause, CallCause
<1>6. CASE WakeReady(t)
  <2>1. /\ UNCHANGED <<slot, guards, verdict, reply, failed, cache, lapsed, pos>>
        /\ pc'[t] = "reread" /\ pc[t] = "parked"
    BY <1>6 DEF IndInv, TypeOK, WakeReady, Goto
  <2>2. HeldOrLapsed(Key(t))
    BY <1>6, EntryKey DEF IndInv, ParkedInv, AtEntryInv, AtEntry, Key, CauseInv,
                          SlotCause, WakeReady
  <2>3. HeldOrLapsed(Key(t))'
    BY <2>1, <2>2 DEF HeldOrLapsed, Cached, Key
  <2>. QED  BY <2>1, <2>3, <1>0, <1>1, <1>2 DEF SlotCause, CallCause
<1>7. CASE RereadHit(t)
  <2>1. /\ UNCHANGED <<slot, guards, verdict, reply, failed>>
        /\ pc'[t] = "lookup" /\ pc[t] = "reread"
    BY <1>7 DEF IndInv, TypeOK, RereadHit, Goto
  <2>. QED  BY <2>1, <1>0, <1>1, <1>2 DEF SlotCause, CallCause
<1>8. CASE AbandonAsk(t) \/ RecordFailure(t)
  <2>1. Blamed
    BY <1>8, RefusedIsBlamed DEF AbandonAsk, RecordFailure
  <2>2. /\ UNCHANGED <<slot, guards, reply>> /\ pc[t] \in {"parked", "reread"}
        /\ \/ pc'[t] = "release" /\ verdict'[t] = "failed"
           \/ pc'[t] = "lookup" /\ verdict' = verdict
    BY <1>8 DEF IndInv, TypeOK, AbandonAsk, RecordFailure, Refused, Goto
  <2>. QED  BY <2>1, <2>2, <1>0, <1>1, <1>2 DEF SlotCause, CallCause
<1>9. CASE NothingOwned(t)
  <2>1. /\ UNCHANGED <<slot, guards, reply, failed>> /\ guards[t] = {}
        /\ pc'[t] = "release" /\ verdict'[t] = "ready"
    BY <1>9 DEF IndInv, TypeOK, NothingOwned, Goto
  <2>. QED  BY <2>1, <1>0, <1>1 DEF SlotCause, CallCause
<1>10. CASE CallProvider(t)
  <2>1. /\ UNCHANGED <<slot, guards, verdict, reply, failed>>
        /\ pc'[t] = "provider" /\ pc[t] = "lookup" /\ guards[t] # {}
    BY <1>10 DEF IndInv, TypeOK, CallProvider, Goto
  <2>. QED  BY <2>1, <1>0, <1>1, <1>2 DEF SlotCause, CallCause
<1>11. CASE ProviderReturns(t)
  <2>1. /\ UNCHANGED <<slot, guards, reply, failed>>
        /\ pc'[t] = "release" /\ verdict'[t] = "ready"
    BY <1>11 DEF IndInv, TypeOK, ProviderReturns, Goto
  <2>2. \A i \in guards[t] : HeldOrLapsed(Request[t][i])'
    BY <1>11, <1>2 DEF ProviderReturns, HeldOrLapsed, Cached, KeysAt
  <2>. QED  BY <2>1, <2>2, <1>0, <1>1 DEF SlotCause, CallCause
<1>12. CASE ProviderFails(t)
  <2>1. /\ UNCHANGED <<slot, guards, reply>>
        /\ pc'[t] = "release" /\ verdict'[t] = "failed" /\ pc[t] = "provider"
    BY <1>12 DEF IndInv, TypeOK, ProviderFails, Goto
  <2>2. Blamed'
    BY <1>12, <1>1 DEF ProviderFails, CallCause, Blamed, KeysAt
  <2>. QED  BY <2>1, <2>2, <1>0, <1>1 DEF SlotCause, CallCause
<1>13. CASE RemoveSlot(t)
  <2>1. /\ UNCHANGED <<slot, guards, verdict, reply, failed>>
        /\ pc'[t] = "publish" /\ pc[t] = "release"
    BY <1>13 DEF IndInv, TypeOK, RemoveSlot, Goto
  <2>. QED  BY <2>1, <1>0, <1>1, <1>2 DEF SlotCause, CallCause
<1>14. CASE PublishSlot(t)
  <2>1. PICK i \in guards[t] :
            /\ slot' = [slot EXCEPT ![t][Request[t][i]] = verdict[t]]
            /\ guards' = [guards EXCEPT ![t] = @ \ {i}]
    BY <1>14 DEF PublishSlot
  <2>2. /\ UNCHANGED <<verdict, reply, failed>>
        /\ pc'[t] = "release" /\ pc[t] = "publish"
        /\ guards'[t] \subseteq guards[t]
        /\ \A k \in Keys : slot'[t][k] = IF k = Request[t][i] THEN verdict[t]
                                                            ELSE slot[t][k]
    BY <1>14, <2>1, <1>2 DEF IndInv, TypeOK, PublishSlot, Goto
  <2>. QED  BY <2>2, <1>0, <1>1, <1>2 DEF SlotCause, CallCause
<1>15. CASE Return(t)
  <2>1. /\ UNCHANGED <<slot, guards, verdict, failed>> /\ guards[t] = {}
        /\ pc'[t] = "done" /\ pc[t] = "release"
        /\ reply'[t] = "err" => verdict[t] # "ready"
    BY <1>15 DEF IndInv, TypeOK, Return, Goto
  <2>2. verdict[t] \in {"ready", "failed"}
    BY <2>1 DEF IndInv, VerdictInv
  <2>. QED  BY <2>1, <2>2, <1>0, <1>1 DEF SlotCause, CallCause
<1>. QED  BY <1>3, <1>4, <1>5, <1>6, <1>7, <1>8, <1>9, <1>10, <1>11, <1>12,
             <1>13, <1>14, <1>15
          DEF Step, resolve_for_ask, resolve_union, resolve_single_cached,
              Shared

\* Every step keeps the causes.
LEMMA CauseKept == IndInv /\ CauseInv /\ [Next]_vars => CauseInv'
<1>. SUFFICES ASSUME IndInv, CauseInv, [Next]_vars PROVE CauseInv'
  OBVIOUS
<1>1. \A u \in Threads : \A i \in guards[u] : Request[u][i] \in Keys
  BY EntryKey DEF IndInv, GuardInv
<1>2. \A u \in Threads : pc[u] = "reread" => Key(u) \in Keys
  BY EntryKey DEF IndInv, AtEntryInv, AtEntry, Key
<1>3. ASSUME Next, NEW u \in Threads,
             slot'[u] = slot[u], pc'[u] = pc[u], Key(u)' = Key(u),
             guards'[u] = guards[u], failed'[u] = failed[u],
             verdict'[u] = verdict[u], reply'[u] = reply[u]
      PROVE  SlotCause(u)' /\ CallCause(u)'
  <2>1. /\ Blamed => Blamed'
        /\ \A k \in Keys : HeldOrLapsed(k) => HeldOrLapsed(k)'
    BY <1>3, BlameStays
  <2>2. SlotCause(u) /\ CallCause(u)
    BY DEF CauseInv
  <2>3. SlotCause(u)'
    BY <1>3, <2>1, <2>2 DEF SlotCause
  <2>4. pc[u] = "reread" => HeldOrLapsed(Key(u))'
    <3>1. CASE pc[u] = "reread"
      <4>1. HeldOrLapsed(Key(u)) /\ Key(u) \in Keys
        BY <3>1, <2>2, <1>2 DEF CallCause
      <4>2. \A k \in Keys : HeldOrLapsed(k) =>
                cache'[k] = "live" \/ k \in lapsed'
        BY <2>1 DEF HeldOrLapsed, Cached
      <4>. QED  BY <4>1, <4>2, <1>3 DEF HeldOrLapsed, Cached
    <3>. QED  BY <3>1
  <2>5. CallCause(u)'
    BY <1>3, <1>1, <2>1, <2>2, <2>4 DEF CallCause
  <2>. QED  BY <2>3, <2>5
<1>4. ASSUME NEW t \in Threads, Step(t) PROVE CauseInv'
  <2>1. ASSUME NEW u \in Threads, u # t PROVE SlotCause(u)' /\ CallCause(u)'
    <3>1. Next
      BY <1>4 DEF Next
    <3>2. Key(u)' = Key(u)
      BY <1>4, <2>1, OthersAlone DEF Key
    <3>. QED  BY <1>3, <1>4, <2>1, <3>1, <3>2, OthersAlone
  <2>. QED  BY <1>4, <2>1, StepCause DEF CauseInv
<1>5. CASE (\E k \in Keys : Expire(k)) \/ prune_expired \/ Quiescent
  <2>1. UNCHANGED <<slot, pc, pos, guards, failed, verdict, reply>> /\ Next
    BY <1>5 DEF Expire, prune_expired, Quiescent, vars, Next
  <2>2. \A u \in Threads : Key(u)' = Key(u)
    BY <2>1 DEF Key
  <2>. QED  BY <2>1, <2>2, <1>3 DEF CauseInv
<1>6. CASE UNCHANGED vars
  BY <1>6 DEF vars, CauseInv, SlotCause, CallCause, HeldOrLapsed, Cached,
              Blamed, Key
<1>. QED  BY <1>4, <1>5, <1>6 DEF Next

\* The causes hold in every reachable state.
THEOREM CauseInvariance == Spec => []CauseInv
<1>1. Init => CauseInv
  BY DEF Init, CauseInv, SlotCause, CallCause
<1>. QED  BY <1>1, Invariance, CauseKept, PTL DEF Spec

\* Racing alone never costs a caller its secrets: an ask that gets an error and
\* a union that reports one for a pair do so only after some provider
\* invocation failed or some value outlived its ttl.
THEOREM FailureHasCauseHolds == Spec => []FailureHasCause
<1>1. CauseInv => FailureHasCause
  BY DEF CauseInv, CallCause, FailureHasCause, Blamed
<1>. QED  BY <1>1, CauseInvariance, PTL

-----------------------------------------------------------------------------
(* What a call has done with the entries behind its loop. *)

\* The call is still in its loop, or in the batch that follows it.
Looping(t) == pc[t] \in {"lookup", "acquire", "parked", "reread", "provider"}

\* The entries behind the loop of t.
Behind(t) == 1..(pos[t] - 1)

\* Two sets of entries of t name no key in common.
Apart(t, S, T) == \A i \in S, j \in T : Request[t][i] # Request[t][j]

\* S names every key that T names.
Covers(t, S, T) == \A j \in T : \E i \in S : Request[t][i] = Request[t][j]

\* An ask has a value or a guard for exactly the entries behind its loop, and
\* a value for all of them once it drops its guards as ready.
AskOutcome(t) ==
    /\ Looping(t) => got[t] \cup guards[t] = Behind(t)
    /\ ~Looping(t) /\ verdict[t] = "ready" => got[t] = Entries(t)
    /\ reply[t] = "ok" => verdict[t] = "ready"

\* A union has for every key behind its loop one outcome, or a guard that will
\* bring one.
UnionOutcome(t) ==
    /\ Apart(t, got[t], failed[t])
    /\ Looping(t) =>
         /\ Apart(t, got[t] \cup failed[t], guards[t])
         /\ got[t] \cup failed[t] \cup guards[t] \subseteq Behind(t)
         /\ Covers(t, got[t] \cup failed[t] \cup guards[t], Behind(t))
    /\ ~Looping(t) =>
         /\ got[t] \cup failed[t] \subseteq Entries(t)
         /\ Covers(t, got[t] \cup failed[t], Entries(t))

\* The loop visits the entries in order and the batch comes after the last; a
\* call has a reply only when it is done; a repeated pair is never acquired.
LoopPlace(t) ==
    /\ pos[t] <= Len(Request[t]) + 1
    /\ pc[t] = "provider" => pos[t] = Len(Request[t]) + 1
    /\ reply[t] # "none" => pc[t] = "done"
    /\ pc[t] \in {"acquire", "parked", "reread"} => ~Repeated(t)

\* What a call of either kind has accounted for so far.
Progress(t) ==
    /\ LoopPlace(t)
    /\ Kind[t] # "union" => AskOutcome(t)
    /\ Kind[t] = "union" => UnionOutcome(t)

\* The invariant: so has every call.
ProgressInv == \A t \in Threads : Progress(t)

\* Moving past an entry puts that entry, and nothing else, behind the loop.
LEMMA BehindGrows ==
    ASSUME IndInv, NEW t \in Threads, AtEntry(t),
           pos'[t] = pos[t] + 1
    PROVE  /\ Behind(t)' = Behind(t) \cup {pos[t]}
           /\ pos[t] \notin Behind(t)
           /\ pos'[t] <= Len(Request[t]) + 1
  BY DEF IndInv, TypeOK, AtEntry, Entries, Behind

\* Past the last entry, every entry is behind the loop.
LEMMA BehindAll ==
    ASSUME IndInv, NEW t \in Threads, LoopPlace(t), ~AtEntry(t)
    PROVE  Behind(t) = Entries(t) /\ pos[t] = Len(Request[t]) + 1
<1>1. Len(Request[t]) \in Nat /\ pos[t] \in Nat \ {0}
  BY ResolutionAssumption DEF IndInv, TypeOK
<1>. QED  BY <1>1 DEF LoopPlace, AtEntry, Entries, Behind

\* The key of an entry that is not a repetition is not behind the loop of a
\* union.
LEMMA FreshKey ==
    ASSUME NEW t \in Threads, Kind[t] = "union", ~Repeated(t)
    PROVE  \A j \in Behind(t) : Request[t][j] # Request[t][pos[t]]
  BY DEF Repeated, Behind, Key

\* A value, or a guard, for the entry the loop is at.
LEMMA EntryDone ==
    ASSUME IndInv, NEW t \in Threads, Progress(t), Looping(t), AtEntry(t),
           pc[t] # "provider", ~Repeated(t),
           pos'[t] = pos[t] + 1, pc'[t] = "lookup", reply' = reply,
           \/ /\ got'[t] = got[t] \cup {pos[t]}
              /\ UNCHANGED <<guards, failed>>
           \/ /\ guards'[t] = guards[t] \cup {pos[t]}
              /\ UNCHANGED <<got, failed>>
           \/ /\ failed'[t] = failed[t] \cup {pos[t]}
              /\ Kind[t] = "union"
              /\ UNCHANGED <<got, guards>>
    PROVE  Progress(t)'
<1>1. /\ Behind(t)' = Behind(t) \cup {pos[t]}
      /\ pos'[t] <= Len(Request[t]) + 1
  BY BehindGrows DEF Progress
<1>2. LoopPlace(t)' /\ Looping(t)'
  BY <1>1 DEF Progress, LoopPlace, Looping
<1>3. reply[t] = "none"
  BY DEF Progress, LoopPlace, Looping
<1>4. CASE Kind[t] # "union"
  <2>1. got'[t] \cup guards'[t] = Behind(t)'
    BY <1>1, <1>4 DEF Progress, AskOutcome
  <2>. QED  BY <2>1, <1>2, <1>3, <1>4 DEF Progress, AskOutcome
<1>5. CASE Kind[t] = "union"
  <2>1. \A j \in Behind(t) : Request[t][j] # Request[t][pos[t]]
    BY <1>5, FreshKey
  <2>2. UnionOutcome(t)
    BY <1>5 DEF Progress
  <2>3. Apart(t, got'[t], failed'[t])
    BY <2>1, <2>2 DEF UnionOutcome, Apart
  <2>4. Apart(t, got'[t] \cup failed'[t], guards'[t])
    BY <2>1, <2>2 DEF UnionOutcome, Apart
  <2>5. got'[t] \cup failed'[t] \cup guards'[t] \subseteq Behind(t)'
    BY <1>1, <2>2 DEF UnionOutcome
  <2>6. Covers(t, got'[t] \cup failed'[t] \cup guards'[t], Behind(t)')
    BY <1>1, <2>2 DEF UnionOutcome, Covers
  <2>. QED  BY <2>3, <2>4, <2>5, <2>6, <1>2, <1>5
            DEF Progress, UnionOutcome, Apart, Covers
<1>. QED  BY <1>4, <1>5

\* Between two labels of the loop nothing is lost.
LEMMA StillLooping ==
    ASSUME NEW t \in Threads, Progress(t), Looping(t), Looping(t)',
           pc'[t] # "provider", ~Repeated(t), UNCHANGED <<pos, got, failed,
           guards, verdict, reply>>
    PROVE  Progress(t)'
<1>1. LoopPlace(t)'
  BY DEF Progress, LoopPlace, Looping, Repeated, Key
<1>2. Kind[t] # "union" => AskOutcome(t)'
  BY DEF Progress, AskOutcome, Behind, Entries
<1>3. Kind[t] = "union" => UnionOutcome(t)'
  BY DEF Progress, UnionOutcome, Behind, Entries, Apart, Covers
<1>. QED  BY <1>1, <1>2, <1>3 DEF Progress

\* The steps of the loop over the entries.
LEMMA LoopStep ==
    ASSUME IndInv, NEW t \in Threads, Progress(t),
           \/ CacheHit(t) \/ CacheMiss(t) \/ BecomeResolver(t) \/ Park(t)
           \/ WakeReady(t) \/ RereadHit(t)
           \/ Kind[t] = "union" /\ (SkipRepeated(t) \/ RecordFailure(t))
    PROVE  Progress(t)'
<1>1. CASE CacheMiss(t)
  <2>1. /\ pc[t] = "lookup" /\ pc'[t] = "acquire" /\ ~Repeated(t)
        /\ UNCHANGED <<pos, got, failed, guards, verdict, reply>>
    BY <1>1 DEF IndInv, TypeOK, CacheMiss, Goto
  <2>. QED  BY <2>1, StillLooping DEF Looping
<1>2. CASE Park(t) \/ WakeReady(t)
  <2>1. /\ pc[t] \in {"acquire", "parked"} /\ pc'[t] \in {"parked", "reread"}
        /\ UNCHANGED <<pos, got, failed, guards, verdict, reply>>
    BY <1>2 DEF IndInv, TypeOK, Park, WakeReady, Goto
  <2>2. ~Repeated(t)
    BY <2>1 DEF Progress, LoopPlace
  <2>. QED  BY <2>1, <2>2, StillLooping DEF Looping
<1>3. CASE CacheHit(t)
  <2>1. /\ pc[t] = "lookup" /\ pc'[t] = "lookup" /\ AtEntry(t) /\ ~Repeated(t)
        /\ pos'[t] = pos[t] + 1 /\ got'[t] = got[t] \cup {pos[t]}
        /\ UNCHANGED <<guards, failed, reply>>
    BY <1>3 DEF IndInv, TypeOK, CacheHit, Advance
  <2>. QED  BY <2>1, EntryDone DEF Looping
<1>4. CASE BecomeResolver(t)
  <2>1. /\ pc[t] = "acquire" /\ pc'[t] = "lookup"
        /\ pos'[t] = pos[t] + 1 /\ guards'[t] = guards[t] \cup {pos[t]}
        /\ UNCHANGED <<got, failed, reply>>
    BY <1>4 DEF IndInv, TypeOK, BecomeResolver, Advance, Goto
  <2>2. AtEntry(t) /\ ~Repeated(t)
    BY <2>1 DEF IndInv, AtEntryInv, Progress, LoopPlace
  <2>. QED  BY <2>1, <2>2, EntryDone DEF Looping
<1>5. CASE RereadHit(t)
  <2>1. /\ pc[t] = "reread" /\ pc'[t] = "lookup"
        /\ pos'[t] = pos[t] + 1 /\ got'[t] = got[t] \cup {pos[t]}
        /\ UNCHANGED <<guards, failed, reply>>
    BY <1>5 DEF IndInv, TypeOK, RereadHit, Advance, Goto
  <2>2. AtEntry(t) /\ ~Repeated(t)
    BY <2>1 DEF IndInv, AtEntryInv, Progress, LoopPlace
  <2>. QED  BY <2>1, <2>2, EntryDone DEF Looping
<1>6. CASE Kind[t] = "union" /\ RecordFailure(t)
  <2>1. /\ pc[t] \in {"parked", "reread"} /\ pc'[t] = "lookup"
        /\ pos'[t] = pos[t] + 1 /\ failed'[t] = failed[t] \cup {pos[t]}
        /\ UNCHANGED <<guards, got, reply>>
    BY <1>6 DEF IndInv, TypeOK, RecordFailure, Refused, Advance, Goto
  <2>2. AtEntry(t) /\ ~Repeated(t)
    BY <2>1 DEF IndInv, AtEntryInv, Progress, LoopPlace
  <2>. QED  BY <1>6, <2>1, <2>2, EntryDone DEF Looping
<1>7. CASE Kind[t] = "union" /\ SkipRepeated(t)
  <2>1. /\ pc[t] = "lookup" /\ AtEntry(t) /\ pos'[t] = pos[t] + 1
        /\ UNCHANGED <<pc, got, failed, guards, reply, verdict>>
    BY <1>7 DEF IndInv, TypeOK, SkipRepeated, Advance
  <2>2. Behind(t)' = Behind(t) \cup {pos[t]} /\ pos'[t] <= Len(Request[t]) + 1
    BY <2>1, BehindGrows
  <2>3. \E j \in Behind(t) : Request[t][j] = Request[t][pos[t]]
    BY <1>7 DEF SkipRepeated, Repeated, Behind, Key
  <2>4. UnionOutcome(t) /\ Looping(t) /\ Looping(t)'
    BY <1>7, <2>1 DEF Progress, Looping
  <2>5. Covers(t, got[t] \cup failed[t] \cup guards[t], Behind(t)')
    BY <2>2, <2>3, <2>4 DEF UnionOutcome, Covers
  <2>6. UnionOutcome(t)'
    BY <2>1, <2>2, <2>4, <2>5 DEF UnionOutcome, Apart, Covers
  <2>7. LoopPlace(t)'
    BY <2>1, <2>2 DEF Progress, LoopPlace
  <2>. QED  BY <1>7, <2>6, <2>7 DEF Progress
<1>. QED  BY <1>1, <1>2, <1>3, <1>4, <1>5, <1>6, <1>7

\* What a call leaves its loop, or its batch, with.
LEMMA LoopEnds ==
    ASSUME NEW t \in Threads, LoopPlace(t), Looping(t), reply[t] = "none",
           pc'[t] = "release", UNCHANGED <<pos, reply>>,
           Kind[t] # "union" /\ verdict'[t] = "ready" => got'[t] = Entries(t),
           Kind[t] = "union" =>
             /\ Apart(t, got'[t], failed'[t])
             /\ got'[t] \cup failed'[t] \subseteq Entries(t)
             /\ Covers(t, got'[t] \cup failed'[t], Entries(t))
    PROVE  Progress(t)'
<1>1. LoopPlace(t)' /\ ~Looping(t)'
  BY DEF LoopPlace, Looping
<1>2. Kind[t] # "union" => AskOutcome(t)'
  BY <1>1 DEF AskOutcome, Entries
<1>3. Kind[t] = "union" => UnionOutcome(t)'
  BY <1>1 DEF UnionOutcome, Apart, Covers, Entries
<1>. QED  BY <1>1, <1>2, <1>3 DEF Progress

\* The steps that end the loop, and the batch.
LEMMA BatchStep ==
    ASSUME IndInv, NEW t \in Threads, Progress(t),
           \/ NothingOwned(t) \/ CallProvider(t) \/ ProviderReturns(t)
           \/ ProviderFails(t)
           \/ Kind[t] # "union" /\ AbandonAsk(t)
    PROVE  Progress(t)'
<1>1. pc[t] \in {"lookup", "parked", "reread", "provider"}
  BY DEF NothingOwned, CallProvider, ProviderReturns, ProviderFails, AbandonAsk,
         Refused
<1>2. LoopPlace(t) /\ Looping(t) /\ reply[t] = "none"
  BY <1>1 DEF Progress, LoopPlace, Looping
<1>3. ASSUME ~AbandonAsk(t)
      PROVE  Behind(t) = Entries(t) /\ pos[t] = Len(Request[t]) + 1
  <2>1. CASE pc[t] = "provider"
    BY <2>1, <1>2 DEF LoopPlace, Behind, Entries
  <2>2. CASE pc[t] # "provider"
    <3>1. ~AtEntry(t)
      BY <1>3, <2>2 DEF NothingOwned, CallProvider, ProviderReturns,
                        ProviderFails
    <3>. QED  BY <3>1, <1>2, BehindAll
  <2>. QED  BY <2>1, <2>2
<1>4. CASE CallProvider(t)
  <2>1. /\ pc[t] = "lookup" /\ pc'[t] = "provider" /\ ~AtEntry(t)
        /\ UNCHANGED <<pos, got, failed, guards, verdict, reply>>
    BY <1>4 DEF IndInv, TypeOK, CallProvider, Goto
  <2>2. pos[t] = Len(Request[t]) + 1
    BY <2>1, <1>2, BehindAll
  <2>3. LoopPlace(t)' /\ Looping(t)'
    BY <2>1, <2>2, <1>2 DEF LoopPlace, Looping
  <2>4. Kind[t] # "union" => AskOutcome(t)'
    BY <2>1, <2>3, <1>2 DEF Progress, AskOutcome, Behind
  <2>5. Kind[t] = "union" => UnionOutcome(t)'
    BY <2>1, <2>3, <1>2 DEF Progress, UnionOutcome, Behind, Apart, Covers
  <2>. QED  BY <2>3, <2>4, <2>5 DEF Progress
<1>5. CASE NothingOwned(t)
  <2>1. /\ pc[t] = "lookup" /\ pc'[t] = "release" /\ ~AtEntry(t)
        /\ guards[t] = {} /\ UNCHANGED <<pos, got, failed, guards, reply>>
    BY <1>5 DEF IndInv, TypeOK, NothingOwned, Goto
  <2>2. Behind(t) = Entries(t)
    BY <2>1, <1>2, BehindAll
  <2>3. Kind[t] # "union" => got[t] = Entries(t)
    BY <2>1, <2>2, <1>2 DEF Progress, AskOutcome
  <2>4. Kind[t] = "union" =>
          /\ Apart(t, got[t], failed[t])
          /\ got[t] \cup failed[t] \subseteq Entries(t)
          /\ Covers(t, got[t] \cup failed[t], Entries(t))
    BY <2>1, <2>2, <1>2 DEF Progress, UnionOutcome, Covers
  <2>. QED  BY <2>1, <2>3, <2>4, <1>2, LoopEnds
<1>6. CASE ProviderReturns(t)
  <2>1. /\ pc[t] = "provider" /\ pc'[t] = "release"
        /\ got'[t] = got[t] \cup guards[t]
        /\ UNCHANGED <<pos, failed, guards, reply>>
    BY <1>6 DEF IndInv, TypeOK, ProviderReturns, Goto
  <2>2. Behind(t) = Entries(t)
    BY <2>1, <1>2 DEF LoopPlace, Behind, Entries
  <2>3. Kind[t] # "union" => got'[t] = Entries(t)
    BY <2>1, <2>2, <1>2 DEF Progress, AskOutcome
  <2>4. Kind[t] = "union" =>
          /\ Apart(t, got'[t], failed'[t])
          /\ got'[t] \cup failed'[t] \subseteq Entries(t)
          /\ Covers(t, got'[t] \cup failed'[t], Entries(t))
    BY <2>1, <2>2, <1>2 DEF Progress, UnionOutcome, Apart, Covers
  <2>. QED  BY <2>1, <2>3, <2>4, <1>2, LoopEnds
<1>7. CASE ProviderFails(t)
  <2>1. /\ pc[t] = "provider" /\ pc'[t] = "release" /\ verdict'[t] = "failed"
        /\ Kind[t] = "union" => failed'[t] = failed[t] \cup guards[t]
        /\ UNCHANGED <<pos, got, guards, reply>>
    BY <1>7 DEF IndInv, TypeOK, ProviderFails, Goto
  <2>2. Behind(t) = Entries(t)
    BY <2>1, <1>2 DEF LoopPlace, Behind, Entries
  <2>3. Kind[t] = "union" =>
          /\ Apart(t, got'[t], failed'[t])
          /\ got'[t] \cup failed'[t] \subseteq Entries(t)
          /\ Covers(t, got'[t] \cup failed'[t], Entries(t))
    BY <2>1, <2>2, <1>2 DEF Progress, UnionOutcome, Apart, Covers
  <2>. QED  BY <2>1, <2>3, <1>2, LoopEnds
<1>8. CASE Kind[t] # "union" /\ AbandonAsk(t)
  <2>1. /\ pc'[t] = "release" /\ verdict'[t] = "failed"
        /\ UNCHANGED <<pos, reply>>
    BY <1>8 DEF IndInv, TypeOK, AbandonAsk, Goto
  <2>. QED  BY <1>8, <2>1, <1>2, LoopEnds
<1>. QED  BY <1>4, <1>5, <1>6, <1>7, <1>8

\* Dropping the guards and returning change no outcome.
LEMMA ReleaseStep ==
    ASSUME IndInv, NEW t \in Threads, Progress(t),
           RemoveSlot(t) \/ PublishSlot(t) \/ Return(t)
    PROVE  Progress(t)'
<1>1. /\ pc[t] \in {"release", "publish"}
      /\ pc'[t] \in {"release", "publish", "done"}
      /\ UNCHANGED <<pos, got, failed, verdict>>
      /\ \/ reply' = reply
         \/ /\ pc'[t] = "done"
            /\ Kind[t] # "union" /\ reply'[t] = "ok" => verdict[t] = "ready"
  BY DEF IndInv, TypeOK, RemoveSlot, PublishSlot, Return, Goto
<1>2. LoopPlace(t)' /\ ~Looping(t)' /\ ~Looping(t)
  BY <1>1 DEF Progress, LoopPlace, Looping
<1>3. Kind[t] # "union" => AskOutcome(t)'
  BY <1>1, <1>2 DEF Progress, AskOutcome, Entries
<1>4. Kind[t] = "union" => UnionOutcome(t)'
  BY <1>1, <1>2 DEF Progress, UnionOutcome, Entries, Apart, Covers
<1>. QED  BY <1>2, <1>3, <1>4 DEF Progress

\* Every step keeps the progress of every call.
LEMMA ProgressKept == IndInv /\ ProgressInv /\ [Next]_vars => ProgressInv'
<1>. SUFFICES ASSUME IndInv, ProgressInv, [Next]_vars PROVE ProgressInv'
  OBVIOUS
<1>1. ASSUME NEW u \in Threads, pc'[u] = pc[u], pos'[u] = pos[u],
             guards'[u] = guards[u], got'[u] = got[u], failed'[u] = failed[u],
             verdict'[u] = verdict[u], reply'[u] = reply[u]
      PROVE  Progress(u)'
  <2>1. Progress(u)
    BY DEF ProgressInv
  <2>2. LoopPlace(u)'
    BY <1>1, <2>1 DEF Progress, LoopPlace, Repeated, Key
  <2>3. Kind[u] # "union" => AskOutcome(u)'
    BY <1>1, <2>1 DEF Progress, AskOutcome, Looping, Behind, Entries
  <2>4. Kind[u] = "union" => UnionOutcome(u)'
    BY <1>1, <2>1 DEF Progress, UnionOutcome, Looping, Behind, Entries, Apart,
                      Covers
  <2>. QED  BY <2>2, <2>3, <2>4 DEF Progress
<1>2. ASSUME NEW t \in Threads, Step(t) PROVE ProgressInv'
  <2>1. Progress(t)'
    BY <1>2, LoopStep, BatchStep, ReleaseStep
       DEF ProgressInv, Step, resolve_for_ask, resolve_union,
           resolve_single_cached, Shared
  <2>2. \A u \in Threads : u # t => Progress(u)'
    BY <1>1, <1>2, OthersAlone
  <2>. QED  BY <2>1, <2>2 DEF ProgressInv
<1>3. CASE \/ (\E k \in Keys : Expire(k)) \/ prune_expired \/ Quiescent
           \/ UNCHANGED vars
  <2>1. UNCHANGED <<pc, pos, guards, got, failed, verdict, reply>>
    BY <1>3 DEF Expire, prune_expired, Quiescent, vars
  <2>. QED  BY <2>1, <1>1 DEF ProgressInv
<1>. QED  BY <1>2, <1>3 DEF Next

\* Every call accounts for the entries behind its loop, in every reachable
\* state.
THEOREM ProgressInvariance == Spec => []ProgressInv
<1>1. Init => ProgressInv
  <2>. SUFFICES ASSUME Init, NEW t \in Threads PROVE Progress(t)
    BY DEF ProgressInv
  <2>1. /\ pc[t] = "lookup" /\ pos[t] = 1 /\ guards[t] = {} /\ got[t] = {}
        /\ failed[t] = {} /\ verdict[t] = "none" /\ reply[t] = "none"
    BY DEF Init
  <2>2. Behind(t) = {} /\ Looping(t)
    BY <2>1 DEF Behind, Looping
  <2>3. LoopPlace(t)
    BY <2>1, ResolutionAssumption DEF LoopPlace
  <2>. QED  BY <2>1, <2>2, <2>3
            DEF Progress, AskOutcome, UnionOutcome, Apart, Covers
<1>. QED  BY <1>1, Invariance, ProgressKept, PTL DEF Spec

\* No entry is lost between the cache, the waiters and the batch: an answered
\* ask has a value for each of its entries, and a union that returns has for
\* each distinct pair a value or an error, never both.
THEOREM RepliesAreCompleteHolds == Spec => []RepliesAreComplete
<1>1. IndInv /\ ProgressInv => RepliesAreComplete
  <2>. SUFFICES ASSUME IndInv, ProgressInv, NEW t \in Threads, reply[t] = "ok"
                PROVE  IF Kind[t] = "union"
                       THEN /\ KeysAt(t, got[t] \cup failed[t])
                                 = KeysAt(t, Entries(t))
                            /\ KeysAt(t, got[t]) \cap KeysAt(t, failed[t]) = {}
                       ELSE got[t] = Entries(t)
    BY DEF RepliesAreComplete
  <2>1. Progress(t) /\ ~Looping(t)
    BY DEF ProgressInv, Progress, LoopPlace, Looping
  <2>2. CASE Kind[t] = "union"
    <3>1. UnionOutcome(t)
      BY <2>1, <2>2 DEF Progress
    <3>2. KeysAt(t, got[t]) \cap KeysAt(t, failed[t]) = {}
      BY <3>1 DEF UnionOutcome, Apart, KeysAt
    <3>3. KeysAt(t, got[t] \cup failed[t]) = KeysAt(t, Entries(t))
      BY <3>1, <2>1 DEF UnionOutcome, Covers, KeysAt
    <3>. QED  BY <3>2, <3>3, <2>2
  <2>3. CASE Kind[t] # "union"
    BY <2>1, <2>3 DEF Progress, AskOutcome
  <2>. QED  BY <2>2, <2>3
<1>. QED  BY <1>1, Invariance, ProgressInvariance, PTL

-----------------------------------------------------------------------------
(* The scoped agent.                                                       *)

\* What the thread of a connection is doing, and with what.
GuestState ==
    [at : {"gone"}]
    \cup [at : {"backlog", "idle"}, agent : Agents]
    \cup [at : {"request", "consent", "once", "session"}, agent : Agents, ref : Refs]
    \cup [at : {"resolve"}, agent : Agents, ref : Refs, how : {"cached", "asked"}]

\* The state of every variable is of its type.
TypeInv ==
    /\ agent \in [Agents -> {"closed", "opening", "live"}]
    /\ path \in Agents \cup {None}
    /\ elapsed \in Nat /\ wall \in Nat /\ setBack \in Nat
    /\ grants \in [Agents -> [Refs -> Nat]]
    /\ approvedAt \in [Agents -> [Refs -> Nat]]
    /\ backAt \in [Agents -> [Refs -> Nat]]
    /\ approved \in [Agents -> SUBSET Refs]
    /\ prompts \subseteq [key : Agents \X Refs, agent : Agents, shows : Refs]
    /\ guest \in [Guests -> GuestState]

\* A prompt is filed under what it shows: whoever shares it asked for that.
PromptInv == \A p \in prompts : p.key = DedupeKey(p.agent, p.shows)

\* A connection that was given an answer, and one that resolves, has a
\* reference that was shown and approved.
AnswerInv ==
    \A g \in Guests : guest[g].at \in {"once", "session", "resolve"} =>
        guest[g].ref \in approved[guest[g].agent]

\* So has every grant in an agent's memory.
GrantInv ==
    \A a \in Agents, r \in Refs : grants[a][r] # 0 => r \in approved[a]

\* What ReleasedWasShown rests on.
ShownInv == TypeInv /\ PromptInv /\ AnswerInv /\ GrantInv

\* A stamp runs ahead of its approval by Ttl and by what the wall clock was
\* ahead of real time then; it is less ahead now only by what it was set back.
StampInv ==
    \A a \in Agents, r \in Refs : grants[a][r] # 0 =>
        grants[a][r] + elapsed + backAt[a][r]
            <= approvedAt[a][r] + Ttl + wall + setBack

-----------------------------------------------------------------------------
\* Nothing is remembered, asked or served at the start.
LEMMA ScopedInitial == ScopedInit => ShownInv /\ StampInv
<1>. SUFFICES ASSUME ScopedInit PROVE ShownInv /\ StampInv
  OBVIOUS
<1>1. TypeInv
  BY DEF ScopedInit, TypeInv, GuestState, Gone
<1>2. PromptInv /\ AnswerInv /\ GrantInv /\ StampInv
  BY DEF ScopedInit, PromptInv, AnswerInv, GrantInv, StampInv, Gone
<1>. QED  BY <1>1, <1>2 DEF ShownInv

\* What a step of a connection that forgets grants but stamps none has to show.
LEMMA GuestMoves ==
    ASSUME ShownInv, NEW g \in Guests, NEW state \in GuestState, Become(g, state),
           state.at \in {"once", "session", "resolve"} =>
               state.ref \in approved[state.agent],
           UNCHANGED <<agentVars, clockVars, historyVars, approved>>,
           grants' \in [Agents -> [Refs -> Nat]],
           \A a \in Agents, r \in Refs : grants'[a][r] \in {grants[a][r], 0},
           prompts' \subseteq [key : Agents \X Refs, agent : Agents, shows : Refs],
           \A p \in prompts' : p.key = DedupeKey(p.agent, p.shows)
    PROVE  ShownInv'
<1>1. TypeInv'
  BY DEF ShownInv, TypeInv, Become, agentVars, clockVars, historyVars
<1>2. AnswerInv'
  BY DEF ShownInv, TypeInv, AnswerInv, Become
<1>3. PromptInv' /\ GrantInv'
  BY DEF ShownInv, PromptInv, GrantInv
<1>. QED  BY <1>1, <1>2, <1>3 DEF ShownInv

\* Pruning forgets grants and invents none.
LEMMA PruneForgets ==
    ASSUME TypeInv, NEW b \in Agents
    PROVE  /\ prune(b) \in [Agents -> [Refs -> Nat]]
           /\ \A a \in Agents, r \in Refs : prune(b)[a][r] \in {grants[a][r], 0}
<1>1. \A r \in Refs : grants[b][r] \in Nat
  BY DEF TypeInv
<1>2. prune(b)[b] = [r \in Refs |-> IF matches(b, r) THEN grants[b][r] ELSE 0]
  BY DEF TypeInv, prune
<1>3. prune(b)[b] \in [Refs -> Nat]
  BY <1>1, <1>2
<1>4. \A a \in Agents \ {b} : prune(b)[a] = grants[a]
  BY DEF TypeInv, prune
<1>5. prune(b) \in [Agents -> [Refs -> Nat]]
  BY <1>3, <1>4 DEF TypeInv, prune
<1>6. \A r \in Refs : prune(b)[b][r] \in {grants[b][r], 0}
  BY <1>2
<1>. QED  BY <1>4, <1>5, <1>6

\* A thread that is somewhere is the thread of a connection to some agent.
LEMMA GuestOf ==
    ASSUME TypeInv, NEW g \in Guests
    PROVE  /\ guest[g] # Gone => guest[g].at # "gone" /\ guest[g].agent \in Agents
           /\ guest[g].at \in {"request", "consent", "once", "session", "resolve"} =>
                 guest[g].agent \in Agents /\ guest[g].ref \in Refs
           /\ guest[g].at \in {"request", "consent", "once", "session"} =>
                 guest[g] \in [at : {"request", "consent", "once", "session"},
                               agent : Agents, ref : Refs]
  BY DEF TypeInv, GuestState, Gone

\* Dialling, being served, sending a request, being refused, being answered and
\* being closed change no grant, no prompt and no approval.
LEMMA QuietGuestSteps ==
    ASSUME ShownInv, NEW g \in Guests,
           \/ connect(g) \/ serve_on(g) \/ IdleTimeout(g) \/ OutOfScope(g)
           \/ resolve_fresh(g) \/ \E r \in Refs : read_message(g, r)
    PROVE  ShownInv'
<1>1. UNCHANGED <<agentVars, clockVars, grantVars, prompts, approved>>
  BY DEF connect, serve_on, IdleTimeout, OutOfScope, resolve_fresh, read_message
<1>2. /\ grants' = grants /\ UNCHANGED historyVars
      /\ grants \in [Agents -> [Refs -> Nat]]
      /\ prompts' \subseteq [key : Agents \X Refs, agent : Agents, shows : Refs]
      /\ \A p \in prompts' : p.key = DedupeKey(p.agent, p.shows)
  BY <1>1 DEF ShownInv, TypeInv, PromptInv, grantVars
<1>3. \E state \in GuestState :
          /\ Become(g, state)
          /\ state.at \notin {"once", "session", "resolve"}
  <2>1. CASE connect(g)
    <3>1. path \in Agents
      BY <2>1 DEF connect, Connectable, ShownInv, TypeInv
    <3>2. [at |-> "backlog", agent |-> path] \in GuestState
      BY <3>1 DEF GuestState
    <3>. QED  BY <2>1, <3>2 DEF connect
  <2>2. CASE serve_on(g) \/ OutOfScope(g) \/ resolve_fresh(g)
    <3>1. guest[g].agent \in Agents /\ Become(g, Idle(g))
      BY <2>2, GuestOf DEF serve_on, OutOfScope, resolve_fresh, ShownInv
    <3>2. Idle(g) \in GuestState /\ Idle(g).at = "idle"
      BY <3>1 DEF GuestState, Idle
    <3>. QED  BY <3>1, <3>2
  <2>3. CASE IdleTimeout(g)
    <3>1. Gone \in GuestState /\ Gone.at = "gone"
      BY DEF GuestState, Gone
    <3>. QED  BY <2>3, <3>1 DEF IdleTimeout
  <2>4. ASSUME NEW r \in Refs, read_message(g, r)
        PROVE  \E state \in GuestState :
                  /\ Become(g, state)
                  /\ state.at \notin {"once", "session", "resolve"}
    <3>1. guest[g].agent \in Agents
      BY <2>4, GuestOf DEF read_message, ShownInv
    <3>2. [at |-> "request", agent |-> guest[g].agent, ref |-> r] \in GuestState
      BY <3>1 DEF GuestState
    <3>. QED  BY <2>4, <3>2 DEF read_message
  <2>. QED  BY <2>1, <2>2, <2>3, <2>4
<1>. QED  BY <1>1, <1>2, <1>3, GuestMoves

\* A live grant was approved.
LEMMA GrantedStep ==
    ASSUME ShownInv, NEW g \in Guests, granted(g)
    PROVE  ShownInv'
<1>. DEFINE a == guest[g].agent
            r == guest[g].ref
<1>1. a \in Agents /\ r \in Refs
  BY GuestOf DEF granted, ShownInv
<1>2. grants[a][r] # 0
  BY <1>1 DEF granted, matches, ShownInv, TypeInv
<1>3. r \in approved[a]
  BY <1>1, <1>2 DEF ShownInv, GrantInv
<1>4. /\ Resolving(g, "cached") \in GuestState
      /\ Resolving(g, "cached").ref = r /\ Resolving(g, "cached").agent = a
  BY <1>1 DEF GuestState, Resolving
<1>5. /\ grants' \in [Agents -> [Refs -> Nat]]
      /\ \A b \in Agents, q \in Refs : grants'[b][q] \in {grants[b][q], 0}
  BY <1>1, PruneForgets DEF granted, ShownInv
<1>6. /\ prompts' \subseteq [key : Agents \X Refs, agent : Agents, shows : Refs]
      /\ \A p \in prompts' : p.key = DedupeKey(p.agent, p.shows)
      /\ UNCHANGED <<agentVars, clockVars, historyVars, approved>>
  BY DEF granted, ShownInv, TypeInv, PromptInv
<1>. QED  BY <1>3, <1>4, <1>5, <1>6, GuestMoves DEF granted

\* The prompt that is added shows the reference it is filed under.
LEMMA ConsentStep ==
    ASSUME ShownInv, NEW g \in Guests, consent(g)
    PROVE  ShownInv'
<1>. DEFINE a == guest[g].agent
            r == guest[g].ref
            shown == [key |-> DedupeKey(a, r), agent |-> a, shows |-> r]
            state == [guest[g] EXCEPT !.at = "consent"]
<1>1. /\ a \in Agents /\ r \in Refs
      /\ guest[g] \in [at : {"request", "consent", "once", "session"},
                       agent : Agents, ref : Refs]
  BY GuestOf DEF consent, ShownInv
<1>2. state \in GuestState /\ state.at = "consent"
  BY <1>1 DEF GuestState
<1>3. /\ grants' \in [Agents -> [Refs -> Nat]]
      /\ \A b \in Agents, q \in Refs : grants'[b][q] \in {grants[b][q], 0}
  BY <1>1, PruneForgets DEF consent, ShownInv
<1>4. prompts' \subseteq prompts \cup {shown}
  BY DEF consent
<1>5. /\ shown \in [key : Agents \X Refs, agent : Agents, shows : Refs]
      /\ shown.key = DedupeKey(shown.agent, shown.shows)
  BY <1>1 DEF DedupeKey
<1>6. /\ prompts' \subseteq [key : Agents \X Refs, agent : Agents, shows : Refs]
      /\ \A p \in prompts' : p.key = DedupeKey(p.agent, p.shows)
  BY <1>4, <1>5 DEF ShownInv, TypeInv, PromptInv
<1>7. Become(g, state) /\ UNCHANGED <<agentVars, clockVars, historyVars, approved>>
  BY DEF consent
<1>. HIDE DEF state
<1>. QED  BY <1>2, <1>3, <1>6, <1>7, GuestMoves

\* A failed ask releases nothing.
LEMMA ConsentFailsStep ==
    ASSUME ShownInv, NEW g \in Guests, ConsentFails(g)
    PROVE  ShownInv'
<1>1. guest[g].agent \in Agents
  BY GuestOf DEF ConsentFails, ShownInv
<1>2. Idle(g) \in GuestState /\ Idle(g).at = "idle"
  BY <1>1 DEF GuestState, Idle
<1>3. /\ prompts' \subseteq [key : Agents \X Refs, agent : Agents, shows : Refs]
      /\ \A p \in prompts' : p.key = DedupeKey(p.agent, p.shows)
      /\ UNCHANGED <<agentVars, clockVars, grants, historyVars, approved>>
      /\ grants \in [Agents -> [Refs -> Nat]]
  BY DEF ConsentFails, ShownInv, TypeInv, PromptInv, grantVars
<1>. QED  BY <1>2, <1>3, GuestMoves DEF ConsentFails

\* What was answered goes on to be resolved, and a session's answer into the
\* agent's memory.
LEMMA AnsweredSteps ==
    ASSUME ShownInv, NEW g \in Guests, ApproveOnce(g) \/ remember(g)
    PROVE  ShownInv'
<1>. DEFINE a == guest[g].agent
            r == guest[g].ref
            state == Resolving(g, "asked")
<1>1. a \in Agents /\ r \in Refs /\ r \in approved[a]
  BY GuestOf DEF ApproveOnce, remember, ShownInv, AnswerInv
<1>2. state \in GuestState /\ state.ref = r /\ state.agent = a
  BY <1>1 DEF GuestState, Resolving
<1>3. UNCHANGED <<agentVars, clockVars, prompts, approved>> /\ Become(g, state)
  BY DEF ApproveOnce, remember
<1>4. /\ grants' \in [Agents -> [Refs -> Nat]]
      /\ approvedAt' \in [Agents -> [Refs -> Nat]]
      /\ backAt' \in [Agents -> [Refs -> Nat]]
      /\ \A b \in Agents, q \in Refs :
            grants'[b][q] = grants[b][q] \/ (b = a /\ q = r)
  <2>1. CASE ApproveOnce(g)
    BY <2>1 DEF ApproveOnce, grantVars, historyVars, ShownInv, TypeInv
  <2>2. CASE remember(g)
    <3>1. /\ grants' = [grants EXCEPT ![a][r] = wall + Ttl] /\ wall + Ttl \in Nat
          /\ approvedAt' = [approvedAt EXCEPT ![a][r] = elapsed] /\ elapsed \in Nat
          /\ backAt' = [backAt EXCEPT ![a][r] = setBack] /\ setBack \in Nat
      BY <2>2, ScopedAssumption DEF remember, ShownInv, TypeInv
    <3>. HIDE DEF a, r
    <3>. QED  BY <1>1, <3>1 DEF ShownInv, TypeInv
  <2>. QED  BY <2>1, <2>2
<1>. HIDE DEF state, a, r
<1>5. TypeInv'
  BY <1>2, <1>3, <1>4 DEF ShownInv, TypeInv, Become, agentVars, clockVars
<1>6. AnswerInv'
  BY <1>1, <1>2, <1>3 DEF ShownInv, TypeInv, AnswerInv, Become
<1>7. GrantInv' /\ PromptInv'
  BY <1>1, <1>3, <1>4 DEF ShownInv, GrantInv, PromptInv
<1>. QED  BY <1>5, <1>6, <1>7 DEF ShownInv

\* Whoever hears the decision on a prompt asked for what the prompt showed.
LEMMA DecideStep ==
    ASSUME ShownInv, NEW p \in prompts, NEW d \in {"once", "session", "deny"},
           Decide(p, d)
    PROVE  ShownInv'
<1>1. /\ p.agent \in Agents /\ p.shows \in Refs
      /\ p.key = <<p.agent, p.shows>>
  BY DEF ShownInv, TypeInv, PromptInv, DedupeKey
<1>2. ASSUME NEW g \in ParkedOn(p)
      PROVE  /\ g \in Guests /\ guest[g].agent = p.agent /\ guest[g].ref = p.shows
             /\ guest[g] \in [at : {"request", "consent", "once", "session"},
                              agent : Agents, ref : Refs]
  BY <1>1, <1>2, GuestOf DEF ParkedOn, DedupeKey, ShownInv
<1>3. ASSUME NEW g \in Guests
      PROVE  /\ g \notin ParkedOn(p) => guest'[g] = guest[g]
             /\ g \in ParkedOn(p) /\ d = "deny" => guest'[g] = Idle(g)
             /\ g \in ParkedOn(p) /\ d # "deny" =>
                    guest'[g] = [guest[g] EXCEPT !.at = d]
  BY DEF Decide
<1>4. \A a \in Agents : approved[a] \subseteq approved'[a] /\ approved'[a] \subseteq Refs
  BY <1>1 DEF Decide, ShownInv, TypeInv
<1>5. d # "deny" => p.shows \in approved'[p.agent]
  BY <1>1 DEF Decide, ShownInv, TypeInv
<1>6. ASSUME NEW g \in Guests
      PROVE  /\ guest'[g] \in GuestState
             /\ guest'[g].at \in {"once", "session", "resolve"} =>
                    guest'[g].ref \in approved'[guest'[g].agent]
  <2>1. CASE g \notin ParkedOn(p)
    <3>1. guest'[g] = guest[g] /\ guest[g] \in GuestState
      BY <1>3, <2>1 DEF ShownInv, TypeInv
    <3>2. guest[g].at \in {"once", "session", "resolve"} =>
             guest[g].agent \in Agents /\ guest[g].ref \in approved[guest[g].agent]
      BY GuestOf DEF ShownInv, AnswerInv
    <3>. QED  BY <1>4, <3>1, <3>2
  <2>2. CASE g \in ParkedOn(p) /\ d = "deny"
    <3>1. guest[g].agent \in Agents
      BY <1>2, <2>2
    <3>2. Idle(g) \in GuestState /\ Idle(g).at = "idle"
      BY <3>1 DEF Idle, GuestState
    <3>. QED  BY <1>3, <2>2, <3>2
  <2>3. CASE g \in ParkedOn(p) /\ d # "deny"
    <3>. DEFINE state == [guest[g] EXCEPT !.at = d]
    <3>1. /\ state \in GuestState /\ state.agent = p.agent /\ state.ref = p.shows
      BY <1>2, <2>3 DEF GuestState
    <3>. QED  BY <1>3, <1>5, <2>3, <3>1
  <2>. QED  BY <2>1, <2>2, <2>3
<1>7. approved' \in [Agents -> SUBSET Refs] /\ guest' \in [Guests -> GuestState]
  <2>1. guest' = [g \in Guests |-> guest'[g]]
    BY DEF Decide
  <2>2. approved' \in [Agents -> SUBSET Refs]
    BY <1>1 DEF Decide, ShownInv, TypeInv
  <2>. QED  BY <1>6, <2>1, <2>2
<1>8. TypeInv'
  BY <1>7 DEF ShownInv, TypeInv, Decide, agentVars, clockVars, grantVars, historyVars
<1>9. AnswerInv'
  BY <1>6 DEF AnswerInv
<1>10. GrantInv' /\ PromptInv'
  BY <1>4 DEF ShownInv, GrantInv, PromptInv, Decide, grantVars
<1>. QED  BY <1>8, <1>9, <1>10 DEF ShownInv

\* With the process go its grants, its prompts and its connections: nothing of
\* it is left for the next agent on the path.
LEMMA EndStep ==
    ASSUME ShownInv, NEW a \in Agents, End(a), path' \in {path, None}
    PROVE  ShownInv'
<1>1. /\ grants'[a] = [r \in Refs |-> 0]
      /\ \A b \in Agents \ {a} : grants'[b] = grants[b] /\ approved'[b] = approved[b]
      /\ grants' \in [Agents -> [Refs -> Nat]]
      /\ approvedAt' \in [Agents -> [Refs -> Nat]]
      /\ backAt' \in [Agents -> [Refs -> Nat]]
      /\ approved' \in [Agents -> SUBSET Refs]
  BY DEF End, GrantsGone, ShownInv, TypeInv
<1>2. ASSUME NEW g \in Guests
      PROVE  /\ guest'[g] \in GuestState
             /\ guest'[g].at \in {"once", "session", "resolve"} =>
                    /\ guest'[g] = guest[g]
                    /\ guest[g].agent \in Agents \ {a}
  <2>1. CASE guest[g] # Gone /\ guest[g].agent = a
    BY <2>1 DEF End, Gone, GuestState
  <2>2. CASE ~(guest[g] # Gone /\ guest[g].agent = a)
    <3>1. guest'[g] = guest[g] /\ guest[g] \in GuestState
      BY <2>2 DEF End, ShownInv, TypeInv
    <3>. QED  BY <2>2, <3>1, GuestOf DEF ShownInv, Gone
  <2>. QED  BY <2>1, <2>2
<1>3. guest' \in [Guests -> GuestState]
  <2>1. guest' = [g \in Guests |-> guest'[g]]
    BY DEF End
  <2>. QED  BY <1>2, <2>1
<1>4. TypeInv'
  BY <1>1, <1>3 DEF ShownInv, TypeInv, End, clockVars
<1>5. AnswerInv'
  BY <1>1, <1>2 DEF ShownInv, AnswerInv
<1>6. GrantInv'
  BY <1>1 DEF ShownInv, GrantInv
<1>7. PromptInv'
  BY DEF ShownInv, PromptInv, End
<1>. QED  BY <1>4, <1>5, <1>6, <1>7 DEF ShownInv

\* Opening a socket and the passing of time touch no grant, prompt or guest.
LEMMA OutsideSteps ==
    ASSUME ShownInv,
           \/ \E a \in Agents : clear_stale_socket(a) \/ bind_private(a)
           \/ Tick \/ StepClock
    PROVE  ShownInv'
<1>1. UNCHANGED <<grantVars, prompts, approved, guest>>
  BY DEF clear_stale_socket, bind_private, Tick, StepClock
<1>2. /\ agent' \in [Agents -> {"closed", "opening", "live"}]
      /\ path' \in Agents \cup {None}
      /\ elapsed' \in Nat /\ wall' \in Nat /\ setBack' \in Nat
  <2>1. CASE \E a \in Agents : clear_stale_socket(a) \/ bind_private(a)
    BY <2>1 DEF clear_stale_socket, bind_private, clockVars, ShownInv, TypeInv
  <2>2. CASE Tick
    BY <2>2 DEF Tick, agentVars, ShownInv, TypeInv
  <2>3. CASE StepClock
    BY <2>3, ScopedAssumption DEF StepClock, agentVars, ShownInv, TypeInv
  <2>. QED  BY <2>1, <2>2, <2>3
<1>. QED  BY <1>1, <1>2
             DEF ShownInv, TypeInv, PromptInv, AnswerInv, GrantInv, grantVars, historyVars

\* Every step of the system keeps what ReleasedWasShown rests on.
LEMMA NextShown == ShownInv /\ [ScopedNext]_scopedvars => ShownInv'
<1>. SUFFICES ASSUME ShownInv, [ScopedNext]_scopedvars PROVE ShownInv'
  OBVIOUS
<1>1. CASE \E a \in Agents : install_signal_cleanup(a) \/ Kill(a)
  BY <1>1, EndStep DEF install_signal_cleanup, Kill
<1>2. CASE \/ \E a \in Agents : clear_stale_socket(a) \/ bind_private(a)
           \/ Tick \/ StepClock
  BY <1>2, OutsideSteps
<1>3. CASE \E g \in Guests : \/ connect(g) \/ serve_on(g) \/ IdleTimeout(g)
                             \/ Thread(g) \/ ConsentFails(g)
                             \/ \E r \in Refs : read_message(g, r)
  BY <1>3, QuietGuestSteps, GrantedStep, ConsentStep, AnsweredSteps,
     ConsentFailsStep DEF Thread
<1>4. CASE \E p \in prompts, d \in {"once", "session", "deny"} : Decide(p, d)
  BY <1>4, DecideStep
<1>5. CASE UNCHANGED scopedvars
  BY <1>5 DEF scopedvars, agentVars, clockVars, grantVars, historyVars, ShownInv, TypeInv,
              PromptInv, AnswerInv, GrantInv
<1>. QED  BY <1>1, <1>2, <1>3, <1>4, <1>5 DEF ScopedNext

\* Prompts are filed under what they show, and every answer and grant in flight
\* was approved, in every behaviour.
THEOREM ScopedInvariance == ScopedSpec => []ShownInv
<1>. QED  BY ScopedInitial, NextShown, PTL DEF ScopedSpec

\* Every reference about to be released was shown by a prompt of this very agent
\* process and approved, however prompts and grants are shared.
THEOREM ReleasedWasShownHolds == ScopedSpec => []ReleasedWasShown
<1>1. ShownInv => ReleasedWasShown
  BY DEF ShownInv, AnswerInv, ReleasedWasShown
<1>. QED  BY <1>1, ScopedInvariance, PTL

-----------------------------------------------------------------------------
(* Grants and the clocks *)

\* A step that leaves the clocks alone and stamps no grant.
LEMMA StampsKept ==
    ASSUME StampInv, UNCHANGED clockVars,
           \A a \in Agents, r \in Refs :
              \/ grants'[a][r] = 0
              \/ /\ grants'[a][r] = grants[a][r]
                 /\ approvedAt'[a][r] = approvedAt[a][r]
                 /\ backAt'[a][r] = backAt[a][r]
    PROVE  StampInv'
  BY DEF StampInv, clockVars

\* Every step keeps the stamps in step with their approvals.
LEMMA NextStamp ==
    ASSUME ShownInv, StampInv, [ScopedNext]_scopedvars
    PROVE  StampInv'
<1>1. CASE UNCHANGED <<grantVars, clockVars>>
  BY <1>1 DEF StampInv, grantVars, historyVars, clockVars
<1>2. CASE \E a \in Agents : End(a)
  <2>1. PICK a \in Agents : End(a)
    BY <1>2
  <2>2. /\ \A b \in Agents \ {a} : /\ grants'[b] = grants[b]
                                    /\ approvedAt'[b] = approvedAt[b]
                                    /\ backAt'[b] = backAt[b]
        /\ \A r \in Refs : grants'[a][r] = 0
    BY <2>1 DEF End, GrantsGone, ShownInv, TypeInv
  <2>. QED  BY <2>1, <2>2, StampsKept DEF End
<1>3. CASE Tick
  BY <1>3, ScopedAssumption DEF Tick, grantVars, historyVars, StampInv, ShownInv, TypeInv
<1>4. CASE StepClock
  <2>1. /\ UNCHANGED <<elapsed, grants, approvedAt, backAt>>
        /\ \/ wall' = wall + 1 /\ setBack' = setBack
           \/ wall' = wall - 1 /\ setBack' = setBack + 1
    BY <1>4 DEF StepClock, grantVars, historyVars
  <2>. QED  BY <2>1, ScopedAssumption DEF StampInv, ShownInv, TypeInv
<1>5. CASE \E g \in Guests : granted(g) \/ consent(g)
  <2>1. PICK g \in Guests : granted(g) \/ consent(g)
    BY <1>5
  <2>2. guest[g].agent \in Agents
    BY <2>1, GuestOf DEF granted, consent, ShownInv
  <2>3. \A a \in Agents, r \in Refs : grants'[a][r] \in {grants[a][r], 0}
    BY <2>1, <2>2, PruneForgets DEF granted, consent, ShownInv
  <2>4. UNCHANGED <<approvedAt, backAt, clockVars>>
    BY <2>1 DEF granted, consent, historyVars
  <2>. QED  BY <2>3, <2>4, StampsKept
<1>6. CASE \E g \in Guests : remember(g)
  <2>1. PICK g \in Guests : remember(g)
    BY <1>6
  <2>. DEFINE a == guest[g].agent
              r == guest[g].ref
  <2>2. a \in Agents /\ r \in Refs
    BY <2>1, GuestOf DEF remember, ShownInv
  <2>3. /\ grants' = [grants EXCEPT ![a][r] = wall + Ttl]
        /\ approvedAt' = [approvedAt EXCEPT ![a][r] = elapsed]
        /\ backAt' = [backAt EXCEPT ![a][r] = setBack]
        /\ UNCHANGED <<elapsed, wall, setBack>>
    BY <2>1 DEF remember, clockVars
  <2>. HIDE DEF a, r
  <2>4. /\ grants'[a][r] = wall + Ttl /\ approvedAt'[a][r] = elapsed
        /\ backAt'[a][r] = setBack
    BY <2>2, <2>3 DEF ShownInv, TypeInv
  <2>5. \A b \in Agents, q \in Refs :
           \/ b = a /\ q = r
           \/ /\ grants'[b][q] = grants[b][q]
              /\ approvedAt'[b][q] = approvedAt[b][q]
              /\ backAt'[b][q] = backAt[b][q]
    BY <2>2, <2>3 DEF ShownInv, TypeInv
  <2>6. wall \in Nat /\ elapsed \in Nat /\ Ttl \in Nat /\ setBack \in Nat
    BY ScopedAssumption DEF ShownInv, TypeInv
  <2>. QED  BY <2>2, <2>3, <2>4, <2>5, <2>6 DEF StampInv
<1>7. ASSUME \/ \E a \in Agents : clear_stale_socket(a) \/ bind_private(a)
             \/ \E g \in Guests : \/ connect(g) \/ serve_on(g) \/ IdleTimeout(g)
                                  \/ OutOfScope(g) \/ ApproveOnce(g)
                                  \/ resolve_fresh(g) \/ ConsentFails(g)
                                  \/ \E r \in Refs : read_message(g, r)
             \/ \E p \in prompts, d \in {"once", "session", "deny"} : Decide(p, d)
             \/ UNCHANGED scopedvars
      PROVE  UNCHANGED <<grantVars, clockVars>>
  BY <1>7 DEF clear_stale_socket, bind_private, connect, serve_on, IdleTimeout,
              OutOfScope, ApproveOnce, resolve_fresh, ConsentFails, read_message,
              Decide, scopedvars
<1>. QED  BY <1>1, <1>2, <1>3, <1>4, <1>5, <1>6, <1>7
             DEF ScopedNext, Thread, install_signal_cleanup, Kill

\* A release without a prompt comes less than Ttl of real time after the approval
\* it rests on, but for what the wall clock has been set back since.
THEOREM SilentReleaseIsRecentHolds == ScopedSpec => SilentReleaseIsRecent
<1>. DEFINE Recent == \A g \in Guests :
         LET a == guest[g].agent
             r == guest[g].ref
         IN  granted(g) => elapsed < approvedAt[a][r] + Ttl + SetBackSince(a, r)
<1>1. ShownInv /\ StampInv => Recent
  <2>. SUFFICES ASSUME ShownInv, StampInv, NEW g \in Guests, granted(g)
                PROVE  LET a == guest[g].agent
                           r == guest[g].ref
                       IN  elapsed < approvedAt[a][r] + Ttl + SetBackSince(a, r)
    OBVIOUS
  <2>. DEFINE a == guest[g].agent
              r == guest[g].ref
  <2>1. a \in Agents /\ r \in Refs /\ wall < grants[a][r]
    BY GuestOf DEF granted, matches, ShownInv
  <2>. HIDE DEF a, r
  <2>2. /\ grants[a][r] \in Nat /\ approvedAt[a][r] \in Nat /\ Ttl \in Nat
        /\ backAt[a][r] \in Nat /\ setBack \in Nat
        /\ wall \in Nat /\ elapsed \in Nat
    BY <2>1, ScopedAssumption DEF ShownInv, TypeInv
  <2>3. grants[a][r] + elapsed + backAt[a][r]
            <= approvedAt[a][r] + Ttl + wall + setBack
    BY <2>1, <2>2 DEF StampInv
  <2>4. elapsed < approvedAt[a][r] + Ttl + SetBackSince(a, r)
    BY <2>1, <2>2, <2>3 DEF SetBackSince
  <2>. QED  BY <2>4 DEF a, r
<1>2. ShownInv /\ StampInv /\ [ScopedNext]_scopedvars => StampInv'
  BY NextStamp
<1>3. ScopedSpec => [](ShownInv /\ StampInv)
  BY <1>2, ScopedInitial, NextShown, PTL DEF ScopedSpec
<1>. QED  BY <1>1, <1>3, PTL DEF SilentReleaseIsRecent
=============================================================================
