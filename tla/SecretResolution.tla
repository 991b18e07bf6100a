-------------------------- MODULE SecretResolution --------------------------
(***************************************************************************)
(* How the daemon turns the secrets of an approved ask into values: the    *)
(* encrypted value cache (daemon/cache.rs), the singleflight coordinator   *)
(* (daemon/in_flight.rs) and the three resolvers that share them           *)
(* (daemon/state.rs): resolve_for_ask, resolve_union and                   *)
(* resolve_single_cached.                                                  *)
(*                                                                         *)
(* Each member of Threads is one call of one resolver, on its own thread.  *)
(* A step is one critical section: a cache lookup, a look at the in-flight *)
(* map, a wake-up, the return of the provider together with the put that   *)
(* follows it, the removal of a slot from the map, the publication of a    *)
(* slot's final state.  A slot is named by the thread that created it and  *)
(* its key, because one call creates at most one slot per key.             *)
(*                                                                         *)
(* A secret is its cache key, the (provider, locator) pair; an entry of an *)
(* ask is its position in Request[t], so that one ask may name one key     *)
(* under two environment variables.                                        *)
(***************************************************************************)
EXTENDS Naturals, Sequences, FiniteSets

CONSTANTS
    Threads,    \* calls of a resolver
    Keys,       \* (provider, locator) pairs
    Request,    \* Request[t]: the keys of the ask's entries, in order
    Kind,       \* Kind[t]: which resolver the call runs
    TtlKeys,    \* keys whose declaration carries a ttl
    NoThread    \* "no slot" in the in-flight map

Kinds == {"ask", "union", "single"}

\* resolve_single_cached takes one key; every other request may be empty (a
\* gate-only ask) and may repeat a key.
ASSUME ResolutionAssumption ==
    /\ Request \in [Threads -> Seq(Keys)]
    /\ Kind \in [Threads -> Kinds]
    /\ \A t \in Threads : Kind[t] = "single" => Len(Request[t]) = 1
    /\ TtlKeys \subseteq Keys
    /\ NoThread \notin Threads

VARIABLES
    cache,      \* the value cache: what get() finds under each key
    inFlight,   \* the in-flight map: the creator of the slot under each key
    slot,       \* slot[t][k]: the state of the slot t created for k
    pc,         \* where each call is
    pos,        \* the entry its loop is at
    guards,     \* the entries it holds an InFlightGuard for
    parkedOn,   \* whose slot it is parked on
    got,        \* entries it has a value for
    failed,     \* entries resolve_union's map holds an Err for
    verdict,    \* the final_state its guards drop with
    reply,      \* what the call returned
    calls,      \* history: provider invocations per key
    faults,     \* history: keys whose provider invocation failed
    lapsed      \* history: keys whose cached value expired

vars == <<cache, inFlight, slot, pc, pos, guards, parkedOn, got, failed,
          verdict, reply, calls, faults, lapsed>>

Entries(t) == 1..Len(Request[t])
KeysAt(t, S) == {Request[t][i] : i \in S}
AtEntry(t) == pos[t] \in Entries(t)
Key(t) == Request[t][pos[t]]

\* SecretCache::get finds a value only while its ttl has not elapsed; an
\* expired entry that the tick has not pruned yet is refused.
Cached(k) == cache[k] = "live"

\* resolve_union collects the distinct pairs up front: a later entry with the
\* key of an earlier one takes no part in the loop and shares its outcome.
Repeated(t) == /\ Kind[t] = "union"
               /\ \E j \in 1..(pos[t] - 1) : Request[t][j] = Key(t)

Advance(t) == pos' = [pos EXCEPT ![t] = @ + 1]
Goto(t, label) == pc' = [pc EXCEPT ![t] = label]

-----------------------------------------------------------------------------
Init ==
    /\ cache = [k \in Keys |-> "absent"]
    /\ inFlight = [k \in Keys |-> NoThread]
    /\ slot = [t \in Threads |-> [k \in Keys |-> "none"]]
    /\ pc = [t \in Threads |-> "lookup"]
    /\ pos = [t \in Threads |-> 1]
    /\ guards = [t \in Threads |-> {}]
    /\ parkedOn = [t \in Threads |-> NoThread]
    /\ got = [t \in Threads |-> {}]
    /\ failed = [t \in Threads |-> {}]
    /\ verdict = [t \in Threads |-> "none"]
    /\ reply = [t \in Threads |-> "none"]
    /\ calls = [k \in Keys |-> 0]
    /\ faults = {}
    /\ lapsed = {}

-----------------------------------------------------------------------------
(* The loop over the entries of the ask. *)

\* The cache lookup finds the value: it goes into the reply.
CacheHit(t) ==
    /\ pc[t] = "lookup" /\ AtEntry(t) /\ ~Repeated(t)
    /\ Cached(Key(t))
    /\ got' = [got EXCEPT ![t] = @ \cup {pos[t]}]
    /\ Advance(t)
    /\ UNCHANGED <<cache, inFlight, slot, pc, guards, parkedOn, failed,
                   verdict, reply, calls, faults, lapsed>>

\* The lookup finds nothing.  The cache lock is dropped here, before the
\* in-flight map is looked at.
CacheMiss(t) ==
    /\ pc[t] = "lookup" /\ AtEntry(t) /\ ~Repeated(t)
    /\ ~Cached(Key(t))
    /\ Goto(t, "acquire")
    /\ UNCHANGED <<cache, inFlight, slot, pos, guards, parkedOn, got, failed,
                   verdict, reply, calls, faults, lapsed>>

\* A repeated pair of resolve_union: nothing to do.
SkipRepeated(t) ==
    /\ pc[t] = "lookup" /\ AtEntry(t) /\ Repeated(t)
    /\ Advance(t)
    /\ UNCHANGED <<cache, inFlight, slot, pc, guards, parkedOn, got, failed,
                   verdict, reply, calls, faults, lapsed>>

\* Mutant of BecomeResolver: a slot is inserted over the one in the map.
BecomeResolverAnyway(t) ==
    /\ pc[t] = "acquire"
    /\ inFlight' = [inFlight EXCEPT ![Key(t)] = t]
    /\ slot' = [slot EXCEPT ![t][Key(t)] = "pending"]
    /\ guards' = [guards EXCEPT ![t] = @ \cup {pos[t]}]
    /\ Goto(t, "lookup")
    /\ Advance(t)
    /\ UNCHANGED <<cache, parkedOn, got, failed, verdict, reply, calls, faults,
                   lapsed>>

\* acquire() finds no slot: it inserts a Pending one and this call becomes the
\* resolver of the key.  The guard is kept while the loop goes on.
BecomeResolver(t) ==
    /\ pc[t] = "acquire"
    /\ inFlight[Key(t)] = NoThread
    /\ inFlight' = [inFlight EXCEPT ![Key(t)] = t]
    /\ slot' = [slot EXCEPT ![t][Key(t)] = "pending"]
    /\ guards' = [guards EXCEPT ![t] = @ \cup {pos[t]}]
    /\ Goto(t, "lookup")
    /\ Advance(t)
    /\ UNCHANGED <<cache, parkedOn, got, failed, verdict, reply, calls, faults,
                   lapsed>>

\* acquire() finds a slot: it drops the map lock and waits on the slot.
Park(t) ==
    /\ pc[t] = "acquire"
    /\ inFlight[Key(t)] # NoThread
    /\ parkedOn' = [parkedOn EXCEPT ![t] = inFlight[Key(t)]]
    /\ Goto(t, "parked")
    /\ UNCHANGED <<cache, inFlight, slot, pos, guards, got, failed, verdict,
                   reply, calls, faults, lapsed>>

\* acquire() returns Ready; the cache is read again afterwards, under its own
\* lock.
WakeReady(t) ==
    /\ pc[t] = "parked"
    /\ slot[parkedOn[t]][Key(t)] = "ready"
    /\ parkedOn' = [parkedOn EXCEPT ![t] = NoThread]
    /\ Goto(t, "reread")
    /\ UNCHANGED <<cache, inFlight, slot, pos, guards, got, failed, verdict,
                   reply, calls, faults, lapsed>>

RereadHit(t) ==
    /\ pc[t] = "reread"
    /\ Cached(Key(t))
    /\ got' = [got EXCEPT ![t] = @ \cup {pos[t]}]
    /\ Goto(t, "lookup")
    /\ Advance(t)
    /\ UNCHANGED <<cache, inFlight, slot, guards, parkedOn, failed, verdict,
                   reply, calls, faults, lapsed>>

\* What a resolver is told when its entry cannot be had from the call it was
\* parked on: Failed, or Ready with an empty cache.
Refused(t) ==
    \/ pc[t] = "parked" /\ slot[parkedOn[t]][Key(t)] = "failed"
    \/ pc[t] = "reread" /\ ~Cached(Key(t))

\* resolve_for_ask and resolve_single_cached give up at once: fail_guards
\* fails every slot the call holds, and the whole ask gets an error.
AbandonAsk(t) ==
    /\ Refused(t)
    /\ parkedOn' = [parkedOn EXCEPT ![t] = NoThread]
    /\ verdict' = [verdict EXCEPT ![t] = "failed"]
    /\ Goto(t, "release")
    /\ UNCHANGED <<cache, inFlight, slot, pos, guards, got, failed, reply,
                   calls, faults, lapsed>>

\* Mutant of RecordFailure: the pair is skipped without an Err.
SkipFailure(t) ==
    /\ Refused(t)
    /\ parkedOn' = [parkedOn EXCEPT ![t] = NoThread]
    /\ Goto(t, "lookup")
    /\ Advance(t)
    /\ UNCHANGED <<cache, inFlight, slot, guards, got, failed, verdict, reply,
                   calls, faults, lapsed>>

\* resolve_union records an Err for the pair and goes on with the loop.
RecordFailure(t) ==
    /\ Refused(t)
    /\ parkedOn' = [parkedOn EXCEPT ![t] = NoThread]
    /\ failed' = [failed EXCEPT ![t] = @ \cup {pos[t]}]
    /\ Goto(t, "lookup")
    /\ Advance(t)
    /\ UNCHANGED <<cache, inFlight, slot, guards, got, verdict, reply, calls,
                   faults, lapsed>>

-----------------------------------------------------------------------------
(* The batch: one resolve_all for every key the call owns. *)

\* Every entry came from the cache or from other calls: no provider is needed.
NothingOwned(t) ==
    /\ pc[t] = "lookup" /\ ~AtEntry(t)
    /\ guards[t] = {}
    /\ verdict' = [verdict EXCEPT ![t] = "ready"]
    /\ Goto(t, "release")
    /\ UNCHANGED <<cache, inFlight, slot, pos, guards, parkedOn, got, failed,
                   reply, calls, faults, lapsed>>

CallProvider(t) ==
    /\ pc[t] = "lookup" /\ ~AtEntry(t)
    /\ guards[t] # {}
    /\ calls' = [k \in Keys |->
                    calls[k] + IF k \in KeysAt(t, guards[t]) THEN 1 ELSE 0]
    /\ Goto(t, "provider")
    /\ UNCHANGED <<cache, inFlight, slot, pos, guards, parkedOn, got, failed,
                   verdict, reply, faults, lapsed>>

\* Mutants of ProviderReturns: the values are not put into the cache; the
\* guards are not marked ready.
ProviderReturnsUncached(t) ==
    /\ pc[t] = "provider"
    /\ got' = [got EXCEPT ![t] = @ \cup guards[t]]
    /\ verdict' = [verdict EXCEPT ![t] = "ready"]
    /\ Goto(t, "release")
    /\ UNCHANGED <<cache, inFlight, slot, pos, guards, parkedOn, failed, reply,
                   calls, faults, lapsed>>

ProviderReturnsUnmarked(t) ==
    /\ pc[t] = "provider"
    /\ cache' = [k \in Keys |->
                    IF k \in KeysAt(t, guards[t]) THEN "live" ELSE cache[k]]
    /\ got' = [got EXCEPT ![t] = @ \cup guards[t]]
    /\ verdict' = [verdict EXCEPT ![t] = "failed"]
    /\ Goto(t, "release")
    /\ UNCHANGED <<inFlight, slot, pos, guards, parkedOn, failed, reply, calls,
                   faults, lapsed>>

\* resolve_all is all or nothing: on Ok it returns a value (found, or the
\* declared default) for every request, and one cache lock stores them all.
\* put() overwrites, so an expired entry starts a new life.
ProviderReturns(t) ==
    /\ pc[t] = "provider"
    /\ cache' = [k \in Keys |->
                    IF k \in KeysAt(t, guards[t]) THEN "live" ELSE cache[k]]
    /\ got' = [got EXCEPT ![t] = @ \cup guards[t]]
    /\ verdict' = [verdict EXCEPT ![t] = "ready"]
    /\ Goto(t, "release")
    /\ UNCHANGED <<inFlight, slot, pos, guards, parkedOn, failed, reply, calls,
                   faults, lapsed>>

\* resolve_all fails: no value is cached, every slot of the batch fails.  Which
\* of the keys was at fault is not known to the caller.
ProviderFails(t) ==
    /\ pc[t] = "provider"
    /\ failed' = [failed EXCEPT ![t] =
                     @ \cup IF Kind[t] = "union" THEN guards[t] ELSE {}]
    /\ faults' = faults \cup KeysAt(t, guards[t])
    /\ verdict' = [verdict EXCEPT ![t] = "failed"]
    /\ Goto(t, "release")
    /\ UNCHANGED <<cache, inFlight, slot, pos, guards, parkedOn, got, reply,
                   calls, lapsed>>

-----------------------------------------------------------------------------
(* The guards are dropped one by one, in the order they were taken. *)

Oldest(t, i) == i \in guards[t] /\ \A j \in guards[t] : i <= j

\* Drop, first half: the slot leaves the map.
RemoveSlot(t) ==
    /\ pc[t] = "release"
    /\ \E i \in guards[t] :
         /\ Oldest(t, i)
         /\ inFlight' = [inFlight EXCEPT ![Request[t][i]] = NoThread]
    /\ Goto(t, "publish")
    /\ UNCHANGED <<cache, slot, pos, guards, parkedOn, got, failed, verdict,
                   reply, calls, faults, lapsed>>

\* Mutant of PublishSlot: the guard goes without publishing.
PublishNothing(t) ==
    /\ pc[t] = "publish"
    /\ \E i \in guards[t] :
         /\ Oldest(t, i)
         /\ guards' = [guards EXCEPT ![t] = @ \ {i}]
    /\ Goto(t, "release")
    /\ UNCHANGED <<cache, inFlight, slot, pos, parkedOn, got, failed, verdict,
                   reply, calls, faults, lapsed>>

\* Drop, second half: the final state is published and the waiters woken.
PublishSlot(t) ==
    /\ pc[t] = "publish"
    /\ \E i \in guards[t] :
         /\ Oldest(t, i)
         /\ slot' = [slot EXCEPT ![t][Request[t][i]] = verdict[t]]
         /\ guards' = [guards EXCEPT ![t] = @ \ {i}]
    /\ Goto(t, "release")
    /\ UNCHANGED <<cache, inFlight, pos, parkedOn, got, failed, verdict, reply,
                   calls, faults, lapsed>>

\* The call returns.  resolve_union always returns its map of outcomes.
Return(t) ==
    /\ pc[t] = "release"
    /\ guards[t] = {}
    /\ reply' = [reply EXCEPT ![t] =
                    IF verdict[t] = "ready" \/ Kind[t] = "union"
                    THEN "ok" ELSE "err"]
    /\ Goto(t, "done")
    /\ UNCHANGED <<cache, inFlight, slot, pos, guards, parkedOn, got, failed,
                   verdict, calls, faults, lapsed>>

-----------------------------------------------------------------------------
(* The three resolvers, and the clock. *)

\* What the three have in common.
Shared(t) ==
    \/ CacheHit(t)
    \/ CacheMiss(t)
    \/ BecomeResolver(t)
    \/ Park(t)
    \/ WakeReady(t)
    \/ RereadHit(t)
    \/ NothingOwned(t)
    \/ CallProvider(t)
    \/ ProviderReturns(t)
    \/ ProviderFails(t)
    \/ RemoveSlot(t)
    \/ PublishSlot(t)
    \/ Return(t)

resolve_for_ask(t) == Kind[t] = "ask" /\ (Shared(t) \/ AbandonAsk(t))

resolve_union(t) ==
    Kind[t] = "union" /\ (Shared(t) \/ SkipRepeated(t) \/ RecordFailure(t))

resolve_single_cached(t) == Kind[t] = "single" /\ (Shared(t) \/ AbandonAsk(t))

Step(t) == resolve_for_ask(t) \/ resolve_union(t) \/ resolve_single_cached(t)

\* The ttl of a cached value elapses.
Expire(k) ==
    /\ k \in TtlKeys
    /\ cache[k] = "live"
    /\ cache' = [cache EXCEPT ![k] = "expired"]
    /\ lapsed' = lapsed \cup {k}
    /\ UNCHANGED <<inFlight, slot, pc, pos, guards, parkedOn, got, failed,
                   verdict, reply, calls, faults>>

\* The daemon's tick drops every expired entry.
prune_expired ==
    /\ \E k \in Keys : cache[k] = "expired"
    /\ cache' = [k \in Keys |-> IF cache[k] = "expired" THEN "absent"
                                                        ELSE cache[k]]
    /\ UNCHANGED <<inFlight, slot, pc, pos, guards, parkedOn, got, failed,
                   verdict, reply, calls, faults, lapsed>>

\* Every call has returned; the daemon waits for the next ask.
Quiescent == (\A t \in Threads : pc[t] = "done") /\ UNCHANGED vars

Next ==
    \/ \E t \in Threads : Step(t)
    \/ \E k \in Keys : Expire(k)
    \/ prune_expired
    \/ Quiescent

\* Threads are scheduled by the kernel and a provider invocation ends, with
\* success or not; nothing is assumed of the clock.
Fairness == \A t \in Threads : WF_vars(Step(t))

Spec == Init /\ [][Next]_vars /\ Fairness

-----------------------------------------------------------------------------
(* Properties. *)

Labels == {"lookup", "acquire", "parked", "reread", "provider", "release",
           "publish", "done"}

\* The state of every variable is of its type.
TypeOK ==
    /\ cache \in [Keys -> {"absent", "live", "expired"}]
    /\ inFlight \in [Keys -> Threads \cup {NoThread}]
    /\ slot \in [Threads -> [Keys -> {"none", "pending", "ready", "failed"}]]
    /\ pc \in [Threads -> Labels]
    /\ pos \in [Threads -> Nat \ {0}]
    /\ guards \in [Threads -> SUBSET (Nat \ {0})]
    /\ parkedOn \in [Threads -> Threads \cup {NoThread}]
    /\ got \in [Threads -> SUBSET (Nat \ {0})]
    /\ failed \in [Threads -> SUBSET (Nat \ {0})]
    /\ verdict \in [Threads -> {"none", "ready", "failed"}]
    /\ reply \in [Threads -> {"none", "ok", "err"}]
    /\ calls \in [Keys -> Nat]
    /\ faults \in SUBSET Keys
    /\ lapsed \in SUBSET Keys

\* The keys a call is asking the provider for right now.
Fetching(t) == IF pc[t] = "provider" THEN KeysAt(t, guards[t]) ELSE {}

\* Singleflight: no two calls are inside the provider for the same key at the
\* same time, whatever mix of asks, unions and ssh signs races for it (the
\* slot in InFlightMap is held from the miss to the put).
SingleFlight ==
    \A t, u \in Threads : t # u => Fetching(t) \cap Fetching(u) = {}

\* A call parked on a slot is parked on one that some other call still has to
\* publish, or has published: a waiter never sleeps on a slot nobody will
\* signal (InFlightGuard::drop publishes after the slot left the map, so the
\* slot a waiter took from the map outlives its entry there).
NoOrphanWaiter ==
    \A t \in Threads : pc[t] = "parked" =>
        \/ slot[parkedOn[t]][Key(t)] \in {"ready", "failed"}
        \/ /\ slot[parkedOn[t]][Key(t)] = "pending"
           /\ Key(t) \in KeysAt(parkedOn[t], guards[parkedOn[t]])

\* A slot published as Ready has its value in the cache, for every key that
\* does not expire: the put happens before mark_ready, so the re-read of a
\* woken waiter finds it.
ReadyMeansCached ==
    \A t \in Threads, k \in Keys \ TtlKeys : slot[t][k] = "ready" => Cached(k)

\* An ask that is answered has a value for every one of its entries, and a
\* union that returns has for every distinct pair a value or an error, never
\* both: no entry is lost between the cache, the waiters and the batch.
RepliesAreComplete ==
    \A t \in Threads : reply[t] = "ok" =>
        IF Kind[t] = "union"
        THEN /\ KeysAt(t, got[t] \cup failed[t]) = KeysAt(t, Entries(t))
             /\ KeysAt(t, got[t]) \cap KeysAt(t, failed[t]) = {}
        ELSE got[t] = Entries(t)

\* A resolution goes wrong only if some provider invocation failed or some
\* value with a ttl expired: racing alone never costs a caller its secrets.
FailureHasCause ==
    (\E t \in Threads : reply[t] = "err" \/ failed[t] # {})
        => faults \cup lapsed # {}

\* Every call returns: no parked waiter is left behind by its resolver.  It
\* needs the calls to name their keys in one common order (see the README).
EveryCallReturns == \A t \in Threads : <>(pc[t] = "done")
=============================================================================
