---------------------------- MODULE CacheManager ----------------------------
(***************************************************************************)
(* The policy-driven cache over the GPU tier (cache.py).  A store that     *)
(* needs room runs over several steps: the operation sets pending, one     *)
(* step per iteration of the eviction loop, and one step that inserts.     *)
(***************************************************************************)
EXTENDS EvictionPolicies

VARIABLES
  pending,    \* the chunk a store operation is making room for, or NoChunk
  evicted     \* keys evicted by the current (or last) store operation

managerVars == <<order, clock, lastAccess, accessCount, insertOrder, pending, evicted>>

NoChunk == [cid |-> 0, idx |-> 0, start |-> 0, end |-> 0]

Idle == pending = NoChunk

CacheInit ==
  /\ PolicyInit
  /\ pending = NoChunk
  /\ evicted = <<>>

RemoveFromGPU(key) ==
  /\ tiers' = [tiers EXCEPT ![GPU] = drop(tiers[GPU], key)]
  /\ order' = RemoveAt(order, Age(key))
  /\ record_remove(key)

\* access: a hit updates the policy, a miss changes nothing.
access(key) ==
  /\ Idle
  /\ IF Present(GPU, key) THEN record_access(key) ELSE UNCHANGED policyVars
  /\ UNCHANGED <<tiers, order, pending, evicted>>

\* Mutant: no store ever refuses a chunk.
MutOversized(c) == FALSE

\* Both stores raise ValueError first when the chunk can never fit.
Oversized(c) == size_bytes(c) > Capacity[GPU]

\* The resident chunk is kept and returned.
KeepResident(key) ==
  /\ record_access(key)
  /\ evicted' = <<>>
  /\ UNCHANGED <<tiers, order, pending>>

StartStore(c) ==
  /\ pending' = c
  /\ evicted' = <<>>

\* store: a resident chunk is kept whatever it covers.
store(c) ==
  /\ Idle
  /\ ~Oversized(c)
  /\ \/ /\ Present(GPU, cache_key(c))
        /\ KeepResident(cache_key(c))
     \/ /\ ~Present(GPU, cache_key(c))
        /\ StartStore(c)
        /\ UNCHANGED <<tiers, order, policyVars>>

\* Mutant: store_replacing keeps a resident of lesser coverage.
MutStoreReplacing(c) == store(c)

\* Mutant: store_replacing replaces any resident.
MutReplaceAlways(c) ==
  /\ Idle
  /\ ~Oversized(c)
  /\ StartStore(c)
  /\ IF Present(GPU, cache_key(c)) THEN RemoveFromGPU(cache_key(c))
     ELSE UNCHANGED <<tiers, order, policyVars>>

\* store_replacing: a resident of lesser coverage is removed first.
store_replacing(c) ==
  /\ Idle
  /\ ~Oversized(c)
  /\ \/ /\ Present(GPU, cache_key(c))
        /\ coverage(tiers[GPU], cache_key(c)) >= c.end
        /\ KeepResident(cache_key(c))
     \/ /\ Present(GPU, cache_key(c))
        /\ coverage(tiers[GPU], cache_key(c)) < c.end
        /\ RemoveFromGPU(cache_key(c))
        /\ StartStore(c)
     \/ /\ ~Present(GPU, cache_key(c))
        /\ StartStore(c)
        /\ UNCHANGED <<tiers, order, policyVars>>

\* One iteration of the eviction loop.
EvictVictim ==
  /\ ~Idle
  /\ ~can_store(GPU, tiers[GPU], pending)
  /\ \E key \in Victims :
       /\ RemoveFromGPU(key)
       /\ evicted' = Append(evicted, key)
  /\ UNCHANGED pending

\* The loop is over: MemoryTier.store and record_store.
InsertPending ==
  /\ ~Idle
  /\ can_store(GPU, tiers[GPU], pending)
  /\ tiers' = [tiers EXCEPT ![GPU] = put(tiers[GPU], pending)]
  /\ order' = IF Present(GPU, cache_key(pending)) THEN order
              ELSE Append(order, cache_key(pending))
  /\ record_store(cache_key(pending))
  /\ pending' = NoChunk
  /\ UNCHANGED evicted

-----------------------------------------------------------------------------
\* The type invariant of the tiers, the cache manager and its policy.
CacheTypeOK ==
  /\ DOMAIN tiers = Tiers
  /\ \A t \in Tiers : IsDict(tiers[t], Extent)
  /\ order \in Seq(CacheKey)
  /\ clock \in Nat
  /\ \A d \in {lastAccess, accessCount, insertOrder} : IsDict(d, Nat)
  /\ pending \in Chunk \cup {NoChunk}
  /\ evicted \in Seq(CacheKey)

\* The GPU tier never holds more bytes than its capacity, also between two
\* iterations of the eviction loop (cache.py store and store_replacing).
WithinCapacity == used_bytes(tiers[GPU]) <= Capacity[GPU]

\* Policy dictionaries and the tier's iteration order list exactly the
\* resident chunks: no stamp or count outlives its chunk, none is missing.
PolicyTracksTier ==
  LET resident == DOMAIN tiers[GPU] IN
  /\ ToSet(order) = resident
  /\ IsInjective(order)
  /\ Policy = "lru"  => DOMAIN lastAccess = resident
  /\ Policy = "fltp" => DOMAIN accessCount = resident /\ DOMAIN insertOrder = resident

=============================================================================
