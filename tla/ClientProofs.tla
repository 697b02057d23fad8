---------------------------- MODULE ClientProofs ----------------------------
(***************************************************************************)
(* What a cache manager guarantees to an arbitrary client, for every       *)
(* policy and every sequence of calls; and that FIFO and LRU make it a     *)
(* queue.                                                                  *)
(***************************************************************************)
EXTENDS QueueRefinement, CacheTheorems

USE ChunkingAssumption, TierAssumption, PolicyAssumption, ClientAssumption

\* While a store is making room, the client's last call is that store, the
\* chunk fits into an empty tier, and the chunk that the store replaces, if
\* any, covered less.
StoreUnderWay ==
  ~Idle =>
    /\ last.op \in {"store", "store_replacing"}
    /\ last.chunk = pending
    /\ ~Oversized(pending)
    /\ coverage(last.before, cache_key(pending)) <= pending.end

\* What CallsNeverDowngrade says of a finished call holds during a store too.
NoDowngrade ==
  /\ IsDict(last.before, Extent)
  /\ \A k \in DOMAIN tiers[GPU] \cap DOMAIN last.before :
       coverage(last.before, k) <= coverage(tiers[GPU], k)

ClientInv ==
  /\ CacheInv /\ PolicyTracksTier
  /\ GPUFinite /\ WithinCapacity
  /\ StoreUnderWay /\ StoreServes /\ NoDowngrade

\* The chunks of the client are chunks.
LEMMA ClientChunkFacts ==
  ASSUME NEW c \in ClientChunks
  PROVE  c \in Chunk /\ c # NoChunk
<1>1. PICK d \in Documents, i \in 0 .. MaxIndex :
        c \in { [cid |-> d, idx |-> i, start |-> i * ChunkSize, end |-> e] :
                  e \in i * ChunkSize + 1 .. (i + 1) * ChunkSize }
  BY DEF ClientChunks
<1>2. d \in Nat /\ i \in Nat /\ ChunkSize \in Nat
  BY DEF Documents, ChunkingAssumption, ClientAssumption
<1>3. i * ChunkSize \in Nat /\ (i + 1) * ChunkSize \in Nat
  BY <1>2, NatProduct
<1>4. PICK e \in i * ChunkSize + 1 .. (i + 1) * ChunkSize :
        c = [cid |-> d, idx |-> i, start |-> i * ChunkSize, end |-> e]
  BY <1>1
<1>5. /\ e \in Nat /\ i * ChunkSize < e
      /\ c.cid = d /\ c.idx = i /\ c.start = i * ChunkSize /\ c.end = e
  BY <1>3, <1>4
<1>6. c \in Chunk
  <2>1. c \in [cid: Nat, idx: Nat, start: Nat, end: Nat]
    BY <1>2, <1>3, <1>4, <1>5
  <2> QED BY <1>5, <2>1 DEF Chunk
<1>7. c # NoChunk
  <2>1. NoChunk.start = 0 /\ NoChunk.end = 0
    BY DEF NoChunk
  <2> QED BY <1>3, <1>5, <2>1
<1> QED BY <1>6, <1>7

LEMMA ClientInitInv == ClientInit => ClientInv
<1> SUFFICES ASSUME ClientInit PROVE ClientInv
  OBVIOUS
<1>1. /\ DOMAIN tiers = Tiers /\ GPU \in Tiers
      /\ \A t \in Tiers : tiers[t] = EmptyDict
      /\ tiers[GPU] = EmptyDict
  BY DEF ClientInit, Tiers
<1>2. IsDict(EmptyDict, Extent) /\ DOMAIN EmptyDict = {} /\ IsFiniteSet(DOMAIN EmptyDict)
  BY FS_EmptySet DEF EmptyDict, IsDict
<1>3. /\ order = <<>> /\ clock = 0 /\ evicted = <<>> /\ pending = NoChunk
      /\ lastAccess = [k \in {} |-> 0] /\ accessCount = [k \in {} |-> 0]
      /\ insertOrder = [k \in {} |-> 0]
  BY DEF ClientInit, CacheInit, PolicyInit
<1>4. CacheInv
  <2>1. PolicyTypeOK
    BY <1>3 DEF PolicyTypeOK, IsDict
  <2>2. order \in Seq(CacheKey) /\ evicted \in Seq(CacheKey)
    BY <1>3
  <2> QED BY <1>1, <1>2, <1>3, <2>1, <2>2
          DEF CacheInv, CacheTypeOK, PolicyTypeOK, OrderListsTier
<1>5. PolicyTracksTier
  BY <1>1, <1>2, <1>3 DEF PolicyTracksTier, ToSet, IsInjective
<1>6. GPUFinite /\ WithinCapacity
  <2>1. used_bytes(tiers[GPU]) = 0 /\ Capacity[GPU] \in Nat
    BY <1>1, <1>2, BytesAreNat DEF TierAssumption, Tiers
  <2> QED BY <1>1, <1>2, <2>1 DEF GPUFinite, WithinCapacity
<1>7. last = [op |-> "none", chunk |-> NoChunk, before |-> EmptyDict] /\ Idle
  BY <1>3 DEF ClientInit, Idle
<1>8. StoreUnderWay /\ StoreServes /\ NoDowngrade
  BY <1>2, <1>7 DEF StoreUnderWay, StoreServes, NoDowngrade
<1> QED BY <1>4, <1>5, <1>6, <1>8 DEF ClientInv

\* The calls: a store that finds no room begins, every other call returns.
LEMMA CallStep ==
  ASSUME ClientInv, NEW c \in ClientChunks,
         CallAccess(c) \/ CallStore(c) \/ CallStoreReplacing(c) \/ CallRaises(c)
  PROVE  ClientInv'
<1> DEFINE key == cache_key(c)
           d == tiers[GPU]
<1>1. c \in Chunk /\ c # NoChunk /\ key \in CacheKey /\ c.end \in Nat
  BY ClientChunkFacts, ChunkFields
<1>2. IsDict(d, Extent) /\ \A k : coverage(d, k) \in Nat
  BY CoverageFacts DEF ClientInv, CacheInv, CacheTypeOK, Tiers
<1>3. Idle /\ pending = NoChunk
  BY DEF CallAccess, CallStore, CallStoreReplacing, CallRaises,
         access, store, store_replacing, Idle
<1>4. last'.chunk = c /\ last'.before = d
  BY DEF CallAccess, CallStore, CallStoreReplacing, CallRaises, Call
<1>5. CASE CallRaises(c) \/ CallAccess(c)
  <2>1. CacheInv' /\ tiers' = tiers /\ pending' = NoChunk /\ last'.op \in {"access", "raised"}
    BY <1>3, <1>5, AccessFacts
       DEF CallRaises, CallAccess, Call, ClientInv, CacheInv, CacheTypeOK, OrderListsTier,
           managerVars
  <2>2. PolicyTracksTier' /\ GPUFinite' /\ WithinCapacity'
    <3>1. CASE CallAccess(c)
      BY <1>1, <3>1, ManagerTracks, ManagerFits DEF CallAccess, ClientInv
    <3>2. CASE CallRaises(c)
      BY <3>2 DEF CallRaises, managerVars, ClientInv, PolicyTracksTier, GPUFinite,
                  WithinCapacity
    <3> QED BY <1>5, <3>1, <3>2
  <2>3. Idle' /\ StoreUnderWay' /\ StoreServes'
    BY <2>1 DEF Idle, StoreUnderWay, StoreServes
  <2>4. NoDowngrade'
    BY <1>2, <1>4, <2>1 DEF NoDowngrade
  <2> QED BY <2>1, <2>2, <2>3, <2>4 DEF ClientInv
<1>6. CASE CallStore(c) \/ CallStoreReplacing(c)
  <2>1. /\ CallStore(c) => store(c) /\ last'.op = "store"
        /\ CallStoreReplacing(c) => store_replacing(c) /\ last'.op = "store_replacing"
    BY DEF CallStore, CallStoreReplacing, Call
  <2>2. ~Oversized(c)
    BY <1>6, <2>1 DEF store, store_replacing
  <2>3. /\ CacheInv'
        /\ \A k : coverage(tiers'[GPU], k) <= coverage(d, k)
        /\ \/ pending' = c
           \/ /\ pending' = NoChunk
              /\ tiers' = tiers
              /\ Present(GPU, key)
              /\ store_replacing(c) => c.end <= coverage(d, key)
    BY <1>1, <1>6, <2>1, StoreFacts DEF ClientInv
  <2>4. PolicyTracksTier' /\ GPUFinite' /\ WithinCapacity'
    BY <1>1, <1>6, <2>1, ManagerTracks, ManagerFits DEF ClientInv
  <2>5. pending' = c => coverage(d, key) <= c.end
    <3>1. CASE key \notin DOMAIN d
      BY <1>1, <3>1 DEF coverage
    <3>2. CASE pending' = c /\ key \in DOMAIN d
      BY <1>1, <1>2, <1>3, <1>6, <2>1, <3>2
         DEF store, store_replacing, KeepResident, Present
    <3> QED BY <3>1, <3>2
  <2>6. \A k \in DOMAIN tiers'[GPU] \cap DOMAIN d : coverage(d, k) <= coverage(tiers'[GPU], k)
    <3>1. CASE tiers' = tiers
      BY <1>2, <3>1
    <3>2. CASE tiers' # tiers
      <4>1. key \in DOMAIN d /\ RemoveFromGPU(key)
        BY <1>6, <2>1, <3>2 DEF store, store_replacing, KeepResident, Present
      <4>2. tiers'[GPU] = drop(d, key)
        BY <4>1, RemoveFromGPUFacts DEF ClientInv
      <4>3. DOMAIN tiers'[GPU] = DOMAIN d \ {key}
            /\ \A k : k # key => coverage(tiers'[GPU], k) = coverage(d, k)
        <5>1. /\ DOMAIN drop(d, key) = DOMAIN d \ {key}
              /\ \A k : k # key => coverage(drop(d, key), k) = coverage(d, k)
          BY <1>2, DropFacts
        <5> HIDE DEF d, key
        <5> QED BY <4>2, <5>1
      <4> QED BY <1>2, <4>3
    <3> QED BY <3>1, <3>2
  <2>7. NoDowngrade'
    BY <1>2, <1>4, <2>6 DEF NoDowngrade
  <2>8. CASE pending' = c
    <3>1. ~Idle'
      BY <1>1, <2>8 DEF Idle
    <3>2. StoreUnderWay' /\ StoreServes'
      BY <1>4, <1>6, <2>1, <2>2, <2>5, <2>8, <3>1 DEF StoreUnderWay, StoreServes, Oversized
    <3> QED BY <2>3, <2>4, <2>7, <3>2 DEF ClientInv
  <2>9. CASE pending' = NoChunk
    <3>1. /\ Idle' /\ tiers' = tiers /\ Present(GPU, key)
          /\ store_replacing(c) => c.end <= coverage(d, key)
      BY <1>1, <2>3, <2>9 DEF Idle
    <3>2. StoreUnderWay'
      BY <3>1 DEF StoreUnderWay
    <3>3. StoreServes'
      BY <1>1, <1>2, <1>4, <1>6, <2>1, <3>1 DEF StoreServes, Present
    <3> QED BY <2>3, <2>4, <2>7, <3>2, <3>3 DEF ClientInv
  <2> QED BY <2>3, <2>8, <2>9
<1> QED BY <1>5, <1>6

\* The loop of a store: an eviction takes another key than the one being
\* stored or drops nothing the client had under it, an insertion ends it.
LEMMA LoopStepInv ==
  ASSUME ClientInv, LoopStep
  PROVE  ClientInv'
<1> DEFINE d == tiers[GPU]
<1>1. last' = last /\ (EvictVictim \/ InsertPending)
  BY DEF LoopStep
<1>2. ~Idle /\ pending \in Chunk
  BY DEF LoopStep, EvictVictim, InsertPending, Idle, ClientInv, CacheInv, CacheTypeOK
<1>3. /\ IsDict(d, Extent) /\ IsDict(last.before, Extent)
      /\ \A k : coverage(d, k) \in Nat /\ coverage(last.before, k) \in Nat
  BY CoverageFacts DEF ClientInv, CacheInv, CacheTypeOK, NoDowngrade, Tiers
<1>4. PolicyTracksTier' /\ GPUFinite' /\ WithinCapacity'
  BY <1>1, ManagerTracks, ManagerFits DEF ClientInv
<1>5. CASE EvictVictim
  <2>1. CacheInv' /\ pending' = pending
    BY <1>5, EvictVictimFacts DEF ClientInv
  <2>2. PICK key \in DOMAIN d : RemoveFromGPU(key)
    BY <1>5 DEF EvictVictim, Victims
  <2>3. tiers'[GPU] = drop(d, key)
    BY <2>2, RemoveFromGPUFacts DEF ClientInv
  <2> HIDE DEF d
  <2>4. /\ DOMAIN tiers'[GPU] = DOMAIN d \ {key}
        /\ \A k : k # key => coverage(tiers'[GPU], k) = coverage(d, k)
    <3>1. /\ DOMAIN drop(d, key) = DOMAIN d \ {key}
          /\ \A k : k # key => coverage(drop(d, key), k) = coverage(d, k)
      BY <1>3, DropFacts
    <3> QED BY <2>3, <3>1
  <2>5. NoDowngrade'
    <3>1. ASSUME NEW k \in DOMAIN tiers'[GPU] \cap DOMAIN last.before
          PROVE  coverage(last.before, k) <= coverage(tiers'[GPU], k)
      <4>1. k \in DOMAIN d \cap DOMAIN last.before /\ k # key
        BY <2>4
      <4>2. coverage(last.before, k) <= coverage(d, k)
        BY <4>1 DEF ClientInv, NoDowngrade, d
      <4> QED BY <2>4, <4>1, <4>2
    <3> QED BY <1>1, <1>3, <3>1 DEF NoDowngrade
  <2>6. ~Idle' /\ StoreUnderWay' /\ StoreServes'
    BY <1>1, <1>2, <2>1 DEF ClientInv, StoreUnderWay, StoreServes, Idle, Oversized
  <2> QED BY <1>4, <2>1, <2>5, <2>6 DEF ClientInv
<1>6. CASE InsertPending
  <2> DEFINE key == cache_key(pending)
  <2>1. CacheInv' /\ pending' = NoChunk /\ tiers'[GPU] = put(d, pending)
    BY <1>6, InsertPendingFacts DEF ClientInv
  <2>2. /\ last.op \in {"store", "store_replacing"} /\ last.chunk = pending
        /\ coverage(last.before, key) <= pending.end
    BY <1>2 DEF ClientInv, StoreUnderWay
  <2> HIDE DEF d
  <2>3. /\ DOMAIN tiers'[GPU] = DOMAIN d \cup {key}
        /\ coverage(tiers'[GPU], key) = pending.end
        /\ \A k : k # key => coverage(tiers'[GPU], k) = coverage(d, k)
    BY <1>2, <1>3, <2>1, PutFacts
  <2> HIDE DEF key
  <2>4. NoDowngrade'
    <3>1. ASSUME NEW k \in DOMAIN tiers'[GPU] \cap DOMAIN last.before
          PROVE  coverage(last.before, k) <= coverage(tiers'[GPU], k)
      <4>1. CASE k = key
        BY <2>2, <2>3, <4>1
      <4>2. CASE k # key
        <5>1. coverage(last.before, k) <= coverage(d, k)
          BY <2>3, <4>2 DEF ClientInv, NoDowngrade, d
        <5> QED BY <2>3, <4>2, <5>1
      <4> QED BY <4>1, <4>2
    <3> QED BY <1>1, <1>3, <3>1 DEF NoDowngrade
  <2>5. StoreServes'
    <3>1. last'.chunk = pending /\ key \in DOMAIN tiers'[GPU] /\ pending.end \in Nat
      BY <1>1, <1>2, <2>2, <2>3, ChunkFields
    <3> QED BY <2>3, <3>1 DEF StoreServes, Present, key
  <2>6. StoreUnderWay'
    BY <2>1 DEF StoreUnderWay, Idle
  <2> QED BY <1>4, <2>1, <2>4, <2>5, <2>6 DEF ClientInv
<1> QED BY <1>1, <1>5, <1>6

\* The invariant of the manager in a client's hands.
THEOREM ClientInvariant == ClientSpec => []ClientInv
<1>1. ClientInit => ClientInv
  BY ClientInitInv
<1>2. ClientInv /\ [ClientNext]_clientVars => ClientInv'
  <2> SUFFICES ASSUME ClientInv, [ClientNext]_clientVars PROVE ClientInv'
    OBVIOUS
  <2>1. CASE UNCHANGED clientVars
    <3>1. UNCHANGED <<tiers, order, policyVars, pending, evicted, last>>
      BY <2>1 DEF clientVars, managerVars, policyVars
    <3>2. CacheInv'
      BY <3>1 DEF ClientInv, CacheInv, CacheTypeOK, OrderListsTier, policyVars
    <3>3. PolicyTracksTier' /\ GPUFinite' /\ WithinCapacity'
      BY <3>1 DEF ClientInv, PolicyTracksTier, policyVars, GPUFinite, WithinCapacity
    <3>4. StoreUnderWay' /\ StoreServes' /\ NoDowngrade'
      BY <3>1 DEF ClientInv, StoreUnderWay, StoreServes, NoDowngrade, Idle, Oversized, Present
    <3> QED BY <3>2, <3>3, <3>4 DEF ClientInv
  <2> QED BY <2>1, CallStep, LoopStepInv DEF ClientNext
<1> QED BY <1>1, <1>2, PTL DEF ClientSpec

\* The GPU tier holds at most its capacity after every call and during it.
THEOREM ClientWithinCapacity == ClientSpec => []WithinCapacity
<1>1. ClientInv => WithinCapacity
  BY DEF ClientInv
<1> QED BY <1>1, ClientInvariant, PTL

\* The policy never knows a key that the tier does not hold, nor misses one.
THEOREM ClientPolicyTracksTier == ClientSpec => []PolicyTracksTier
<1>1. ClientInv => PolicyTracksTier
  BY DEF ClientInv
<1> QED BY <1>1, ClientInvariant, PTL

\* What a store call returns is in the tier and covers what was asked for.
THEOREM ClientStoreServes == ClientSpec => []StoreServes
<1>1. ClientInv => StoreServes
  BY DEF ClientInv
<1> QED BY <1>1, ClientInvariant, PTL

\* No call leaves a key that it has not evicted with less coverage.
THEOREM ClientNeverDowngrades == ClientSpec => []CallsNeverDowngrade
<1>1. ClientInv => CallsNeverDowngrade
  BY DEF ClientInv, NoDowngrade, CallsNeverDowngrade
<1> QED BY <1>1, ClientInvariant, PTL

-----------------------------------------------------------------------------
(* The victim.                                                             *)

\* Python compares tuples lexicographically; that order is strict and total
\* on tuples of integers that differ.
LEMMA LexLessIrreflexive ==
  ASSUME NEW n \in 1 .. 3, NEW a \in [1 .. n -> Int]
  PROVE  ~LexLess(a, a)
  BY DEF LexLess

LEMMA LexLessTransitive ==
  ASSUME NEW n \in 1 .. 3, NEW a \in [1 .. n -> Int], NEW b \in [1 .. n -> Int],
         NEW c \in [1 .. n -> Int], LexLess(a, b), LexLess(b, c)
  PROVE  LexLess(a, c)
<1>1. PICK i \in 1 .. n : a[i] < b[i] /\ \A k \in 1 .. i - 1 : a[k] = b[k]
  BY DEF LexLess
<1>2. PICK j \in 1 .. n : b[j] < c[j] /\ \A k \in 1 .. j - 1 : b[k] = c[k]
  BY DEF LexLess
<1>3. \A k \in 1 .. n : a[k] \in Int /\ b[k] \in Int /\ c[k] \in Int
  OBVIOUS
<1>4. CASE i < j
  <2>1. a[i] < c[i]
    BY <1>1, <1>2, <1>4
  <2>2. \A k \in 1 .. i - 1 : a[k] = c[k]
    BY <1>1, <1>2, <1>4
  <2> QED BY <2>1, <2>2 DEF LexLess
<1>5. CASE j < i
  <2>1. a[j] < c[j]
    BY <1>1, <1>2, <1>5
  <2>2. \A k \in 1 .. j - 1 : a[k] = c[k]
    BY <1>1, <1>2, <1>5
  <2> QED BY <2>1, <2>2 DEF LexLess
<1>6. CASE i = j
  <2>1. a[i] < c[i]
    BY <1>1, <1>2, <1>3, <1>6
  <2>2. \A k \in 1 .. i - 1 : a[k] = c[k]
    BY <1>1, <1>2, <1>6
  <2> QED BY <2>1, <2>2 DEF LexLess
<1> QED BY <1>4, <1>5, <1>6

LEMMA LexLessTotal ==
  ASSUME NEW n \in 1 .. 3, NEW a \in [1 .. n -> Int], NEW b \in [1 .. n -> Int],
         \E i \in 1 .. n : a[i] # b[i]
  PROVE  LexLess(a, b) \/ LexLess(b, a)
<1>1. PICK i \in 1 .. n : a[i] # b[i] /\ \A k \in 1 .. i - 1 : a[k] = b[k]
  <2>1. PICK j \in 1 .. n : a[j] # b[j]
    OBVIOUS
  <2>2. j \in 1 .. 3 /\ \A i, k : i \in 1 .. n /\ k \in 1 .. i - 1 => k \in 1 .. n
    OBVIOUS
  <2>3. CASE a[1] # b[1]
    <3>1. 1 \in 1 .. n /\ \A k \in 1 .. 1 - 1 : a[k] = b[k]
      OBVIOUS
    <3> QED BY <2>3, <3>1
  <2>4. CASE a[1] = b[1] /\ 2 \in 1 .. n /\ a[2] # b[2]
    <3>1. \A k \in 1 .. 2 - 1 : a[k] = b[k]
      BY <2>4
    <3> QED BY <2>4, <3>1
  <2>5. CASE a[1] = b[1] /\ (2 \in 1 .. n => a[2] = b[2])
    <3>1. j = 3 /\ 2 \in 1 .. n
      BY <2>1, <2>2, <2>5
    <3>2. \A k \in 1 .. 3 - 1 : a[k] = b[k]
      BY <2>5, <3>1
    <3> QED BY <2>1, <3>1, <3>2
  <2> QED BY <2>3, <2>4, <2>5
<1>2. a[i] \in Int /\ b[i] \in Int
  OBVIOUS
<1>3. a[i] < b[i] \/ b[i] < a[i]
  BY <1>1, <1>2
<1> QED BY <1>1, <1>3 DEF LexLess

\* The length of the tuples that the policy compares.
ScoreLength ==
  CASE Policy = "fifo" -> 1 [] Policy = "lru" -> 2 [] OTHER -> 3

\* The scores of two resident chunks are tuples of integers that differ.
LEMMA ScoreFacts ==
  ASSUME ClientInv, \A n \in Nat \ {0} : Ln(n) \in Int,
         NEW x \in DOMAIN tiers[GPU], NEW y \in DOMAIN tiers[GPU]
  PROVE  /\ score(x) \in [1 .. ScoreLength -> Int]
         /\ x # y => \E i \in 1 .. ScoreLength : score(x)[i] # score(y)[i]
<1>1. /\ IsDict(tiers[GPU], Extent) /\ order \in Seq(CacheKey)
      /\ IsDict(lastAccess, Nat) /\ IsDict(accessCount, Nat) /\ IsDict(insertOrder, Nat)
  BY DEF ClientInv, CacheInv, CacheTypeOK, Tiers
<1>2. \A k \in DOMAIN tiers[GPU] : Age(k) \in DOMAIN order /\ order[Age(k)] = k
  BY DEF Age, ClientInv, CacheInv, OrderListsTier
<1>3. DOMAIN order = 1 .. Len(order) /\ Len(order) \in Nat
  BY <1>1, LenProperties
<1>4. \A k \in DOMAIN tiers[GPU] : Age(k) \in Int
  BY <1>2, <1>3
<1>5. \A k \in DOMAIN tiers[GPU] :
        /\ k[1] \in Nat /\ k[2] \in Nat /\ k = <<k[1], k[2]>> /\ tiers[GPU][k].end \in Nat
        /\ get(lastAccess, k, -1) \in Int /\ get(insertOrder, k, 0) \in Int
        /\ get(accessCount, k, 0) \in Nat
  <2> SUFFICES ASSUME NEW k \in DOMAIN tiers[GPU]
               PROVE  /\ k[1] \in Nat /\ k[2] \in Nat /\ k = <<k[1], k[2]>>
                      /\ tiers[GPU][k].end \in Nat
                      /\ get(lastAccess, k, -1) \in Int /\ get(insertOrder, k, 0) \in Int
                      /\ get(accessCount, k, 0) \in Nat
    OBVIOUS
  <2>1. k \in Nat \X Nat /\ tiers[GPU][k] \in Extent
    BY <1>1 DEF IsDict, CacheKey
  <2>2. k[1] \in Nat /\ k[2] \in Nat /\ k = <<k[1], k[2]>> /\ tiers[GPU][k].end \in Nat
    BY <2>1 DEF Extent
  <2>3. /\ get(lastAccess, k, -1) \in Int /\ get(insertOrder, k, 0) \in Int
        /\ get(accessCount, k, 0) \in Nat
    BY <1>1 DEF IsDict, get
  <2> QED BY <2>2, <2>3
<1>6. CASE Policy = "fifo"
  <2>1. ScoreLength = 1 /\ \A k : score(k) = <<Age(k)>>
    BY <1>6 DEF ScoreLength, score
  <2> QED BY <1>2, <1>4, <2>1
<1>7. CASE Policy = "lru"
  <2>1. ScoreLength = 2 /\ \A k : score(k) = <<get(lastAccess, k, -1), Age(k)>>
    BY <1>7 DEF ScoreLength, score
  <2> QED BY <1>2, <1>4, <1>5, <2>1
<1>8. CASE Policy = "ltp"
  <2>1. ScoreLength = 3 /\ \A k : score(k) = <<tiers[GPU][k].end, k[2], k[1]>>
    BY <1>8 DEF ScoreLength, score
  <2>2. x # y => x[1] # y[1] \/ x[2] # y[2]
    BY <1>5
  <2>3. score(x) \in [1 .. ScoreLength -> Int]
    <3>1. tiers[GPU][x].end \in Int /\ x[2] \in Int /\ x[1] \in Int
      BY <1>5
    <3>2. \A p, q, r \in Int : <<p, q, r>> \in [1 .. 3 -> Int]
      OBVIOUS
    <3> QED BY <2>1, <3>1, <3>2
  <2>4. /\ score(x)[2] = x[2] /\ score(y)[2] = y[2] /\ 2 \in 1 .. ScoreLength
        /\ score(x)[3] = x[1] /\ score(y)[3] = y[1] /\ 3 \in 1 .. ScoreLength
    BY <2>1
  <2> QED BY <2>2, <2>3, <2>4
<1>9. CASE Policy = "fltp"
  <2>1. /\ ScoreLength = 3
        /\ \A k : score(k) = <<keep(k), get(insertOrder, k, 0), Age(k)>>
    BY <1>9 DEF ScoreLength, score
  <2>2. \A k \in DOMAIN tiers[GPU] : keep(k) \in Int
    <3> SUFFICES ASSUME NEW k \in DOMAIN tiers[GPU] PROVE keep(k) \in Int
      OBVIOUS
    <3>1. 1 + tiers[GPU][k].end \in Nat \ {0} /\ 2 + get(accessCount, k, 0) \in Nat \ {0}
      BY <1>5
    <3>2. Ln(1 + tiers[GPU][k].end) \in Int /\ Ln(2 + get(accessCount, k, 0)) \in Int
      BY <3>1
    <3>3. \A p, q \in Int : p * q \in Int
      OBVIOUS
    <3> QED BY <3>2, <3>3 DEF keep
  <2> QED BY <1>2, <1>4, <1>5, <2>1, <2>2
<1> QED BY <1>6, <1>7, <1>8, <1>9

\* Whenever the loop asks for a victim the tier is not empty and the policy
\* names exactly one chunk, whatever integers approximate the logarithm.
THEOREM ClientVictimIsUnique ==
  ASSUME \A n \in Nat \ {0} : Ln(n) \in Int
  PROVE  ClientSpec => []VictimIsUnique
<1>1. ClientInv => VictimIsUnique
  <2> SUFFICES ASSUME ClientInv, ~Idle, ~can_store(GPU, tiers[GPU], pending)
               PROVE  \E key \in Victims : Victims = {key}
    BY DEF VictimIsUnique
  <2> DEFINE D == DOMAIN tiers[GPU]
             R == { p \in D \X D : LexLess(score(p[1]), score(p[2])) }
  <2>1. IsFiniteSet(D) /\ IsDict(tiers[GPU], Extent) /\ ScoreLength \in 1 .. 3
    BY DEF ClientInv, GPUFinite, CacheInv, CacheTypeOK, Tiers, ScoreLength
  <2>2. D # {}
    <3> SUFFICES ASSUME D = {} PROVE FALSE
      OBVIOUS
    <3>1. used_bytes(tiers[GPU]) = 0
      BY <2>1, BytesAreNat
    <3>2. ~Oversized(pending) /\ pending \in Chunk
      BY DEF ClientInv, StoreUnderWay, CacheInv, CacheTypeOK, Idle
    <3>3. size_bytes(pending) \in Nat /\ Capacity[GPU] \in Nat
      BY <2>1, <3>2, PutBytes DEF TierAssumption, Tiers
    <3> QED BY <3>1, <3>2, <3>3 DEF can_store, Oversized
  <2>3. \A x, y \in D : <<x, y>> \in R <=> LexLess(score(x), score(y))
    OBVIOUS
  <2>4. \A x \in D : score(x) \in [1 .. ScoreLength -> Int]
    BY ScoreFacts
  <2> HIDE DEF R, D
  <2>5. ASSUME NEW x \in D, NEW y \in D, NEW z \in D, <<x, y>> \in R, <<y, z>> \in R
        PROVE  <<x, z>> \in R
    <3>1. LexLess(score(x), score(y)) /\ LexLess(score(y), score(z))
      BY <2>3, <2>5
    <3>2. LexLess(score(x), score(z))
      BY <2>1, <2>4, <3>1, LexLessTransitive
    <3> QED BY <2>3, <3>2
  <2>6. ASSUME NEW x \in D, NEW y \in D, x # y
        PROVE  <<x, y>> \in R \/ <<y, x>> \in R
    <3>1. \E i \in 1 .. ScoreLength : score(x)[i] # score(y)[i]
      BY <2>6, ScoreFacts DEF D
    <3>2. LexLess(score(x), score(y)) \/ LexLess(score(y), score(x))
      BY <2>1, <2>4, <3>1, LexLessTotal
    <3> QED BY <2>3, <3>2
  <2>7. PICK v \in D : \A y \in D \ {v} : <<v, y>> \in R
    BY <2>1, <2>2, <2>5, <2>6, LeastMember
  <2>8. ASSUME NEW x \in D PROVE <<x, x>> \notin R
    <3>1. ~LexLess(score(x), score(x))
      BY <2>1, <2>4, LexLessIrreflexive
    <3> QED BY <2>3, <3>1
  <2>9. \A x \in D : x \in Victims <=> \A y \in D \ {x} : <<x, y>> \in R
    BY <2>3 DEF Victims, D
  <2>10. Victims \subseteq D
    BY DEF Victims, D
  <2>11. v \in Victims /\ \A w \in Victims : w = v
    BY <2>5, <2>7, <2>8, <2>9, <2>10
  <2> QED BY <2>11
<1> QED BY <1>1, ClientInvariant, PTL

-----------------------------------------------------------------------------
(* The line in which FIFO and LRU keep the chunks.                         *)

\* Stamps are handed out by a clock that only advances.
StampsInv ==
  Policy = "lru" =>
    /\ \A k \in DOMAIN lastAccess : lastAccess[k] <= clock
    /\ \A a, b \in DOMAIN lastAccess : lastAccess[a] = lastAccess[b] => a = b

\* The key of a store under way is not in the tier.
PendingAbsent == ~Idle => cache_key(pending) \notin DOMAIN tiers[GPU]

QueueInv == ClientInv /\ StampsInv /\ PendingAbsent

LEMMA AgeFacts ==
  ASSUME ClientInv, NEW k \in DOMAIN tiers[GPU]
  PROVE  /\ Age(k) \in DOMAIN order /\ order[Age(k)] = k /\ Age(k) \in Nat
         /\ \A i \in DOMAIN order : order[i] = k => i = Age(k)
<1>1. Age(k) \in DOMAIN order /\ order[Age(k)] = k
  BY DEF Age, ClientInv, CacheInv, OrderListsTier
<1>2. DOMAIN order = 1 .. Len(order) /\ Len(order) \in Nat
  BY LenProperties DEF ClientInv, CacheInv, CacheTypeOK
<1>3. \A i \in DOMAIN order : order[i] = k => i = Age(k)
  BY <1>1 DEF ClientInv, PolicyTracksTier, IsInjective
<1> QED BY <1>1, <1>2, <1>3

\* No two chunks have the same place.
LEMMA RankFacts ==
  ASSUME QueueInv, NEW x \in DOMAIN tiers[GPU]
  PROVE  /\ Rank(x) \in Nat
         /\ Policy = "lru" => x \in DOMAIN lastAccess /\ Rank(x) = lastAccess[x]
         /\ Policy # "lru" => Rank(x) = Age(x)
         /\ \A y \in DOMAIN tiers[GPU] : Rank(x) = Rank(y) => x = y
<1>1. \A k \in DOMAIN tiers[GPU] : Age(k) \in Nat /\ order[Age(k)] = k
  BY AgeFacts DEF QueueInv
<1>2. /\ IsDict(lastAccess, Nat)
      /\ Policy = "lru" => DOMAIN lastAccess = DOMAIN tiers[GPU]
  BY DEF QueueInv, ClientInv, CacheInv, CacheTypeOK, PolicyTracksTier
<1>3. CASE Policy = "lru"
  <2>1. \A k : Rank(k) = lastAccess[k]
    BY <1>3 DEF Rank
  <2> QED BY <1>2, <1>3, <2>1 DEF QueueInv, StampsInv, IsDict
<1>4. CASE Policy # "lru"
  <2>1. \A k : Rank(k) = Age(k)
    BY <1>4 DEF Rank
  <2> QED BY <1>1, <1>4, <2>1
<1> QED BY <1>3, <1>4

\* The relation of places between the resident chunks.
LEMMA LineMembers ==
  /\ \A a, b \in DOMAIN tiers[GPU] : <<a, b>> \in Line <=> Rank(a) < Rank(b)
  /\ Line \subseteq (DOMAIN tiers[GPU]) \X (DOMAIN tiers[GPU])
  BY DEF Line

\* Two lines are the same if they compare the same chunks alike.
LEMMA SameLine ==
  ASSUME NEW A, NEW B, NEW D, A \subseteq D \X D, B \subseteq D \X D,
         \A x, y \in D : <<x, y>> \in A <=> <<x, y>> \in B
  PROVE  A = B
<1>1. ASSUME NEW p \in D \X D PROVE p \in A <=> p \in B
  <2>1. p[1] \in D /\ p[2] \in D /\ p = <<p[1], p[2]>>
    OBVIOUS
  <2> QED BY <2>1
<1> QED BY <1>1

\* A chunk that is removed leaves the line; the others keep their places.
LEMMA RemovalLeaves ==
  ASSUME QueueInv, NEW key \in DOMAIN tiers[GPU], RemoveFromGPU(key)
  PROVE  /\ DOMAIN tiers'[GPU] = (DOMAIN tiers[GPU]) \ {key}
         /\ Line' = { p \in Line : key \notin {p[1], p[2]} }
         /\ StampsInv'
<1> DEFINE D == (DOMAIN tiers[GPU]) \ {key}
           n == Age(key)
<1>1. /\ tiers'[GPU] = drop(tiers[GPU], key) /\ IsDict(tiers[GPU], Extent)
      /\ order \in Seq(CacheKey) /\ order' = RemoveAt(order, n) /\ record_remove(key)
  BY RemoveFromGPUFacts DEF QueueInv, ClientInv, CacheInv, CacheTypeOK, Tiers, RemoveFromGPU
<1>2. DOMAIN tiers'[GPU] = D
  BY <1>1, DropFacts
<1>3. /\ lastAccess' = pop(lastAccess, key) /\ clock' = clock
  BY <1>1 DEF record_remove
<1>4. /\ DOMAIN lastAccess' = (DOMAIN lastAccess) \ {key}
      /\ \A k \in DOMAIN lastAccess' : lastAccess'[k] = lastAccess[k]
  BY <1>3 DEF pop
<1>5. StampsInv'
  BY <1>3, <1>4 DEF QueueInv, StampsInv
<1>6. n \in DOMAIN order /\ order[n] = key
  BY AgeFacts DEF QueueInv
<1>7. /\ Len(order) \in Nat /\ DOMAIN order = 1 .. Len(order)
      /\ DOMAIN order' = 1 .. Len(order) - 1
      /\ \A i \in 1 .. Len(order) - 1 :
           order'[i] = IF i < n THEN order[i] ELSE order[i + 1]
      /\ IsInjective(order')
  <2>1. IsInjective(order)
    BY DEF QueueInv, ClientInv, PolicyTracksTier
  <2> HIDE DEF n
  <2> QED BY <1>1, <1>6, <2>1, RemoveAtItems, RemoveAtInjective
<1>8. ASSUME NEW k \in D
      PROVE  Age(k)' = IF Age(k) < n THEN Age(k) ELSE Age(k) - 1
  <2> DEFINE i == Age(k)
             j == IF i < n THEN i ELSE i - 1
  <2>1. i \in DOMAIN order /\ order[i] = k /\ i # n
    BY <1>6, <1>8, AgeFacts DEF QueueInv
  <2> HIDE DEF i, n
  <2>2. j \in 1 .. Len(order) - 1 /\ order'[j] = k
    <3>1. CASE i < n
      BY <1>6, <1>7, <2>1, <3>1
    <3>2. CASE ~(i < n)
      <4>1. i - 1 \in 1 .. Len(order) - 1 /\ ~(i - 1 < n) /\ (i - 1) + 1 = i
        BY <1>6, <1>7, <2>1, <3>2
      <4> QED BY <1>7, <2>1, <3>2, <4>1
    <3> QED BY <3>1, <3>2
  <2> HIDE DEF j
  <2>3. Age(k)' = CHOOSE m \in DOMAIN order' : order'[m] = k
    BY DEF Age
  <2>4. \A m \in DOMAIN order' : order'[m] = k => m = j
    BY <1>7, <2>2 DEF IsInjective
  <2>5. Age(k)' = j
    BY <1>7, <2>2, <2>3, <2>4
  <2> QED BY <2>5 DEF i, j
<1>9. ASSUME NEW x \in D, NEW y \in D
      PROVE  Rank(x)' < Rank(y)' <=> Rank(x) < Rank(y)
  <2>1. CASE Policy = "lru"
    <3>1. /\ Rank(x) = lastAccess[x] /\ Rank(y) = lastAccess[y]
          /\ Rank(x)' = lastAccess'[x] /\ Rank(y)' = lastAccess'[y]
      BY <2>1 DEF Rank
    <3>2. x \in DOMAIN lastAccess' /\ y \in DOMAIN lastAccess'
      BY <1>4, <1>9, <2>1, RankFacts
    <3> QED BY <1>4, <3>1, <3>2
  <2>2. CASE Policy # "lru"
    <3>1. /\ Rank(x) = Age(x) /\ Rank(y) = Age(y)
          /\ Rank(x)' = Age(x)' /\ Rank(y)' = Age(y)'
      BY <2>2 DEF Rank
    <3>2. Age(x) \in Nat /\ Age(y) \in Nat /\ n \in Nat /\ Age(x) # n /\ Age(y) # n
      BY <1>6, <1>9, AgeFacts DEF QueueInv
    <3>3. /\ Age(x)' = IF Age(x) < n THEN Age(x) ELSE Age(x) - 1
          /\ Age(y)' = IF Age(y) < n THEN Age(y) ELSE Age(y) - 1
      BY <1>8
    <3> HIDE DEF n
    <3> QED BY <3>1, <3>2, <3>3
  <2> QED BY <2>1, <2>2
<1>10. Line' = { p \in Line : key \notin {p[1], p[2]} }
  <2> DEFINE L == { p \in Line : key \notin {p[1], p[2]} }
  <2>1. L \subseteq D \X D
    BY LineMembers
  <2>2. Line' \subseteq D \X D
    BY <1>2 DEF Line
  <2>3. \A x, y \in D : <<x, y>> \in Line' <=> Rank(x)' < Rank(y)'
    BY <1>2 DEF Line
  <2>4. \A x, y \in D : <<x, y>> \in L <=> Rank(x) < Rank(y)
    BY LineMembers
  <2>5. \A x, y \in D : <<x, y>> \in Line' <=> <<x, y>> \in L
    BY <1>9, <2>3, <2>4
  <2>6. Line' = L
    <3>1. PICK K, E : K = Line' /\ E = L
      OBVIOUS
    <3> HIDE DEF L, D
    <3>2. K \subseteq D \X D /\ E \subseteq D \X D
      BY <2>1, <2>2, <3>1
    <3>3. \A x, y \in D : <<x, y>> \in K <=> <<x, y>> \in E
      BY <2>5, <3>1
    <3>4. K = E
      BY ONLY <3>2, <3>3, SameLine
    <3> QED BY <3>1, <3>4
  <2> QED BY <2>6 DEF L
<1> QED BY <1>2, <1>5, <1>10

\* A hit puts the chunk last under LRU and leaves the line alone under FIFO.
LEMMA HitMovesBack ==
  ASSUME QueueInv, Policy \in {"fifo", "lru"}, NEW key \in DOMAIN tiers[GPU],
         record_access(key), UNCHANGED <<tiers, order>>
  PROVE  /\ Line' = IF Policy = "lru"
                    THEN { p \in Line : key \notin {p[1], p[2]} }
                           \cup ((DOMAIN tiers[GPU]) \ {key}) \X {key}
                    ELSE Line
         /\ StampsInv'
<1> DEFINE D == DOMAIN tiers[GPU]
<1>1. CASE Policy = "fifo"
  <2>1. UNCHANGED policyVars
    BY <1>1 DEF record_access
  <2>2. \A k : Rank(k)' = Rank(k)
    BY <2>1 DEF Rank, Age, policyVars
  <2>3. Line' = Line
    BY <2>2 DEF Line
  <2> QED BY <1>1, <2>3 DEF StampsInv
<1>2. CASE Policy = "lru"
  <2>1. clock' = clock + 1 /\ lastAccess' = set(lastAccess, key, clock + 1)
    BY <1>2 DEF record_access
  <2>2. /\ IsDict(lastAccess, Nat) /\ clock \in Nat
        /\ DOMAIN lastAccess = D
        /\ \A k \in D : lastAccess[k] <= clock
        /\ \A a, b \in D : lastAccess[a] = lastAccess[b] => a = b
    BY <1>2
       DEF QueueInv, StampsInv, ClientInv, CacheInv, CacheTypeOK, PolicyTracksTier
  <2>3. /\ DOMAIN lastAccess' = D
        /\ \A k \in D : lastAccess'[k] = IF k = key THEN clock + 1 ELSE lastAccess[k]
        /\ \A k \in D : lastAccess[k] \in Nat
    BY <2>1, <2>2 DEF set, IsDict
  <2>4. StampsInv'
    <3>1. \A k \in D : lastAccess'[k] <= clock'
      BY <2>1, <2>2, <2>3
    <3>2. \A a, b \in D : lastAccess'[a] = lastAccess'[b] => a = b
      BY <2>2, <2>3
    <3> QED BY <2>3, <3>1, <3>2 DEF StampsInv
  <2> DEFINE L == { p \in Line : key \notin {p[1], p[2]} } \cup (D \ {key}) \X {key}
  <2>5. L \subseteq D \X D
    BY LineMembers
  <2>6. Line' \subseteq D \X D
    BY DEF Line
  <2>7. \A x, y \in D : <<x, y>> \in Line' <=> lastAccess'[x] < lastAccess'[y]
    BY <1>2 DEF Line, Rank
  <2>8. \A x, y \in D :
          <<x, y>> \in L <=> \/ x # key /\ y # key /\ lastAccess[x] < lastAccess[y]
                             \/ x # key /\ y = key
    <3>1. \A x, y \in D : <<x, y>> \in Line <=> lastAccess[x] < lastAccess[y]
      BY <1>2 DEF Line, Rank
    <3> QED BY <3>1
  <2>9. ASSUME NEW x \in D, NEW y \in D PROVE <<x, y>> \in Line' <=> <<x, y>> \in L
    <3>1. /\ lastAccess[x] \in Nat /\ lastAccess[y] \in Nat
          /\ lastAccess[x] <= clock /\ lastAccess[y] <= clock
          /\ lastAccess'[x] = IF x = key THEN clock + 1 ELSE lastAccess[x]
          /\ lastAccess'[y] = IF y = key THEN clock + 1 ELSE lastAccess[y]
      BY <2>2, <2>3
    <3>2. lastAccess'[x] < lastAccess'[y] <=> \/ x # key /\ y # key /\ lastAccess[x] < lastAccess[y]
                                              \/ x # key /\ y = key
      BY <2>2, <3>1
    <3> HIDE DEF L, D
    <3> QED BY <2>7, <2>8, <2>9, <3>2
  <2>10. Line' = L
    <3>1. PICK K, E : K = Line' /\ E = L
      OBVIOUS
    <3> HIDE DEF L, D
    <3>2. K \subseteq D \X D /\ E \subseteq D \X D
      BY <2>5, <2>6, <3>1
    <3>3. \A x, y \in D : <<x, y>> \in K <=> <<x, y>> \in E
      BY <2>9, <3>1
    <3>4. K = E
      BY ONLY <3>2, <3>3, SameLine
    <3> QED BY <3>1, <3>4
  <2> QED BY <1>2, <2>4, <2>10 DEF L, D
<1> QED BY <1>1, <1>2

\* An insertion joins the line at its end.
LEMMA InsertionJoins ==
  ASSUME QueueInv, Policy \in {"fifo", "lru"}, InsertPending
  PROVE  /\ cache_key(pending) \notin DOMAIN tiers[GPU]
         /\ DOMAIN tiers'[GPU] = (DOMAIN tiers[GPU]) \cup {cache_key(pending)}
         /\ Line' = Line \cup (DOMAIN tiers[GPU]) \X {cache_key(pending)}
         /\ StampsInv'
<1> DEFINE D == DOMAIN tiers[GPU]
<1>1. PICK key : key = cache_key(pending)
  OBVIOUS
<1>2. key \notin D
  BY <1>1 DEF QueueInv, PendingAbsent, InsertPending
<1>3. /\ tiers'[GPU] = put(tiers[GPU], pending) /\ pending \in Chunk
      /\ IsDict(tiers[GPU], Extent) /\ order \in Seq(CacheKey) /\ key \in CacheKey
  BY <1>1, InsertPendingFacts, ChunkFields
     DEF QueueInv, ClientInv, CacheInv, CacheTypeOK, Tiers
<1>4. DOMAIN tiers'[GPU] = D \cup {key}
  BY <1>1, <1>3, PutFacts
<1>5. order' = Append(order, key) /\ record_access(key)
  <2>1. Policy # "fltp"
    OBVIOUS
  <2> QED BY <1>1, <1>2, <2>1 DEF InsertPending, Present, record_store
<1>6. \A k \in D : Age(k) \in DOMAIN order /\ order[Age(k)] = k
  BY AgeFacts DEF QueueInv
<1>7. /\ Len(order) \in Nat /\ DOMAIN order = 1 .. Len(order)
      /\ DOMAIN order' = 1 .. Len(order) + 1
      /\ \A i \in 1 .. Len(order) : order'[i] = order[i]
      /\ order'[Len(order) + 1] = key
  BY <1>3, <1>5, LenProperties, AppendProperties
<1>8. IsInjective(order')
  <2>1. IsInjective(order) /\ key \notin ToSet(order)
    BY <1>2 DEF QueueInv, ClientInv, PolicyTracksTier
  <2> QED BY <1>3, <1>5, <2>1, AppendItems
<1>9. \A k : Age(k)' = CHOOSE m \in DOMAIN order' : order'[m] = k
  BY DEF Age
<1>10. \A k \in D : Age(k)' = Age(k)
  <2> SUFFICES ASSUME NEW k \in D PROVE Age(k)' = Age(k)
    OBVIOUS
  <2>1. PICK i : i = Age(k)
    OBVIOUS
  <2>2. i \in DOMAIN order' /\ order'[i] = k
    BY <1>6, <1>7, <2>1
  <2>3. \A m \in DOMAIN order' : order'[m] = k => m = i
    BY <2>2, <1>8 DEF IsInjective
  <2> QED BY <1>9, <2>1, <2>2, <2>3
<1>11. Age(key)' = Len(order) + 1
  <2>1. Len(order) + 1 \in DOMAIN order'
    BY <1>7
  <2>2. \A m \in DOMAIN order' : order'[m] = key => m = Len(order) + 1
    BY <1>7, <1>8, <2>1 DEF IsInjective
  <2> QED BY <1>7, <1>9, <2>1, <2>2
<1>12. /\ \A k \in D : Rank(k)' = Rank(k) /\ Rank(k) \in Nat /\ Rank(k) < Rank(key)'
       /\ Rank(key)' \in Nat
       /\ StampsInv'
  <2>1. CASE Policy = "fifo"
    <3>1. \A k : Rank(k) = Age(k) /\ Rank(k)' = Age(k)'
      BY <2>1 DEF Rank
    <3>2. \A k \in D : Age(k) \in Nat /\ Age(k) < Len(order) + 1
      BY <1>6, <1>7
    <3> QED BY <1>7, <1>10, <1>11, <2>1, <3>1, <3>2 DEF StampsInv
  <2>2. CASE Policy = "lru"
    <3>1. clock' = clock + 1 /\ lastAccess' = set(lastAccess, key, clock + 1)
      BY <1>5, <2>2 DEF record_access
    <3>2. /\ IsDict(lastAccess, Nat) /\ clock \in Nat
          /\ DOMAIN lastAccess = D
          /\ \A k \in D : lastAccess[k] <= clock
          /\ \A a, b \in D : lastAccess[a] = lastAccess[b] => a = b
      BY <2>2
         DEF QueueInv, StampsInv, ClientInv, CacheInv, CacheTypeOK, PolicyTracksTier
    <3>3. /\ DOMAIN lastAccess' = D \cup {key}
          /\ \A k \in D : lastAccess'[k] = lastAccess[k] /\ lastAccess[k] \in Nat
          /\ lastAccess'[key] = clock + 1
      BY <1>2, <3>1, <3>2 DEF set, IsDict
    <3>4. \A k : Rank(k) = lastAccess[k] /\ Rank(k)' = lastAccess'[k]
      BY <2>2 DEF Rank
    <3> HIDE DEF D
    <3>5. StampsInv'
      <4>1. \A k \in D \cup {key} : lastAccess'[k] <= clock'
        BY <3>1, <3>2, <3>3
      <4>2. \A a, b \in D \cup {key} : lastAccess'[a] = lastAccess'[b] => a = b
        <5> SUFFICES ASSUME NEW a \in D \cup {key}, NEW b \in D \cup {key},
                            lastAccess'[a] = lastAccess'[b]
                     PROVE  a = b
          OBVIOUS
        <5>1. CASE a \in D /\ b \in D
          BY <3>2, <3>3, <5>1
        <5>2. \A k \in D : lastAccess'[k] # lastAccess'[key]
          BY <3>2, <3>3
        <5> QED BY <5>1, <5>2
      <4> QED BY <3>3, <4>1, <4>2 DEF StampsInv
    <3> QED BY <3>2, <3>3, <3>4, <3>5
  <2> QED BY <2>1, <2>2
<1> DEFINE L == Line \cup D \X {key}
           F == D \cup {key}
<1>13. L \subseteq F \X F
  BY LineMembers
<1>14. Line' \subseteq F \X F
  BY <1>4 DEF Line
<1>15. \A x, y \in F : <<x, y>> \in Line' <=> Rank(x)' < Rank(y)'
  BY <1>4 DEF Line
<1>16. \A x, y \in F : <<x, y>> \in L <=> \/ x \in D /\ y \in D /\ Rank(x) < Rank(y)
                                          \/ x \in D /\ y = key
  BY <1>2, LineMembers
<1>17. ASSUME NEW x \in F, NEW y \in F PROVE <<x, y>> \in Line' <=> <<x, y>> \in L
  <2>1. CASE x \in D /\ y \in D
    BY <1>2, <1>12, <1>15, <1>16, <2>1
  <2>2. CASE x \in D /\ y = key
    <3>1. Rank(x)' < Rank(y)'
      BY <1>12, <2>2
    <3> HIDE DEF L
    <3> QED BY <1>15, <1>16, <2>2, <3>1
  <2>3. CASE x = key
    <3>1. ~(Rank(x)' < Rank(y)')
      <4>1. y \in D \/ y = key
        BY <1>17
      <4>2. CASE y \in D
        BY <1>12, <2>3, <4>2
      <4>3. CASE y = key
        BY <1>12, <2>3, <4>3
      <4> QED BY <4>1, <4>2, <4>3
    <3> HIDE DEF L
    <3> QED BY <1>2, <1>15, <1>16, <1>17, <2>3, <3>1
  <2> QED BY <1>17, <2>1, <2>2, <2>3
<1>18. Line' = L
  <2>1. PICK K, M : K = Line' /\ M = L
    OBVIOUS
  <2> HIDE DEF L, F
  <2>2. K \subseteq F \X F /\ M \subseteq F \X F
    BY <1>13, <1>14, <2>1
  <2>3. \A x, y \in F : <<x, y>> \in K <=> <<x, y>> \in M
    BY <1>17, <2>1
  <2>4. K = M
    BY ONLY <2>2, <2>3, SameLine
  <2> QED BY <2>1, <2>4
<1> QED BY <1>1, <1>2, <1>4, <1>12, <1>18

\* The victim is the first in line.
LEMMA VictimIsFirst ==
  ASSUME QueueInv, Policy \in {"fifo", "lru"}, NEW key \in Victims,
         NEW other \in (DOMAIN tiers[GPU]) \ {key}
  PROVE  <<key, other>> \in Line
<1>1. key \in DOMAIN tiers[GPU] /\ LexLess(score(key), score(other))
  BY DEF Victims
<1>2. Rank(key) \in Nat /\ Rank(other) \in Nat /\ Rank(key) # Rank(other)
  BY <1>1, RankFacts
<1>3. Rank(key) < Rank(other)
  <2>1. CASE Policy = "fifo"
    <3>1. score(key) = <<Rank(key)>> /\ score(other) = <<Rank(other)>>
      BY <2>1 DEF score, Rank
    <3> QED BY <1>1, <3>1 DEF LexLess
  <2>2. CASE Policy = "lru"
    <3>1. key \in DOMAIN lastAccess /\ other \in DOMAIN lastAccess
      BY <1>1, <2>2, RankFacts
    <3>2. /\ score(key) = <<Rank(key), Age(key)>>
          /\ score(other) = <<Rank(other), Age(other)>>
      BY <2>2, <3>1 DEF score, Rank, get
    <3>3. PICK i \in {1, 2} : /\ score(key)[i] < score(other)[i]
                              /\ \A j \in 1 .. i - 1 : score(key)[j] = score(other)[j]
      BY <1>1, <3>2 DEF LexLess
    <3>4. i = 1
      <4>1. i = 2 => score(key)[1] = score(other)[1]
        BY <3>3
      <4> QED BY <1>2, <3>2, <4>1
    <3> QED BY <3>2, <3>3, <3>4
  <2> QED BY <2>1, <2>2
<1> QED BY <1>1, <1>3, LineMembers

\* The three steps below are the only ones that touch the line.
LEMMA UntouchedLine ==
  ASSUME QueueInv, UNCHANGED <<tiers, order, policyVars>>
  PROVE  Line' = Line /\ StampsInv'
<1>1. \A k : Rank(k)' = Rank(k)
  BY DEF Rank, Age, policyVars
<1>2. Line' = Line
  BY <1>1 DEF Line
<1> QED BY <1>2 DEF QueueInv, StampsInv, policyVars

\* A call is refused, misses, hits, or begins an insertion.
LEMMA CallQueues ==
  ASSUME QueueInv, Policy \in {"fifo", "lru"}, NEW c \in ClientChunks,
         CallAccess(c) \/ CallStore(c) \/ CallStoreReplacing(c) \/ CallRaises(c)
  PROVE  /\ \/ Queue!Refuse
            \/ Asked' # <<>> /\ (Queue!Miss(Asked') \/ Queue!Hit(Asked')
                                   \/ Queue!BeginInsert(Asked'))
         /\ StampsInv' /\ PendingAbsent'
<1>1. PICK key : key = cache_key(c)
  OBVIOUS
<1>2. c # NoChunk /\ key # <<>> /\ cache_key(NoChunk) # <<>>
  BY <1>1, ClientChunkFacts DEF cache_key
<1>3. Idle /\ pending = NoChunk /\ Incoming = <<>>
  BY DEF CallAccess, CallStore, CallStoreReplacing, CallRaises,
         access, store, store_replacing, Idle, Incoming
<1>4. calls' = calls + 1 /\ last'.chunk = c
  BY DEF CallAccess, CallStore, CallStoreReplacing, CallRaises, Call
<1>5. CASE CallRaises(c)
  <2>1. Asked' = <<>> /\ UNCHANGED <<tiers, order, policyVars, pending>>
    BY <1>5 DEF CallRaises, Call, Asked, managerVars, policyVars
  <2>2. Incoming' = Incoming /\ Line' = Line /\ StampsInv' /\ PendingAbsent'
    BY <1>3, <2>1, UntouchedLine DEF Incoming, Idle, PendingAbsent
  <2> QED BY <1>3, <1>4, <2>1, <2>2 DEF Queue!Refuse, Queue!Ask
<1>6. CASE ~CallRaises(c)
  <2>1. Asked' = key
    BY <1>1, <1>4, <1>6 DEF CallAccess, CallStore, CallStoreReplacing, Call, Asked
  <2>2. \/ /\ key \notin DOMAIN tiers[GPU]
           /\ UNCHANGED <<tiers, order, policyVars, pending>>
        \/ /\ key \in DOMAIN tiers[GPU] /\ record_access(key)
           /\ UNCHANGED <<tiers, order, pending>>
        \/ /\ key \in DOMAIN tiers[GPU] /\ RemoveFromGPU(key) /\ pending' = c
        \/ /\ key \notin DOMAIN tiers[GPU] /\ pending' = c
           /\ UNCHANGED <<tiers, order, policyVars>>
    <3>1. CASE CallAccess(c)
      BY <1>1, <3>1 DEF CallAccess, access, Present
    <3>2. CASE CallStore(c)
      BY <1>1, <3>2 DEF CallStore, store, Present, KeepResident, StartStore
    <3>3. CASE CallStoreReplacing(c)
      BY <1>1, <3>3 DEF CallStoreReplacing, store_replacing, Present, KeepResident, StartStore
    <3> QED BY <1>6, <3>1, <3>2, <3>3
  <2>3. CASE /\ key \notin DOMAIN tiers[GPU]
             /\ UNCHANGED <<tiers, order, policyVars, pending>>
    <3>1. Incoming' = Incoming /\ Line' = Line /\ StampsInv' /\ PendingAbsent'
      BY <1>3, <2>3, UntouchedLine DEF Incoming, Idle, PendingAbsent
    <3>2. Queue!Miss(Asked')
      BY <1>3, <1>4, <2>1, <2>3, <3>1 DEF Queue!Miss, Queue!Ask
    <3> QED BY <1>2, <2>1, <3>1, <3>2
  <2>4. CASE /\ key \in DOMAIN tiers[GPU] /\ record_access(key)
             /\ UNCHANGED <<tiers, order, pending>>
    <3>1. /\ Line' = IF Policy = "lru"
                     THEN { p \in Line : key \notin {p[1], p[2]} }
                            \cup ((DOMAIN tiers[GPU]) \ {key}) \X {key}
                     ELSE Line
          /\ StampsInv'
      BY <2>4, HitMovesBack
    <3>2. Incoming' = Incoming /\ PendingAbsent'
      BY <1>3, <2>4 DEF Incoming, Idle, PendingAbsent
    <3>3. Queue!Hit(Asked')
      BY <1>3, <1>4, <2>1, <2>4, <3>1, <3>2 DEF Queue!Hit, Queue!Ask, Queue!Without
    <3> QED BY <1>2, <2>1, <3>1, <3>2, <3>3
  <2>5. CASE key \in DOMAIN tiers[GPU] /\ RemoveFromGPU(key) /\ pending' = c
    <3>1. /\ DOMAIN tiers'[GPU] = (DOMAIN tiers[GPU]) \ {key}
          /\ Line' = { p \in Line : key \notin {p[1], p[2]} }
          /\ StampsInv'
      BY <2>5, RemovalLeaves
    <3>2. Incoming' = key /\ PendingAbsent'
      BY <1>1, <1>2, <2>5, <3>1 DEF Incoming, Idle, PendingAbsent
    <3>3. Queue!BeginInsert(Asked')
      BY <1>3, <1>4, <2>1, <3>1, <3>2
         DEF Queue!BeginInsert, Queue!Ask, Queue!Leave, Queue!Without
    <3> QED BY <1>2, <2>1, <3>1, <3>2, <3>3
  <2>6. CASE /\ key \notin DOMAIN tiers[GPU] /\ pending' = c
             /\ UNCHANGED <<tiers, order, policyVars>>
    <3>1. Line' = Line /\ StampsInv'
      BY <2>6, UntouchedLine
    <3>2. Incoming' = key /\ PendingAbsent'
      BY <1>1, <1>2, <2>6 DEF Incoming, Idle, PendingAbsent
    <3>3. (DOMAIN tiers[GPU]) \ {key} = DOMAIN tiers[GPU]
      BY <2>6
    <3>4. { p \in Line : key \notin {p[1], p[2]} } = Line
      BY <2>6, LineMembers
    <3>5. Queue!BeginInsert(Asked')
      BY <1>3, <1>4, <2>1, <2>6, <3>1, <3>2, <3>3, <3>4
         DEF Queue!BeginInsert, Queue!Ask, Queue!Leave, Queue!Without
    <3> QED BY <1>2, <2>1, <3>1, <3>2, <3>5
  <2> QED BY <2>2, <2>3, <2>4, <2>5, <2>6
<1> QED BY <1>5, <1>6

\* The loop evicts from the front and inserts at the end.
LEMMA LoopQueues ==
  ASSUME QueueInv, Policy \in {"fifo", "lru"}, LoopStep
  PROVE  /\ Queue!EvictHead \/ Queue!EndInsert
         /\ StampsInv' /\ PendingAbsent'
<1>1. last' = last /\ calls' = calls /\ (EvictVictim \/ InsertPending)
  BY DEF LoopStep
<1>2. Asked' = Asked
  BY <1>1 DEF Asked
<1>3. ~Idle /\ Incoming = cache_key(pending) /\ Incoming # <<>>
  BY <1>1 DEF EvictVictim, InsertPending, Incoming, cache_key
<1>4. CASE EvictVictim
  <2>1. PICK key \in Victims : RemoveFromGPU(key)
    BY <1>4 DEF EvictVictim
  <2>2. key \in DOMAIN tiers[GPU] /\ pending' = pending
    BY <1>4 DEF EvictVictim, Victims
  <2>3. /\ DOMAIN tiers'[GPU] = (DOMAIN tiers[GPU]) \ {key}
        /\ Line' = { p \in Line : key \notin {p[1], p[2]} }
        /\ StampsInv'
    BY <2>1, <2>2, RemovalLeaves
  <2>4. Incoming' = Incoming /\ PendingAbsent'
    BY <2>2, <2>3 DEF Incoming, Idle, QueueInv, PendingAbsent
  <2>5. \A other \in (DOMAIN tiers[GPU]) \ {key} : <<key, other>> \in Line
    BY VictimIsFirst
  <2>6. Queue!EvictHead
    BY <1>1, <1>2, <1>3, <2>2, <2>3, <2>4, <2>5
       DEF Queue!EvictHead, Queue!Leave, Queue!Without
  <2> QED BY <2>3, <2>4, <2>6
<1>5. CASE InsertPending
  <2>1. Incoming' = <<>> /\ PendingAbsent'
    BY <1>5 DEF InsertPending, Incoming, Idle, PendingAbsent
  <2>2. /\ Incoming \notin DOMAIN tiers[GPU]
        /\ DOMAIN tiers'[GPU] = (DOMAIN tiers[GPU]) \cup {Incoming}
        /\ Line' = Line \cup (DOMAIN tiers[GPU]) \X {Incoming}
        /\ StampsInv'
    BY <1>3, <1>5, InsertionJoins
  <2>3. Queue!EndInsert
    BY <1>1, <1>2, <1>3, <2>1, <2>2 DEF Queue!EndInsert
  <2> QED BY <2>1, <2>2, <2>3
<1> QED BY <1>1, <1>4, <1>5

\* Under FIFO and LRU the cache is the queue that the policy is named after,
\* whatever the client calls.
THEOREM ClientImplementsQueue ==
  ASSUME Policy \in {"fifo", "lru"}
  PROVE  ClientSpec => ImplementsQueue
<1>1. ClientInit => QueueInv /\ Queue!QueueInit
  <2> SUFFICES ASSUME ClientInit PROVE QueueInv /\ Queue!QueueInit
    OBVIOUS
  <2>1. /\ tiers[GPU] = EmptyDict /\ pending = NoChunk /\ calls = 0
        /\ lastAccess = [k \in {} |-> 0]
        /\ last.op = "none"
    BY DEF ClientInit, CacheInit, PolicyInit, Tiers
  <2>2. DOMAIN tiers[GPU] = {} /\ DOMAIN lastAccess = {} /\ Idle
    BY <2>1 DEF EmptyDict, Idle
  <2>3. StampsInv /\ PendingAbsent
    BY <2>2 DEF StampsInv, PendingAbsent
  <2>4. Line = {} /\ Incoming = <<>> /\ Asked = <<>>
    BY <2>1, <2>2 DEF Line, Incoming, Asked
  <2> QED BY <2>1, <2>2, <2>3, <2>4, ClientInitInv DEF QueueInv, Queue!QueueInit
<1>2. QueueInv /\ ClientInv' /\ [ClientNext]_clientVars
        => StampsInv' /\ PendingAbsent' /\ [Queue!QueueNext]_(Queue!queueVars)
  <2> SUFFICES ASSUME QueueInv, [ClientNext]_clientVars
               PROVE  StampsInv' /\ PendingAbsent' /\ [Queue!QueueNext]_(Queue!queueVars)
    OBVIOUS
  <2>1. CASE UNCHANGED clientVars
    <3>1. UNCHANGED <<tiers, order, policyVars, pending, last, calls>>
      BY <2>1 DEF clientVars, managerVars, policyVars
    <3>2. Line' = Line /\ StampsInv'
      BY <3>1, UntouchedLine
    <3>3. Incoming' = Incoming /\ Asked' = Asked /\ PendingAbsent'
      BY <3>1 DEF Incoming, Idle, Asked, QueueInv, PendingAbsent
    <3>4. UNCHANGED Queue!queueVars
      BY <3>1, <3>2, <3>3 DEF Queue!queueVars
    <3> QED BY <3>2, <3>3, <3>4
  <2>2. CASE LoopStep
    BY <2>2, LoopQueues DEF Queue!QueueNext
  <2>3. ASSUME NEW c \in ClientChunks,
               CallAccess(c) \/ CallStore(c) \/ CallStoreReplacing(c) \/ CallRaises(c)
        PROVE  StampsInv' /\ PendingAbsent' /\ Queue!QueueNext
    BY <2>3, CallQueues DEF Queue!QueueNext
  <2> QED BY <2>1, <2>2, <2>3 DEF ClientNext
<1>3. ClientSpec => []QueueInv
  <2>1. QueueInv /\ ClientInv' /\ [ClientNext]_clientVars => QueueInv'
    BY <1>2 DEF QueueInv
  <2> QED BY <1>1, <2>1, ClientInvariant, PTL DEF ClientSpec
<1>4. QueueInv => ClientInv
  BY DEF QueueInv
<1> QED BY <1>1, <1>2, <1>3, <1>4, ClientInvariant, PTL
         DEF ClientSpec, ImplementsQueue, Queue!QueueSpec

=============================================================================
