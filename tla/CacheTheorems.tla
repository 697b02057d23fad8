---------------------------- MODULE CacheTheorems ---------------------------
(***************************************************************************)
(* Lemmas about the steps of the cache manager.                            *)
(***************************************************************************)
EXTENDS CacheManager, TierTheorems

\* Every resident chunk has a place in the dictionary order of the tier.
OrderListsTier ==
  \A k \in DOMAIN tiers[GPU] : \E i \in DOMAIN order : order[i] = k

CacheInv == CacheTypeOK /\ OrderListsTier

\* What RemoveAt leaves: the items behind the removed one move up by one.
LEMMA RemoveAtItems ==
  ASSUME NEW S, NEW s \in Seq(S), NEW n \in DOMAIN s
  PROVE  /\ RemoveAt(s, n) \in Seq(S)
         /\ Len(s) \in Nat /\ DOMAIN s = 1 .. Len(s)
         /\ DOMAIN RemoveAt(s, n) = 1 .. Len(s) - 1
         /\ \A i \in 1 .. Len(s) - 1 :
              RemoveAt(s, n)[i] = IF i < n THEN s[i] ELSE s[i + 1]
<1> DEFINE front == SubSeq(s, 1, n - 1)
           back == SubSeq(s, n + 1, Len(s))
<1>1. n \in 1 .. Len(s) /\ Len(s) \in Nat /\ DOMAIN s = 1 .. Len(s)
  BY LenProperties
<1>2. /\ front \in Seq(S)
      /\ Len(front) = n - 1
      /\ \A i \in 1 .. n - 1 : front[i] = s[i]
  BY <1>1, SubSeqProperties
<1>3. /\ back \in Seq(S)
      /\ Len(back) = Len(s) - n
      /\ \A i \in 1 .. Len(s) - n : back[i] = s[n + i]
  BY SMTT(30), <1>1, SubSeqProperties
<1>4. RemoveAt(s, n) = front \o back
  BY DEF RemoveAt
<1> HIDE DEF front, back
<1>5. /\ front \o back \in Seq(S)
      /\ Len(front \o back) = Len(s) - 1
      /\ \A i \in 1 .. Len(s) - 1 :
           (front \o back)[i] = IF i <= n - 1 THEN front[i] ELSE back[i - (n - 1)]
  <2>1. Len(front) + Len(back) = Len(s) - 1
    BY <1>1, <1>2, <1>3
  <2>2. front \in Seq(S) /\ back \in Seq(S)
    BY <1>2, <1>3
  <2>3. /\ front \o back \in Seq(S)
        /\ Len(front \o back) = Len(front) + Len(back)
        /\ \A i \in 1 .. Len(front) + Len(back) :
             (front \o back)[i] = IF i <= Len(front) THEN front[i] ELSE back[i - Len(front)]
    BY <2>2, ConcatProperties, Zenon
  <2>4. Len(front) = n - 1
    BY <1>2
  <2> QED BY <2>1, <2>3, <2>4, Zenon
<1>6. DOMAIN (front \o back) = 1 .. Len(s) - 1
  BY <1>5, LenProperties
<1>7. ASSUME NEW i \in 1 .. Len(s) - 1
      PROVE  (front \o back)[i] = IF i < n THEN s[i] ELSE s[i + 1]
  <2>1. CASE i < n
    <3>1. i <= n - 1 /\ i \in 1 .. n - 1
      BY <1>1, <2>1
    <3> QED BY <1>2, <1>5, <2>1, <3>1
  <2>2. CASE ~(i < n)
    <3>1. ~(i <= n - 1) /\ i - (n - 1) \in 1 .. Len(s) - n /\ n + (i - (n - 1)) = i + 1
      BY <1>1, <2>2
    <3> QED BY <1>3, <1>5, <2>2, <3>1
  <2> QED BY <2>1, <2>2
<1> QED BY <1>1, <1>4, <1>5, <1>6, <1>7

\* A removal from the order keeps every other key in it.
LEMMA RemoveAtFacts ==
  ASSUME NEW S, NEW s \in Seq(S), NEW n \in DOMAIN s
  PROVE  /\ RemoveAt(s, n) \in Seq(S)
         /\ \A i \in DOMAIN s \ {n} :
              \E j \in DOMAIN RemoveAt(s, n) : RemoveAt(s, n)[j] = s[i]
<1>1. /\ RemoveAt(s, n) \in Seq(S)
      /\ Len(s) \in Nat /\ DOMAIN s = 1 .. Len(s)
      /\ DOMAIN RemoveAt(s, n) = 1 .. Len(s) - 1
      /\ \A i \in 1 .. Len(s) - 1 :
           RemoveAt(s, n)[i] = IF i < n THEN s[i] ELSE s[i + 1]
  BY RemoveAtItems
<1>2. ASSUME NEW i \in DOMAIN s \ {n}
      PROVE  \E j \in DOMAIN RemoveAt(s, n) : RemoveAt(s, n)[j] = s[i]
  <2>1. CASE i < n
    BY <1>1, <2>1
  <2>2. CASE i > n
    <3>1. i - 1 \in 1 .. Len(s) - 1 /\ ~(i - 1 < n) /\ (i - 1) + 1 = i
      BY <1>1, <2>2
    <3> QED BY <1>1, <3>1
  <2> QED BY <1>1, <2>1, <2>2
<1> QED BY <1>1, <1>2

\* If no item occurs twice, exactly the removed one is gone.
LEMMA RemoveAtInjective ==
  ASSUME NEW S, NEW s \in Seq(S), NEW n \in DOMAIN s, IsInjective(s)
  PROVE  /\ IsInjective(RemoveAt(s, n))
         /\ ToSet(RemoveAt(s, n)) = ToSet(s) \ {s[n]}
<1> DEFINE r == RemoveAt(s, n)
           Old(i) == IF i < n THEN i ELSE i + 1
<1>1. /\ Len(s) \in Nat /\ DOMAIN s = 1 .. Len(s)
      /\ DOMAIN r = 1 .. Len(s) - 1
      /\ \A i \in 1 .. Len(s) - 1 : r[i] = IF i < n THEN s[i] ELSE s[i + 1]
  BY RemoveAtItems
<1>2. \A i \in DOMAIN r : Old(i) \in DOMAIN s \ {n} /\ r[i] = s[Old(i)]
  BY <1>1
<1>3. \A i, j \in DOMAIN s : s[i] = s[j] => i = j
  BY DEF IsInjective
<1>4. ASSUME NEW i \in DOMAIN r, NEW j \in DOMAIN r, r[i] = r[j] PROVE i = j
  <2>1. Old(i) = Old(j)
    <3> HIDE DEF Old, r
    <3> QED BY <1>2, <1>3, <1>4
  <2> QED BY <1>1, <2>1
<1>5. \A i \in DOMAIN r : r[i] \in ToSet(s) \ {s[n]}
  <2> HIDE DEF Old, r
  <2> QED BY <1>2, <1>3 DEF ToSet
<1>6. \A i \in DOMAIN s \ {n} : \E j \in DOMAIN r : r[j] = s[i]
  BY RemoveAtFacts
<1> HIDE DEF r
<1>7. IsInjective(r)
  BY <1>4 DEF IsInjective
<1>8. \A x \in ToSet(s) \ {s[n]} : \E i \in DOMAIN s \ {n} : x = s[i]
  BY DEF ToSet
<1>9. ToSet(r) = { r[i] : i \in DOMAIN r }
  BY DEF ToSet
<1>10. ToSet(r) = ToSet(s) \ {s[n]}
  BY <1>5, <1>6, <1>8, <1>9
<1> QED BY <1>7, <1>10 DEF r

\* An insertion puts its key last.
LEMMA AppendItems ==
  ASSUME NEW S, NEW s \in Seq(S), NEW e \in S
  PROVE  /\ ToSet(Append(s, e)) = ToSet(s) \cup {e}
         /\ IsInjective(s) /\ e \notin ToSet(s) => IsInjective(Append(s, e))
<1>1. /\ Len(s) \in Nat /\ DOMAIN s = 1 .. Len(s)
      /\ DOMAIN Append(s, e) = 1 .. Len(s) + 1
      /\ \A i \in 1 .. Len(s) : Append(s, e)[i] = s[i]
      /\ Append(s, e)[Len(s) + 1] = e
  BY LenProperties, AppendProperties
<1>2. \A i \in 1 .. Len(s) + 1 : i \in 1 .. Len(s) \/ i = Len(s) + 1
  BY <1>1
<1>3. \A i \in 1 .. Len(s) : i \in 1 .. Len(s) + 1
  BY <1>1
<1>4. ToSet(Append(s, e)) = ToSet(s) \cup {e}
  <2>1. Len(s) + 1 \in 1 .. Len(s) + 1
    BY <1>1
  <2> QED BY <1>1, <1>2, <1>3, <2>1 DEF ToSet
<1>5. IsInjective(s) /\ e \notin ToSet(s) => IsInjective(Append(s, e))
  BY <1>1, <1>2 DEF IsInjective, ToSet
<1> QED BY <1>4, <1>5

\* The dictionaries of a policy after an assignment or a removal.
LEMMA SetPopFacts ==
  ASSUME NEW d, IsDict(d, Nat), NEW key \in CacheKey, NEW n \in Nat
  PROVE  /\ IsDict(set(d, key, n), Nat)
         /\ IsDict(pop(d, key), Nat)
         /\ get(d, key, 0) \in Nat
  BY DEF IsDict, set, pop, get

PolicyTypeOK ==
  clock \in Nat /\ \A d \in {lastAccess, accessCount, insertOrder} : IsDict(d, Nat)

\* The policy's bookkeeping is preserved by its three operations.
LEMMA RecordTypes ==
  ASSUME PolicyTypeOK, NEW key \in CacheKey,
         record_access(key) \/ record_store(key) \/ record_remove(key)
  PROVE  PolicyTypeOK'
<1> USE DEF PolicyTypeOK
<1>1. /\ clock \in Nat /\ clock + 1 \in Nat
      /\ IsDict(lastAccess, Nat) /\ IsDict(accessCount, Nat) /\ IsDict(insertOrder, Nat)
  OBVIOUS
<1>2. ASSUME record_access(key) PROVE PolicyTypeOK'
  <2>1. IsDict(set(lastAccess, key, clock + 1), Nat)
    BY <1>1, SetPopFacts
  <2>2. get(accessCount, key, 0) + 1 \in Nat
    BY <1>1, SetPopFacts
  <2>3. IsDict(set(accessCount, key, get(accessCount, key, 0) + 1), Nat)
    BY <1>1, <2>2, SetPopFacts
  <2>4. CASE Policy = "lru"
    BY <1>1, <1>2, <2>1, <2>4 DEF record_access
  <2>5. CASE Policy = "fltp"
    BY <1>1, <1>2, <2>3, <2>5 DEF record_access
  <2>6. CASE Policy # "lru" /\ Policy # "fltp"
    BY <1>1, <1>2, <2>6 DEF record_access, policyVars
  <2> QED BY <2>4, <2>5, <2>6
<1>3. ASSUME record_store(key) PROVE PolicyTypeOK'
  <2>1. IsDict(set(accessCount, key, 0), Nat) /\ IsDict(set(insertOrder, key, clock + 1), Nat)
    BY <1>1, SetPopFacts
  <2>2. CASE Policy = "fltp"
    BY <1>1, <1>3, <2>1, <2>2 DEF record_store
  <2>3. CASE Policy # "fltp"
    BY <1>2, <1>3, <2>3 DEF record_store
  <2> QED BY <2>2, <2>3
<1>4. ASSUME record_remove(key) PROVE PolicyTypeOK'
  <2>1. /\ IsDict(pop(lastAccess, key), Nat) /\ IsDict(pop(accessCount, key), Nat)
        /\ IsDict(pop(insertOrder, key), Nat)
    BY <1>1, SetPopFacts
  <2> QED BY <1>1, <1>4, <2>1 DEF record_remove
<1> QED BY <1>2, <1>3, <1>4

\* A victim and a pending store are resident keys and typed chunks.
LEMMA RemoveFromGPUFacts ==
  ASSUME CacheInv, NEW key \in DOMAIN tiers[GPU], RemoveFromGPU(key)
  PROVE  /\ DOMAIN tiers' = Tiers
         /\ \A t \in Tiers : IsDict(tiers'[t], Extent)
         /\ tiers'[GPU] = drop(tiers[GPU], key)
         /\ \A t \in ColdTiers : tiers'[t] = tiers[t]
         /\ order' \in Seq(CacheKey)
         /\ PolicyTypeOK'
         /\ OrderListsTier'
<1>1. /\ DOMAIN tiers = Tiers /\ GPU \in Tiers /\ IsDict(tiers[GPU], Extent)
      /\ \A t \in Tiers : IsDict(tiers[t], Extent)
      /\ order \in Seq(CacheKey) /\ PolicyTypeOK
  BY DEF CacheInv, CacheTypeOK, PolicyTypeOK, Tiers
<1>2. key \in CacheKey
  BY <1>1 DEF IsDict
<1>3. GPU \notin ColdTiers
  BY TierAssumption DEF TierAssumption
<1>4. /\ tiers' = [tiers EXCEPT ![GPU] = drop(tiers[GPU], key)]
      /\ order' = RemoveAt(order, Age(key))
      /\ record_remove(key)
  BY DEF RemoveFromGPU
<1>5. /\ IsDict(drop(tiers[GPU], key), Extent)
      /\ DOMAIN drop(tiers[GPU], key) = DOMAIN tiers[GPU] \ {key}
  BY <1>1, DropFacts
<1>6. /\ DOMAIN tiers' = Tiers
      /\ tiers'[GPU] = drop(tiers[GPU], key)
      /\ \A t \in ColdTiers : tiers'[t] = tiers[t]
  BY <1>1, <1>3, <1>4 DEF Tiers
<1>7. \A t \in Tiers : IsDict(tiers'[t], Extent)
  BY <1>1, <1>5, <1>6 DEF Tiers
<1>8. Age(key) \in DOMAIN order /\ order[Age(key)] = key
  BY DEF Age, CacheInv, OrderListsTier
<1>9. /\ order' \in Seq(CacheKey)
      /\ \A i \in DOMAIN order \ {Age(key)} :
           \E j \in DOMAIN order' : order'[j] = order[i]
  BY <1>1, <1>4, <1>8, RemoveAtFacts
<1>10. OrderListsTier'
  <2> SUFFICES ASSUME NEW k \in DOMAIN tiers'[GPU]
               PROVE  \E j \in DOMAIN order' : order'[j] = k
    BY DEF OrderListsTier
  <2>1. k \in DOMAIN tiers[GPU] /\ k # key
    BY <1>5, <1>6
  <2>2. PICK i \in DOMAIN order : order[i] = k
    BY <2>1 DEF CacheInv, OrderListsTier
  <2> QED BY <1>8, <1>9, <2>1, <2>2
<1>11. PolicyTypeOK'
  BY <1>1, <1>2, <1>4, RecordTypes
<1> QED BY <1>6, <1>7, <1>9, <1>10, <1>11

\* One iteration of the eviction loop.
LEMMA EvictVictimFacts ==
  ASSUME CacheInv, EvictVictim
  PROVE  /\ CacheInv'
         /\ \A t \in ColdTiers : tiers'[t] = tiers[t]
         /\ \A k : coverage(tiers'[GPU], k) <= coverage(tiers[GPU], k)
         /\ pending' = pending
<1>1. PICK key \in Victims : RemoveFromGPU(key) /\ evicted' = Append(evicted, key)
  BY DEF EvictVictim
<1>2. key \in DOMAIN tiers[GPU]
  BY <1>1 DEF Victims
<1>3. IsDict(tiers[GPU], Extent)
  BY DEF CacheInv, CacheTypeOK, Tiers
<1>4. /\ DOMAIN tiers' = Tiers
      /\ \A t \in Tiers : IsDict(tiers'[t], Extent)
      /\ tiers'[GPU] = drop(tiers[GPU], key)
      /\ \A t \in ColdTiers : tiers'[t] = tiers[t]
      /\ order' \in Seq(CacheKey)
      /\ PolicyTypeOK'
      /\ OrderListsTier'
  BY <1>1, <1>2, RemoveFromGPUFacts
<1>5. pending' = pending /\ pending \in Chunk \cup {NoChunk}
  BY DEF EvictVictim, CacheInv, CacheTypeOK
<1>6. evicted' \in Seq(CacheKey)
  BY <1>1, <1>2, <1>3 DEF CacheInv, CacheTypeOK, IsDict
<1>7. \A k : coverage(tiers'[GPU], k) <= coverage(tiers[GPU], k)
  BY <1>3, <1>4, DropShrinks
<1>8. CacheInv'
  BY <1>4, <1>5, <1>6 DEF CacheInv, CacheTypeOK, PolicyTypeOK
<1> QED BY <1>4, <1>5, <1>7, <1>8

\* A hit leaves the tiers alone and keeps the policy's bookkeeping typed.
LEMMA AccessFacts ==
  ASSUME CacheInv, NEW key, access(key)
  PROVE  CacheInv' /\ tiers' = tiers /\ pending' = pending
<1>1. tiers' = tiers /\ order' = order /\ pending' = pending /\ evicted' = evicted
  BY DEF access
<1>2. IsDict(tiers[GPU], Extent) /\ PolicyTypeOK
  BY DEF CacheInv, CacheTypeOK, PolicyTypeOK, Tiers
<1>3. PolicyTypeOK'
  <2>1. CASE Present(GPU, key)
    <3>1. key \in CacheKey
      BY <1>2, <2>1 DEF IsDict, Present
    <3> QED BY <1>2, <2>1, <3>1, RecordTypes DEF access
  <2>2. CASE ~Present(GPU, key)
    BY <1>2, <2>2 DEF access, policyVars, PolicyTypeOK
  <2> QED BY <2>1, <2>2
<1> QED BY <1>1, <1>3 DEF CacheInv, CacheTypeOK, PolicyTypeOK, OrderListsTier

\* A store call keeps a resident chunk, or makes it pending; whatever it does
\* to the tiers, it takes from the GPU at most an entry of the same key.
LEMMA StoreFacts ==
  ASSUME CacheInv, NEW c \in Chunk, store(c) \/ store_replacing(c)
  PROVE  /\ CacheInv'
         /\ \A t \in ColdTiers : tiers'[t] = tiers[t]
         /\ \A k : coverage(tiers'[GPU], k) <= coverage(tiers[GPU], k)
         /\ \/ pending' = c
            \/ /\ pending' = NoChunk
               /\ tiers' = tiers
               /\ Present(GPU, cache_key(c))
               /\ store_replacing(c) => c.end <= coverage(tiers[GPU], cache_key(c))
<1> DEFINE key == cache_key(c)
<1>1. /\ \A t \in Tiers : IsDict(tiers[t], Extent)
      /\ IsDict(tiers[GPU], Extent) /\ PolicyTypeOK
  BY DEF CacheInv, CacheTypeOK, PolicyTypeOK, Tiers
<1>2. \A k : coverage(tiers[GPU], k) \in Nat
  BY <1>1, CoverageFacts
<1>3. key \in CacheKey /\ c.end \in Nat
  BY ChunkFields
<1>4. \/ Present(GPU, key) /\ KeepResident(key)
           /\ (store_replacing(c) => c.end <= coverage(tiers[GPU], key))
      \/ StartStore(c) /\ RemoveFromGPU(key) /\ Present(GPU, key)
      \/ StartStore(c) /\ UNCHANGED <<tiers, order, policyVars>>
  <2>1. CASE store(c) /\ ~store_replacing(c)
    BY <2>1 DEF store
  <2>2. CASE store_replacing(c)
    BY <1>2, <1>3, <2>2 DEF store_replacing, StartStore, KeepResident, NoChunk, Chunk
  <2> QED BY <2>1, <2>2
<1>5. CASE Present(GPU, key) /\ KeepResident(key)
           /\ (store_replacing(c) => c.end <= coverage(tiers[GPU], key))
  <2>1. /\ tiers' = tiers /\ order' = order /\ pending' = pending /\ evicted' = <<>>
        /\ record_access(key)
    BY <1>5 DEF KeepResident
  <2>2. PolicyTypeOK'
    BY <1>1, <1>3, <2>1, RecordTypes
  <2>3. CacheInv'
    BY <2>1, <2>2 DEF CacheInv, CacheTypeOK, PolicyTypeOK, OrderListsTier
  <2>4. pending = NoChunk
    BY DEF store, store_replacing, Idle
  <2> QED BY <1>2, <1>5, <2>1, <2>3, <2>4
<1>6. CASE StartStore(c) /\ RemoveFromGPU(key) /\ Present(GPU, key)
  <2>1. /\ DOMAIN tiers' = Tiers
        /\ \A t \in Tiers : IsDict(tiers'[t], Extent)
        /\ tiers'[GPU] = drop(tiers[GPU], key)
        /\ \A t \in ColdTiers : tiers'[t] = tiers[t]
        /\ order' \in Seq(CacheKey)
        /\ PolicyTypeOK'
        /\ OrderListsTier'
    BY <1>6, RemoveFromGPUFacts DEF Present
  <2>2. pending' = c /\ evicted' = <<>>
    BY <1>6 DEF StartStore
  <2>3. CacheInv'
    BY <2>1, <2>2 DEF CacheInv, CacheTypeOK, PolicyTypeOK
  <2>4. \A k : coverage(tiers'[GPU], k) <= coverage(tiers[GPU], k)
    BY <1>1, <2>1, DropShrinks
  <2> QED BY <2>1, <2>2, <2>3, <2>4
<1>7. CASE StartStore(c) /\ UNCHANGED <<tiers, order, policyVars>>
  <2>1. /\ tiers' = tiers /\ order' = order /\ pending' = c /\ evicted' = <<>>
        /\ PolicyTypeOK'
    BY <1>1, <1>7 DEF StartStore, policyVars, PolicyTypeOK
  <2>2. CacheInv'
    BY <2>1 DEF CacheInv, CacheTypeOK, PolicyTypeOK, OrderListsTier
  <2> QED BY <1>2, <2>1, <2>2
<1> QED BY <1>4, <1>5, <1>6, <1>7

\* The insertion that ends a store.
LEMMA InsertPendingFacts ==
  ASSUME CacheInv, InsertPending
  PROVE  /\ CacheInv'
         /\ pending \in Chunk
         /\ tiers'[GPU] = put(tiers[GPU], pending)
         /\ \A t \in ColdTiers : tiers'[t] = tiers[t]
         /\ pending' = NoChunk
<1>1. pending \in Chunk
  BY DEF InsertPending, Idle, CacheInv, CacheTypeOK
<1> DEFINE key == cache_key(pending)
<1>2. /\ DOMAIN tiers = Tiers /\ GPU \in Tiers
      /\ \A t \in Tiers : IsDict(tiers[t], Extent)
      /\ order \in Seq(CacheKey) /\ PolicyTypeOK
      /\ evicted \in Seq(CacheKey)
  BY DEF CacheInv, CacheTypeOK, PolicyTypeOK, Tiers
<1>3. key \in CacheKey
  BY <1>1, ChunkFields
<1>4. /\ tiers' = [tiers EXCEPT ![GPU] = put(tiers[GPU], pending)]
      /\ order' = IF Present(GPU, key) THEN order ELSE Append(order, key)
      /\ record_store(key)
      /\ pending' = NoChunk
      /\ evicted' = evicted
  BY DEF InsertPending
<1>5. /\ IsDict(put(tiers[GPU], pending), Extent)
      /\ DOMAIN put(tiers[GPU], pending) = DOMAIN tiers[GPU] \cup {key}
  BY <1>1, <1>2, PutFacts
<1>6. /\ DOMAIN tiers' = Tiers
      /\ tiers'[GPU] = put(tiers[GPU], pending)
      /\ \A t \in ColdTiers : tiers'[t] = tiers[t]
  BY <1>2, <1>4, TierAssumption DEF Tiers, TierAssumption
<1>7. \A t \in Tiers : IsDict(tiers'[t], Extent)
  BY <1>2, <1>5, <1>6 DEF Tiers
<1>8. order' \in Seq(CacheKey)
  BY <1>2, <1>3, <1>4
<1>9. OrderListsTier'
  <2> SUFFICES ASSUME NEW k \in DOMAIN tiers'[GPU]
               PROVE  \E j \in DOMAIN order' : order'[j] = k
    BY DEF OrderListsTier
  <2>1. CASE k \in DOMAIN tiers[GPU]
    <3>1. PICK i \in DOMAIN order : order[i] = k
      BY <2>1 DEF CacheInv, OrderListsTier
    <3> QED BY <1>2, <1>4, <3>1
  <2>2. CASE k \notin DOMAIN tiers[GPU]
    <3>1. k = key /\ order' = Append(order, key)
      BY <1>4, <1>5, <1>6, <2>2 DEF Present
    <3>2. Len(order) + 1 \in DOMAIN order' /\ order'[Len(order) + 1] = key
      BY <1>2, <3>1
    <3> QED BY <3>1, <3>2
  <2> QED BY <2>1, <2>2
<1>10. PolicyTypeOK'
  BY <1>2, <1>3, <1>4, RecordTypes
<1>11. CacheInv'
  BY <1>2, <1>4, <1>6, <1>7, <1>8, <1>9, <1>10 DEF CacheInv, CacheTypeOK, PolicyTypeOK
<1> QED BY <1>1, <1>4, <1>6, <1>11

-----------------------------------------------------------------------------
(* The policy's bookkeeping and the capacity of the GPU tier.              *)

\* Which keys the policy's dictionaries list after each of its operations.
LEMMA RecordKeys ==
  ASSUME NEW R, NEW key,
         Policy = "lru"  => DOMAIN lastAccess = R,
         Policy = "fltp" => DOMAIN accessCount = R /\ DOMAIN insertOrder = R
  PROVE  /\ record_access(key) /\ key \in R =>
              /\ Policy = "lru"  => DOMAIN lastAccess' = R
              /\ Policy = "fltp" => DOMAIN accessCount' = R /\ DOMAIN insertOrder' = R
         /\ record_store(key) =>
              /\ Policy = "lru"  => DOMAIN lastAccess' = R \cup {key}
              /\ Policy = "fltp" => /\ DOMAIN accessCount' = R \cup {key}
                                    /\ DOMAIN insertOrder' = R \cup {key}
         /\ record_remove(key) =>
              /\ Policy = "lru"  => DOMAIN lastAccess' = R \ {key}
              /\ Policy = "fltp" => /\ DOMAIN accessCount' = R \ {key}
                                    /\ DOMAIN insertOrder' = R \ {key}
<1>1. /\ \A d, v : DOMAIN set(d, key, v) = DOMAIN d \cup {key}
      /\ \A d : DOMAIN pop(d, key) = DOMAIN d \ {key}
  BY DEF set, pop
<1>2. ASSUME record_access(key), key \in R
      PROVE  /\ Policy = "lru"  => DOMAIN lastAccess' = R
             /\ Policy = "fltp" => DOMAIN accessCount' = R /\ DOMAIN insertOrder' = R
  <2>1. R \cup {key} = R
    BY <1>2
  <2> QED BY ZenonT(30), <1>1, <1>2, <2>1 DEF record_access
<1>3. ASSUME record_store(key)
      PROVE  /\ Policy = "lru"  => DOMAIN lastAccess' = R \cup {key}
             /\ Policy = "fltp" => /\ DOMAIN accessCount' = R \cup {key}
                                   /\ DOMAIN insertOrder' = R \cup {key}
  BY <1>1, <1>3 DEF record_store, record_access
<1>4. ASSUME record_remove(key)
      PROVE  /\ Policy = "lru"  => DOMAIN lastAccess' = R \ {key}
             /\ Policy = "fltp" => /\ DOMAIN accessCount' = R \ {key}
                                   /\ DOMAIN insertOrder' = R \ {key}
  BY <1>1, <1>4 DEF record_remove
<1> QED BY <1>2, <1>3, <1>4

\* The tier's dictionary stays finite; sums of its bytes are defined.
GPUFinite == IsFiniteSet(DOMAIN tiers[GPU])

\* A removal takes the key out of the tier, its order and the policy at once.
LEMMA RemovalTracks ==
  ASSUME CacheInv, PolicyTracksTier, NEW key \in DOMAIN tiers[GPU], RemoveFromGPU(key)
  PROVE  PolicyTracksTier'
<1>1. tiers'[GPU] = drop(tiers[GPU], key) /\ IsDict(tiers[GPU], Extent)
  BY RemoveFromGPUFacts DEF CacheInv, CacheTypeOK, Tiers
<1>2. DOMAIN tiers'[GPU] = DOMAIN tiers[GPU] \ {key}
  BY <1>1, DropFacts
<1>3. Age(key) \in DOMAIN order /\ order[Age(key)] = key
  BY DEF Age, CacheInv, OrderListsTier
<1>4. order \in Seq(CacheKey) /\ order' = RemoveAt(order, Age(key)) /\ record_remove(key)
  BY DEF CacheInv, CacheTypeOK, RemoveFromGPU
<1>5. IsInjective(order') /\ ToSet(order') = ToSet(order) \ {key}
  BY <1>3, <1>4, RemoveAtInjective DEF PolicyTracksTier
<1>6. /\ Policy = "lru"  => DOMAIN lastAccess' = DOMAIN tiers[GPU] \ {key}
      /\ Policy = "fltp" => /\ DOMAIN accessCount' = DOMAIN tiers[GPU] \ {key}
                            /\ DOMAIN insertOrder' = DOMAIN tiers[GPU] \ {key}
  BY <1>4, RecordKeys DEF PolicyTracksTier
<1> QED BY <1>2, <1>5, <1>6 DEF PolicyTracksTier

\* A hit, or a store that keeps the resident, leaves the keys as they are.
LEMMA HitTracks ==
  ASSUME PolicyTracksTier, NEW key \in DOMAIN tiers[GPU],
         record_access(key), UNCHANGED <<tiers, order>>
  PROVE  PolicyTracksTier'
<1>1. /\ Policy = "lru"  => DOMAIN lastAccess' = DOMAIN tiers[GPU]
      /\ Policy = "fltp" => /\ DOMAIN accessCount' = DOMAIN tiers[GPU]
                            /\ DOMAIN insertOrder' = DOMAIN tiers[GPU]
  BY RecordKeys DEF PolicyTracksTier
<1> QED BY <1>1 DEF PolicyTracksTier

LEMMA SameTracks ==
  ASSUME PolicyTracksTier, UNCHANGED <<tiers, order, policyVars>>
  PROVE  PolicyTracksTier'
  BY DEF PolicyTracksTier, policyVars

LEMMA InsertionTracks ==
  ASSUME CacheInv, PolicyTracksTier, InsertPending
  PROVE  PolicyTracksTier'
<1> DEFINE key == cache_key(pending)
<1>1. /\ pending \in Chunk /\ tiers'[GPU] = put(tiers[GPU], pending)
      /\ IsDict(tiers[GPU], Extent) /\ order \in Seq(CacheKey) /\ key \in CacheKey
  BY InsertPendingFacts, ChunkFields DEF CacheInv, CacheTypeOK, Tiers
<1>2. DOMAIN tiers'[GPU] = DOMAIN tiers[GPU] \cup {key}
  BY <1>1, PutFacts
<1>3. /\ order' = IF key \in DOMAIN tiers[GPU] THEN order ELSE Append(order, key)
      /\ record_store(key)
  BY DEF InsertPending, Present
<1>4. IsInjective(order') /\ ToSet(order') = DOMAIN tiers[GPU] \cup {key}
  <2>1. IsInjective(order) /\ ToSet(order) = DOMAIN tiers[GPU]
    BY DEF PolicyTracksTier
  <2>2. CASE key \in DOMAIN tiers[GPU]
    BY <1>3, <2>1, <2>2
  <2>3. CASE key \notin DOMAIN tiers[GPU]
    <3>1. order' = Append(order, key)
      BY <1>3, <2>3
    <3> QED BY <1>1, <2>1, <2>3, <3>1, AppendItems
  <2> QED BY <2>2, <2>3
<1>5. /\ Policy = "lru"  => DOMAIN lastAccess' = DOMAIN tiers[GPU] \cup {key}
      /\ Policy = "fltp" => /\ DOMAIN accessCount' = DOMAIN tiers[GPU] \cup {key}
                            /\ DOMAIN insertOrder' = DOMAIN tiers[GPU] \cup {key}
  BY <1>3, RecordKeys DEF PolicyTracksTier
<1> QED BY <1>2, <1>4, <1>5 DEF PolicyTracksTier

\* Every operation of the manager keeps the policy in step with the tier.
LEMMA ManagerTracks ==
  ASSUME CacheInv, PolicyTracksTier,
         \/ \E key \in CacheKey : access(key)
         \/ \E c \in Chunk : store(c) \/ store_replacing(c)
         \/ EvictVictim \/ InsertPending
  PROVE  PolicyTracksTier'
<1>1. ASSUME NEW key, access(key) PROVE PolicyTracksTier'
  BY <1>1, HitTracks, SameTracks DEF access, Present
<1>2. ASSUME NEW c \in Chunk, store(c) \/ store_replacing(c) PROVE PolicyTracksTier'
  <2> DEFINE k == cache_key(c)
  <2>1. \/ k \in DOMAIN tiers[GPU] /\ KeepResident(k)
        \/ k \in DOMAIN tiers[GPU] /\ RemoveFromGPU(k)
        \/ UNCHANGED <<tiers, order, policyVars>>
    BY <1>2 DEF store, store_replacing, Present
  <2>2. CASE k \in DOMAIN tiers[GPU] /\ KeepResident(k)
    BY <2>2, HitTracks DEF KeepResident
  <2> QED BY <2>1, <2>2, RemovalTracks, SameTracks
<1>3. ASSUME EvictVictim PROVE PolicyTracksTier'
  <2>1. PICK key \in DOMAIN tiers[GPU] : RemoveFromGPU(key)
    BY <1>3 DEF EvictVictim, Victims
  <2> QED BY <2>1, RemovalTracks
<1> QED BY <1>1, <1>2, <1>3, InsertionTracks

\* No operation of the manager lets the GPU tier outgrow its capacity: it
\* stores what fits, and everything else it does only removes.
LEMMA ManagerFits ==
  ASSUME CacheInv, GPUFinite, WithinCapacity,
         \/ \E key \in CacheKey : access(key)
         \/ \E c \in Chunk : store(c) \/ store_replacing(c)
         \/ EvictVictim \/ InsertPending
  PROVE  GPUFinite' /\ WithinCapacity'
<1> USE ChunkingAssumption
<1>1. /\ IsDict(tiers[GPU], Extent) /\ IsFiniteSet(DOMAIN tiers[GPU])
      /\ used_bytes(tiers[GPU]) <= Capacity[GPU]
      /\ Capacity[GPU] \in Nat /\ GPU \in Tiers \ Unbounded
  BY TierAssumption
     DEF CacheInv, CacheTypeOK, Tiers, GPUFinite, WithinCapacity, TierAssumption
<1>2. ASSUME tiers'[GPU] = tiers[GPU] PROVE GPUFinite' /\ WithinCapacity'
  BY <1>1, <1>2 DEF GPUFinite, WithinCapacity
<1>3. ASSUME NEW key \in DOMAIN tiers[GPU], RemoveFromGPU(key)
      PROVE  GPUFinite' /\ WithinCapacity'
  <2>1. tiers'[GPU] = drop(tiers[GPU], key)
    BY <1>3, RemoveFromGPUFacts
  <2>2. /\ IsFiniteSet(DOMAIN drop(tiers[GPU], key))
        /\ IsDict(drop(tiers[GPU], key), Extent)
        /\ used_bytes(drop(tiers[GPU], key)) <= used_bytes(tiers[GPU])
    BY <1>1, DropBytes, DropFits, DropFacts
  <2>3. used_bytes(drop(tiers[GPU], key)) \in Nat /\ used_bytes(tiers[GPU]) \in Nat
    BY <1>1, <2>2, BytesAreNat
  <2>4. used_bytes(drop(tiers[GPU], key)) <= Capacity[GPU]
    BY <1>1, <2>2, <2>3
  <2> QED BY <2>1, <2>2, <2>4 DEF GPUFinite, WithinCapacity
<1>4. ASSUME NEW c \in Chunk, store(c) \/ store_replacing(c)
      PROVE  GPUFinite' /\ WithinCapacity'
  <2>1. \/ tiers' = tiers
        \/ cache_key(c) \in DOMAIN tiers[GPU] /\ RemoveFromGPU(cache_key(c))
    BY <1>4 DEF store, store_replacing, Present, KeepResident
  <2> QED BY <1>2, <1>3, <2>1
<1>5. ASSUME EvictVictim PROVE GPUFinite' /\ WithinCapacity'
  <2>1. PICK key \in DOMAIN tiers[GPU] : RemoveFromGPU(key)
    BY <1>5 DEF EvictVictim, Victims
  <2> QED BY <1>3, <2>1
<1>6. ASSUME InsertPending PROVE GPUFinite' /\ WithinCapacity'
  <2>1. pending \in Chunk /\ tiers'[GPU] = put(tiers[GPU], pending)
        /\ can_store(GPU, tiers[GPU], pending)
    BY <1>6, InsertPendingFacts DEF InsertPending
  <2>2. used_bytes(put(tiers[GPU], pending)) <= Capacity[GPU]
    BY <1>1, <2>1, StoreFits
  <2>3. IsFiniteSet(DOMAIN put(tiers[GPU], pending))
    BY <1>1, <2>1, PutBytes
  <2> QED BY <2>1, <2>2, <2>3 DEF GPUFinite, WithinCapacity
<1> QED BY <1>2, <1>4, <1>5, <1>6 DEF access

=============================================================================
