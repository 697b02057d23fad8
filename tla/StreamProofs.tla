---------------------------- MODULE StreamProofs ----------------------------
(***************************************************************************)
(* Streams of prefills: they implement PrefixStore, every served prefix is *)
(* a hit, the metrics of each prefill balance; and what a whole scenario   *)
(* shows of its stream.                                                    *)
(***************************************************************************)
EXTENDS PrefillProofs, ScenarioRun

USE ChunkingAssumption, TierAssumption, WorkloadAssumption, CostAssumption,
    WriteThroughAssumption

-----------------------------------------------------------------------------
(* The order of the chunks of a prompt.                                    *)

Ordered ==
  /\ pos <= Len(chunks) * ChunkSize
  /\ \A i \in DOMAIN chunks :
       /\ chunks[i].start <= chunks[i].idx * ChunkSize
       /\ chunks[i].end <= pos
       /\ \A j \in DOMAIN chunks : i < j => chunks[i].end <= chunks[j].start

LEMMA SplitOrdered ==
  ASSUME TypeInv, RequestInv, Ordered, SplitStep
  PROVE  Ordered'
<1>1. /\ chunks \in Seq(Chunk) /\ Len(chunks) \in Nat /\ DOMAIN chunks = 1 .. Len(chunks)
      /\ pos \in Nat /\ ScheduleTypeOK /\ ChunkSize \in Nat
      /\ request.doc \in Nat /\ request.shared \in Nat /\ request.prompt \in Nat
      /\ private_cache_id(request) \in Nat
  BY ScheduleFacts
     DEF TypeInv, ScheduleTypeOK, Request, private_cache_id, ChunkingAssumption
<1>2. PICK cid \in Nat, limit \in Nat : pos < limit /\ AppendChunk(NextChunk(cid, limit))
  BY <1>1 DEF SplitStep, SplitShared, SplitPrivate
<1> DEFINE c == NextChunk(cid, limit)
<1>3. c \in Chunk /\ c.idx = Len(chunks) /\ c.start = pos /\ pos < c.end
  BY SMTT(30), <1>1, <1>2, NextChunkFacts
<1>4. c.end <= pos + ChunkSize /\ c.end \in Nat
  BY SMTT(30), <1>1, <1>2, <1>3, ChunkFields DEF NextChunk, MinOf
<1>5. chunks' = Append(chunks, c) /\ pos' = c.end
  BY <1>2 DEF AppendChunk
<1> HIDE DEF c
<1>6. /\ Len(chunks') = Len(chunks) + 1 /\ DOMAIN chunks' = 1 .. Len(chunks) + 1
      /\ \A i \in 1 .. Len(chunks) : chunks'[i] = chunks[i]
      /\ chunks'[Len(chunks) + 1] = c
  BY <1>1, <1>3, <1>5, AppendProperties
<1>7. pos' <= Len(chunks') * ChunkSize
  <2>1. /\ (Len(chunks) + 1) * ChunkSize = Len(chunks) * ChunkSize + ChunkSize
        /\ Len(chunks) * ChunkSize \in Nat
    BY <1>1, NextProduct
  <2>2. pos <= Len(chunks) * ChunkSize
    BY DEF Ordered
  <2> QED BY <1>1, <1>4, <1>5, <1>6, <2>1, <2>2
<1>8. ASSUME NEW i \in DOMAIN chunks'
      PROVE  /\ chunks'[i].start <= chunks'[i].idx * ChunkSize
             /\ chunks'[i].end <= pos'
             /\ \A j \in DOMAIN chunks' : i < j => chunks'[i].end <= chunks'[j].start
  <2>1. CASE i = Len(chunks) + 1
    <3>1. pos <= Len(chunks) * ChunkSize
      BY DEF Ordered
    <3>2. \A j \in DOMAIN chunks' : ~(i < j)
      BY <1>1, <1>6, <2>1
    <3>3. chunks'[i] = c /\ pos' = c.end
      BY <1>5, <1>6, <2>1
    <3>4. c.start <= c.idx * ChunkSize
      BY <1>3, <3>1
    <3>5. c.end <= c.end
      BY <1>4
    <3> QED BY <3>2, <3>3, <3>4, <3>5
  <2>2. CASE i # Len(chunks) + 1
    <3>1. i \in DOMAIN chunks /\ chunks'[i] = chunks[i]
      BY SMTT(30), <1>1, <1>6, <2>2
    <3>2. chunks[i].end \in Nat /\ chunks[i].end <= pos
      BY SMTT(30), <1>1, <3>1, ChunkFields DEF Ordered
    <3>3. ASSUME NEW j \in DOMAIN chunks', i < j
          PROVE  chunks'[i].end <= chunks'[j].start
      <4>1. CASE j = Len(chunks) + 1
        BY <1>3, <1>6, <3>1, <3>2, <4>1
      <4>2. CASE j # Len(chunks) + 1
        <5>1. j \in DOMAIN chunks /\ chunks'[j] = chunks[j]
          BY SMTT(30), <1>1, <1>6, <4>2
        <5> QED BY <3>1, <3>3, <5>1 DEF Ordered
      <4> QED BY <4>1, <4>2
    <3>4. chunks[i].start <= chunks[i].idx * ChunkSize
      BY <3>1 DEF Ordered
    <3>5. chunks[i].end <= pos'
      BY <1>1, <1>3, <1>4, <1>5, <3>2
    <3> QED BY <3>1, <3>3, <3>4, <3>5
  <2> QED BY <2>1, <2>2
<1> QED BY <1>7, <1>8 DEF Ordered

LEMMA OrderedStep ==
  ASSUME TypeInv, RequestInv, Ordered, [Next]_vars
  PROVE  Ordered'
<1>1. CASE UNCHANGED <<pos, chunks>>
  BY <1>1 DEF Ordered
<1>2. CASE Arrive
  <2>1. pos' = 0 /\ chunks' = <<>> /\ Len(chunks') * ChunkSize = 0
    BY <1>2 DEF Arrive, ChunkingAssumption
  <2> QED BY <2>1 DEF Ordered
<1>3. CASE Split
  BY <1>3, SplitOrdered DEF Split
<1>4. CASE Schedule
  BY <1>1, <1>4 DEF Schedule, StartScan, SplitDone
<1>5. CASE Materialise
  BY <1>1, <1>5, PrefillFrame DEF Prefill
<1> QED BY <1>1, <1>2, <1>3, <1>4, <1>5 DEF Next, Prefill, vars, chunkingVars

\* A multiplication by the chunk size keeps the order.
LEMMA ProductOrder ==
  ASSUME NEW a \in Nat, NEW b \in Nat
  PROVE  /\ a <= b => a * ChunkSize <= b * ChunkSize
         /\ a < b => (a + 1) * ChunkSize <= b * ChunkSize
         /\ a * ChunkSize \in Nat /\ (a + 1) * ChunkSize = a * ChunkSize + ChunkSize
<1>1. ChunkSize \in Nat \ {0}
  BY DEF ChunkingAssumption
<1>2. \A x, y \in Nat : x <= y => x * ChunkSize <= y * ChunkSize
  BY <1>1
<1> QED BY <1>1, <1>2

\* Before a chunk of the document come only full chunks of the document.
LEMMA BeforeDocumentChunk ==
  ASSUME TypeInv, RequestInv, Ordered,
         NEW i \in DOMAIN chunks, chunks[i].cid \in Documents
  PROVE  /\ chunks[i].cid = request.doc /\ chunks[i].end <= request.shared
         /\ chunks[i].idx = i - 1 /\ chunks[i].start = (i - 1) * ChunkSize
         /\ chunks[i].end <= i * ChunkSize
         /\ \A j \in DOMAIN chunks : j < i =>
              chunks[j].cid = request.doc /\ chunks[j].end = j * ChunkSize
<1>1. /\ DOMAIN chunks = 1 .. Len(chunks) /\ Len(chunks) \in Nat
      /\ \A j \in DOMAIN chunks : chunks[j] \in Chunk
      /\ request.shared \in Nat /\ request.prompt \in Nat
      /\ request.shared <= request.prompt /\ ChunkSize \in Nat \ {0}
  BY ScheduleFacts
     DEF TypeInv, ScheduleTypeOK, Request, RequestInv, Tiling, ChunkingAssumption
<1>2. private_cache_id(request) \notin Documents
  BY <1>1 DEF private_cache_id, Documents, TypeInv, ScheduleTypeOK, Request,
              ChunkingAssumption
<1>3. ASSUME NEW j \in DOMAIN chunks, chunks[j].start < request.shared
      PROVE  /\ chunks[j].cid = request.doc /\ chunks[j].end <= request.shared
             /\ chunks[j].idx = j - 1 /\ chunks[j].start = (j - 1) * ChunkSize
             /\ chunks[j].end <= j * ChunkSize
             /\ chunks[j].end < request.shared => chunks[j].end = j * ChunkSize
  <2>1. /\ chunks[j].idx = j - 1
        /\ token_count(chunks[j]) <= ChunkSize
        /\ token_count(chunks[j]) < ChunkSize =>
             chunks[j].end \in {request.shared, request.prompt}
        /\ \/ /\ chunks[j].end <= request.shared
              /\ chunks[j].cid = request.doc
              /\ chunks[j].start = chunks[j].idx * ChunkSize
           \/ chunks[j].start >= request.shared
    BY DEF RequestInv, Tiling
  <2>2. chunks[j].start \in Nat /\ chunks[j].end \in Nat
    BY <1>1, ChunkFields
  <2>3. /\ chunks[j].end <= request.shared /\ chunks[j].cid = request.doc
        /\ chunks[j].start = (j - 1) * ChunkSize
    BY <1>1, <1>3, <2>1, <2>2
  <2>4. j * ChunkSize = (j - 1) * ChunkSize + ChunkSize /\ (j - 1) * ChunkSize \in Nat
    <3>1. j - 1 \in Nat /\ (j - 1) + 1 = j
      BY <1>1
    <3> QED BY <3>1, ProductOrder
  <2>5. token_count(chunks[j]) = chunks[j].end - chunks[j].start
    BY DEF token_count
  <2> DEFINE low == (j - 1) * ChunkSize
             high == j * ChunkSize
             tokens == token_count(chunks[j])
             end == chunks[j].end
  <2>6. /\ high = low + ChunkSize /\ low \in Nat /\ tokens = end - low
        /\ tokens <= ChunkSize /\ end \in Nat /\ ChunkSize \in Nat
    <3>1. high = low + ChunkSize /\ low \in Nat
      BY <2>4
    <3>2. tokens = end - low
      BY <2>3, <2>5
    <3>3. tokens <= ChunkSize /\ end \in Nat
      BY <2>1, <2>2
    <3> HIDE DEF low, high, tokens, end
    <3> QED BY <1>1, <3>1, <3>2, <3>3
  <2>7. end <= high
    <3> HIDE DEF low, high, tokens, end
    <3> QED BY <2>6
  <2>8. ASSUME end < request.shared
        PROVE  end = high
    <3>1. end # request.shared /\ end # request.prompt
      <4>1. \A a, b, n \in Nat : a < b /\ b <= n => a # b /\ a # n
        OBVIOUS
      <4>2. /\ request.shared \in Nat /\ request.prompt \in Nat
            /\ request.shared <= request.prompt /\ end \in Nat
        BY <1>1, <2>2
      <4> HIDE DEF low, high, tokens, end
      <4> QED BY <2>8, <4>1, <4>2
    <3>2. ~(tokens < ChunkSize)
      BY <2>1, <3>1
    <3> HIDE DEF low, high, tokens, end
    <3> QED BY <2>6, <3>2
  <2> QED BY <2>1, <2>3, <2>7, <2>8
<1>4. /\ chunks[i].start \in Nat /\ chunks[i].end \in Nat /\ chunks[i].start < chunks[i].end
      /\ chunks[i].end <= request.shared
  BY <1>1, <1>2, ChunkFields DEF RequestInv, Tiling
<1>5. chunks[i].start < request.shared
  BY <1>1, <1>4
<1>6. ASSUME NEW j \in DOMAIN chunks, j < i
      PROVE  chunks[j].cid = request.doc /\ chunks[j].end = j * ChunkSize
  <2>1. chunks[j].end <= chunks[i].start
    BY <1>6 DEF Ordered
  <2>2. /\ chunks[j].start \in Nat /\ chunks[j].end \in Nat
        /\ chunks[j].start < chunks[j].end
    BY <1>1, ChunkFields
  <2>3. chunks[j].start < request.shared /\ chunks[j].end < request.shared
    <3>1. \A a, b, c, d, n \in Nat : a < b /\ b <= c /\ c < d /\ d <= n => a < n /\ b < n
      OBVIOUS
    <3>2. request.shared \in Nat
      BY <1>1
    <3> QED BY SMTT(30), <1>4, <2>1, <2>2, <3>1, <3>2
  <2> QED BY <1>3, <2>3
<1> QED BY <1>3, <1>5, <1>6

-----------------------------------------------------------------------------
(* The prefixes that the first write-through tier holds.                   *)

\* Recomputed chunks are written through to a tier with room for everything,
\* as the disk of the experiments.
HomeIsUnbounded == WriteThrough # <<>> /\ Home \in Unbounded

LEMMA HomeFacts ==
  ASSUME HomeIsUnbounded
  PROVE  /\ Home \in ColdTiers /\ Home \in Tiers /\ Home # GPU
         /\ 1 \in DOMAIN WriteThrough /\ Home = WriteThrough[1]
         /\ \A d, c : can_store(Home, d, c)
<1>1. 1 \in DOMAIN WriteThrough
  <2>1. Len(WriteThrough) # 0
    BY EmptySeq DEF HomeIsUnbounded, WriteThroughAssumption
  <2> QED BY <2>1, LenProperties DEF WriteThroughAssumption
<1> QED BY <1>1 DEF HomeIsUnbounded, TierAssumption, Tiers, Home, can_store

\* An entry of a document lies within one cell of its chunk grid, and all chunks
\* before it are there in full.
PrefixesIn(d) ==
  \A x \in DOMAIN d :
    x[1] \in Documents =>
      /\ d[x].start = x[2] * ChunkSize
      /\ d[x].end <= (x[2] + 1) * ChunkSize
      /\ d[x].end <= DocumentLength[x[1]]
      /\ \A k \in 0 .. x[2] - 1 :
           /\ <<x[1], k>> \in DOMAIN d
           /\ d[<<x[1], k>>].end = (k + 1) * ChunkSize

HomePrefixes == PrefixesIn(tiers[Home])

\* What a write-through that changes the tier does to it.
LEMMA HomeWritten ==
  ASSUME TypeInv, HomeIsUnbounded, Next, tiers'[Home] # tiers[Home]
  PROVE  /\ WriteThroughOne /\ phase = "writeThrough"
         /\ cursor \in DOMAIN chunks /\ chunks[cursor] \in Chunk
         /\ coverage(tiers[Home], Key(cursor)) < chunks[cursor].end
         /\ DOMAIN tiers'[Home] = DOMAIN tiers[Home] \cup {Key(cursor)}
         /\ tiers'[Home][Key(cursor)] = extent(chunks[cursor])
         /\ \A x \in DOMAIN tiers[Home] :
              x # Key(cursor) => tiers'[Home][x] = tiers[Home][x]
<1> DEFINE c == chunks[cursor]
           d == tiers[Home]
           key == cache_key(c)
           freed == drop(d, key)
<1>1. WriteThroughOne
  BY HomeFacts, ColdTierSteps
<1>2. /\ WriteThrough[wtCursor] = Home /\ phase = "writeThrough"
      /\ cursor \in DOMAIN chunks /\ c \in Chunk
      /\ tiers'[Home] = upsert(Home, d, c)
  BY <1>1, HomeFacts, UpsertStep
<1>3. IsDict(d, Extent)
  BY HomeFacts DEF TypeInv, CacheInv, CacheTypeOK
<1>4. /\ Upgradable(d, c) /\ tiers'[Home] = put(freed, c)
  <2>1. can_store(Home, freed, c)
    BY HomeFacts
  <2> QED BY <1>2, <2>1 DEF upsert
<1>5. /\ IsDict(freed, Extent) /\ DOMAIN freed = DOMAIN d \ {key}
      /\ \A x \in DOMAIN d \ {key} : freed[x] = d[x]
  BY <1>3, DropFacts
<1>6. /\ DOMAIN put(freed, c) = DOMAIN freed \cup {key}
      /\ put(freed, c)[key] = extent(c)
      /\ \A x \in DOMAIN freed : x # key => put(freed, c)[x] = freed[x]
  <2>1. c \in Chunk /\ IsDict(freed, Extent)
    BY <1>2, <1>5
  <2> HIDE DEF freed, c
  <2> QED BY <2>1, PutFacts DEF key
<1>7. key = Key(cursor)
  BY DEF Key
<1>8. coverage(d, key) < c.end
  BY <1>4 DEF Upgradable
<1> HIDE DEF c, d, key, freed
<1>9. /\ DOMAIN tiers'[Home] = DOMAIN d \cup {key}
      /\ tiers'[Home][key] = extent(c)
      /\ \A x \in DOMAIN d : x # key => tiers'[Home][x] = d[x]
  BY <1>4, <1>5, <1>6
<1> QED BY <1>1, <1>2, <1>7, <1>8, <1>9 DEF c, d

\* When a chunk of the document is written through, all chunks before it are
\* in the tier in full.
LEMMA WarmBefore ==
  ASSUME TypeInv, SafetyInv, RequestInv, Ordered, HomePrefixes, HomeIsUnbounded,
         phase = "writeThrough", chunks[cursor].cid \in Documents,
         NEW k \in 0 .. chunks[cursor].idx - 1
  PROVE  /\ <<chunks[cursor].cid, k>> \in DOMAIN tiers[Home]
         /\ tiers[Home][<<chunks[cursor].cid, k>>].end = (k + 1) * ChunkSize
<1> DEFINE doc == chunks[cursor].cid
           i == k + 1
           x == <<doc, k>>
<1>1. /\ cursor \in DOMAIN chunks /\ DOMAIN chunks = 1 .. Len(chunks) /\ Len(chunks) \in Nat
      /\ cursor \in Nat /\ DOMAIN plan = DOMAIN chunks
  BY ScheduleFacts DEF TypeInv, Bookkeeping, ControlTypeOK
<1>2. /\ doc = request.doc /\ chunks[cursor].idx = cursor - 1
      /\ \A j \in DOMAIN chunks : j < cursor =>
           chunks[j].cid = doc /\ chunks[j].end = j * ChunkSize
  BY <1>1, BeforeDocumentChunk
<1>3. i \in DOMAIN chunks /\ i < cursor /\ k \in Nat
  BY <1>1, <1>2
<1>4. chunks[i].cid = doc /\ chunks[i].end = i * ChunkSize /\ chunks[i].idx = k
  <2>1. chunks[i].idx = i - 1
    BY <1>3 DEF RequestInv, Tiling
  <2>2. i - 1 = k
    BY <1>3
  <2> HIDE DEF i, doc
  <2> QED BY <1>2, <1>3, <2>1, <2>2
<1>5. Covers(Home, chunks[i])
  <2>1. WarmBy(i, 1)
    BY <1>3 DEF WarmBy
  <2>2. /\ i \in DOMAIN plan /\ 1 \in DOMAIN WriteThrough /\ Home = WriteThrough[1]
        /\ phase # "failed"
    BY <1>1, <1>3, HomeFacts
  <2> HIDE DEF i
  <2> QED BY <2>1, <2>2 DEF SafetyInv, WarmInv
<1>6. coverage(tiers[Home], x) >= i * ChunkSize
  BY <1>4, <1>5 DEF Covers, cache_key
<1>7. coverage(tiers[Home], x) \in Nat /\ i * ChunkSize \in Nat /\ i * ChunkSize > 0
  <2>1. coverage(tiers[Home], x) \in Nat
    BY HomeFacts, CoverageFacts DEF TypeInv, CacheInv, CacheTypeOK
  <2>2. i * ChunkSize = k * ChunkSize + ChunkSize /\ k * ChunkSize \in Nat
    BY <1>3, ProductOrder
  <2> QED BY SMTT(30), <2>1, <2>2 DEF ChunkingAssumption
<1>8. x \in DOMAIN tiers[Home] /\ coverage(tiers[Home], x) = tiers[Home][x].end
  <2>1. coverage(tiers[Home], x) # 0
    BY <1>6, <1>7
  <2> QED BY <2>1 DEF coverage
<1>9. tiers[Home][x].end <= i * ChunkSize
  <2>1. x[1] = doc /\ x[2] = k
    OBVIOUS
  <2> HIDE DEF x
  <2> QED BY <1>8, <2>1 DEF HomePrefixes, PrefixesIn
<1> HIDE DEF i
<1>10. tiers[Home][x].end = i * ChunkSize
  BY <1>6, <1>7, <1>8, <1>9
<1> QED BY <1>8, <1>10 DEF i

LEMMA HomeStep ==
  ASSUME TypeInv, SafetyInv, RequestInv, Ordered, HomePrefixes, HomeIsUnbounded, Next
  PROVE  HomePrefixes'
<1>1. CASE tiers'[Home] = tiers[Home]
  BY <1>1 DEF HomePrefixes, Home
<1>2. CASE tiers'[Home] # tiers[Home]
  <2> DEFINE c == chunks[cursor]
             key == Key(cursor)
             d == tiers[Home]
             e == tiers'[Home]
  <2>1. /\ phase = "writeThrough"
        /\ cursor \in DOMAIN chunks /\ c \in Chunk
        /\ coverage(d, key) < c.end
        /\ DOMAIN e = DOMAIN d \cup {key}
        /\ e[key] = extent(c)
        /\ \A x \in DOMAIN d : x # key => e[x] = d[x]
    BY <1>2, HomeWritten
  <2>2. /\ key = <<c.cid, c.idx>> /\ c.end \in Nat /\ c.idx \in Nat /\ extent(c).end = c.end
        /\ key[1] = c.cid /\ key[2] = c.idx /\ extent(c).start = c.start
    BY <2>1, ChunkFields DEF Key, cache_key
  <2>3. c.cid \in Documents =>
          /\ c.cid = request.doc /\ c.end <= request.shared
          /\ c.start = c.idx * ChunkSize
          /\ c.end <= (c.idx + 1) * ChunkSize
    <3> SUFFICES ASSUME c.cid \in Documents
                 PROVE  /\ c.cid = request.doc /\ c.end <= request.shared
                        /\ c.start = c.idx * ChunkSize
                        /\ c.end <= (c.idx + 1) * ChunkSize
      OBVIOUS
    <3>1. /\ c.cid = request.doc /\ c.end <= request.shared /\ c.idx = cursor - 1
          /\ c.start = (cursor - 1) * ChunkSize
          /\ c.end <= cursor * ChunkSize
      BY <2>1, BeforeDocumentChunk
    <3>2. c.idx + 1 = cursor
      BY <3>1 DEF TypeInv, ControlTypeOK
    <3> QED BY <3>1, <3>2
  <2>4. DOMAIN d \subseteq CacheKey
    BY HomeFacts DEF TypeInv, CacheInv, CacheTypeOK, IsDict
  <2>5. c.cid \in Documents => c.end <= DocumentLength[c.cid]
    <3>1. request.shared <= DocumentLength[request.doc] /\ request.shared \in Nat
      BY DEF RequestInv, TypeInv, ScheduleTypeOK, Request
    <3>2. request.doc \in Documents => DocumentLength[request.doc] \in Nat
      BY DEF WorkloadAssumption
    <3>3. \A a, b, n \in Nat : a <= b /\ b <= n => a <= n
      OBVIOUS
    <3>4. c.end \in Nat
      BY <2>2
    <3>5. c.cid \in Documents => c.cid = request.doc /\ c.end <= request.shared
      BY <2>3
    <3> HIDE DEF c
    <3> QED BY <3>1, <3>2, <3>3, <3>4, <3>5
  <2>6. ASSUME c.cid \in Documents, NEW k \in 0 .. c.idx - 1
        PROVE  /\ <<c.cid, k>> \in DOMAIN e
               /\ e[<<c.cid, k>>].end = (k + 1) * ChunkSize
    <3>1. <<c.cid, k>> \in DOMAIN d /\ d[<<c.cid, k>>].end = (k + 1) * ChunkSize
      BY <2>1, <2>6, WarmBefore
    <3>2. <<c.cid, k>> # key
      BY <2>2, <2>6
    <3> HIDE DEF c, d, e, key
    <3> QED BY <2>1, <3>1, <3>2
  <2>7. ASSUME NEW x \in DOMAIN e, x[1] \in Documents
        PROVE  /\ e[x].start = x[2] * ChunkSize
               /\ e[x].end <= (x[2] + 1) * ChunkSize
               /\ e[x].end <= DocumentLength[x[1]]
               /\ \A k \in 0 .. x[2] - 1 :
                    /\ <<x[1], k>> \in DOMAIN e
                    /\ e[<<x[1], k>>].end = (k + 1) * ChunkSize
    <3>1. CASE x = key
      <4>1. /\ x[1] = c.cid /\ x[2] = c.idx
            /\ e[x].end = c.end /\ e[x].start = c.start
        BY <2>1, <2>2, <3>1
      <4> HIDE DEF c, d, e, key
      <4> QED BY <2>3, <2>5, <2>6, <2>7, <4>1
    <3>2. CASE x # key
      <4>1. x \in DOMAIN d /\ e[x] = d[x]
        BY <2>1, <2>7, <3>2
      <4>2. /\ d[x].start = x[2] * ChunkSize
            /\ d[x].end <= (x[2] + 1) * ChunkSize
            /\ d[x].end <= DocumentLength[x[1]]
            /\ \A k \in 0 .. x[2] - 1 :
                 /\ <<x[1], k>> \in DOMAIN d
                 /\ d[<<x[1], k>>].end = (k + 1) * ChunkSize
        BY <2>7, <4>1 DEF HomePrefixes, PrefixesIn
      <4>3. ASSUME NEW k \in 0 .. x[2] - 1
            PROVE  /\ <<x[1], k>> \in DOMAIN e
                   /\ e[<<x[1], k>>].end = (k + 1) * ChunkSize
        <5>1. <<x[1], k>> \in DOMAIN d /\ d[<<x[1], k>>].end = (k + 1) * ChunkSize
          BY <4>2, <4>3
        <5>2. <<x[1], k>> # key
          <6> SUFFICES ASSUME <<x[1], k>> = key PROVE FALSE
            OBVIOUS
          <6>1. x[1] = c.cid /\ k = c.idx
            BY <2>2
          <6>2. coverage(d, key) = (k + 1) * ChunkSize
            BY <5>1 DEF coverage
          <6>3. c.end <= (k + 1) * ChunkSize /\ coverage(d, key) < c.end
            BY <2>1, <2>3, <2>7, <6>1
          <6>4. (k + 1) * ChunkSize \in Nat
            <7>1. k \in Nat
              BY <2>2, <6>1
            <7> QED BY <7>1, ProductOrder DEF ChunkingAssumption
          <6> HIDE DEF c, d, key
          <6> QED BY <2>2, <6>2, <6>3, <6>4
        <5> HIDE DEF c, d, e, key
        <5> QED BY <2>1, <5>1, <5>2
      <4> QED BY <4>1, <4>2, <4>3
    <3> QED BY <3>1, <3>2
  <2> QED BY <2>7 DEF HomePrefixes, PrefixesIn, Home
<1> QED BY <1>1, <1>2

-----------------------------------------------------------------------------
(* What can be loaded of a document.                                       *)

\* The chunks that begin before token n.
LEMMA ChunksBefore ==
  ASSUME NEW n \in Nat, NEW k \in Nat
  PROVE  k \in 0 .. (n - 1) \div ChunkSize <=> k * ChunkSize < n
<1> DEFINE last == (n - 1) \div ChunkSize
<1>1. n - 1 \in Int /\ ChunkSize \in Nat /\ ChunkSize > 0
  BY DEF ChunkingAssumption
<1>2. last \in Int /\ last * ChunkSize <= n - 1 /\ n - 1 < (last + 1) * ChunkSize
  BY <1>1
<1> HIDE DEF last
<1> DEFINE here == k * ChunkSize
           low == last * ChunkSize
           high == (last + 1) * ChunkSize
<1>3. here \in Nat /\ low \in Int /\ high \in Int
  BY <1>1, <1>2
<1>4. ASSUME k <= last PROVE here < n
  <2>1. here <= low
    BY <1>1, <1>2, <1>4
  <2>2. low <= n - 1
    BY <1>2
  <2> HIDE DEF here, low
  <2> QED BY <1>3, <2>1, <2>2
<1>5. ASSUME k > last PROVE ~(here < n)
  <2>1. high <= here
    BY <1>1, <1>2, <1>5
  <2>2. n - 1 < high
    BY <1>2
  <2> HIDE DEF here, high
  <2> QED BY <1>3, <2>1, <2>2
<1>6. k \in 0 .. last <=> k * ChunkSize < n
  BY <1>2, <1>4, <1>5
<1> QED BY <1>6 DEF last

\* Chunk k of document doc reaches as far as a prefix of n tokens needs it.
Reaches(d, doc, k, n) ==
  /\ <<doc, k>> \in DOMAIN d
  /\ d[<<doc, k>>].start = k * ChunkSize
  /\ d[<<doc, k>>].end >= MinOf((k + 1) * ChunkSize, n)

\* HoldsPrefix and LoadablePrefix, of the dictionary of a tier.
HoldsIn(d, doc, n) == \A k \in 0 .. (n - 1) \div ChunkSize : Reaches(d, doc, k, n)

LongestIn(d, doc) == Max({ n \in 0 .. DocumentLength[doc] : HoldsIn(d, doc, n) })

LEMMA LoadableIsLongest ==
  ASSUME NEW doc
  PROVE  /\ LoadablePrefix(Home, doc) = LongestIn(tiers[Home], doc)
         /\ LoadablePrefix(Home, doc)' = LongestIn(tiers'[Home], doc)
  BY DEF LoadablePrefix, LongestIn, HoldsPrefix, HoldsIn, Reaches, Present, Home

LEMMA HoldsMeans ==
  ASSUME NEW d, NEW doc, NEW n \in Nat
  PROVE  HoldsIn(d, doc, n) <=>
           \A k \in Nat : k * ChunkSize < n => Reaches(d, doc, k, n)
<1>1. \A k \in Nat : k \in 0 .. (n - 1) \div ChunkSize <=> k * ChunkSize < n
  BY ChunksBefore
<1>2. \A k \in 0 .. (n - 1) \div ChunkSize : k \in Nat
  <2>1. (n - 1) \div ChunkSize \in Int
    BY DEF ChunkingAssumption
  <2> QED BY <2>1
<1>3. HoldsIn(d, doc, n) <=>
        \A k \in 0 .. (n - 1) \div ChunkSize : Reaches(d, doc, k, n)
  BY DEF HoldsIn
<1> DEFINE K == 0 .. (n - 1) \div ChunkSize
<1> HIDE DEF K
<1> QED BY <1>1, <1>2, <1>3 DEF K

\* There is a longest such prefix.
LEMMA LongestFacts ==
  ASSUME NEW d, NEW doc \in Documents
  PROVE  /\ LongestIn(d, doc) \in 0 .. DocumentLength[doc]
         /\ HoldsIn(d, doc, LongestIn(d, doc))
         /\ \A n \in 0 .. DocumentLength[doc] :
              HoldsIn(d, doc, n) => n <= LongestIn(d, doc)
<1> DEFINE S == { n \in 0 .. DocumentLength[doc] : HoldsIn(d, doc, n) }
           m == LongestIn(d, doc)
<1>1. DocumentLength[doc] \in Nat
  BY DEF WorkloadAssumption
<1>2. S \in SUBSET Nat /\ (\A n \in S : n <= DocumentLength[doc])
  BY <1>1
<1>3. 0 \in S
  <2>1. \A k \in Nat : ~(k * ChunkSize < 0)
    BY ProductOrder
  <2>2. HoldsIn(d, doc, 0)
    BY <2>1, HoldsMeans
  <2> QED BY <1>1, <2>2
<1>4. m = Max(S)
  BY DEF LongestIn
<1> HIDE DEF S, m
<1>5. \E x \in S : \A y \in S : x >= y
  BY <1>1, <1>2, <1>3, GreatestMember
<1>6. m \in S /\ \A y \in S : m >= y
  BY <1>4, <1>5 DEF Max
<1>7. /\ m \in 0 .. DocumentLength[doc] /\ HoldsIn(d, doc, m)
      /\ \A n \in 0 .. DocumentLength[doc] : HoldsIn(d, doc, n) => n <= m
  BY <1>1, <1>6 DEF S
<1> QED BY <1>7 DEF m

\* No entry lies beyond it.
LEMMA LongestCovers ==
  ASSUME NEW d, IsDict(d, Extent), PrefixesIn(d), NEW x \in DOMAIN d, x[1] \in Documents
  PROVE  d[x].end <= LongestIn(d, x[1])
<1> DEFINE doc == x[1]
           last == x[2]
           n == d[x].end
<1>1. x = <<doc, last>> /\ last \in Nat /\ n \in Nat
  BY DEF IsDict, CacheKey, Extent
<1>2. /\ d[x].start = last * ChunkSize
      /\ n <= (last + 1) * ChunkSize
      /\ n <= DocumentLength[doc]
      /\ \A k \in 0 .. last - 1 :
           <<doc, k>> \in DOMAIN d /\ d[<<doc, k>>].end = (k + 1) * ChunkSize
  BY DEF PrefixesIn
<1>3. ASSUME NEW k \in Nat, k * ChunkSize < n
      PROVE  Reaches(d, doc, k, n)
  <2>1. k <= last
    <3>1. CASE last < k
      <4>1. (last + 1) * ChunkSize <= k * ChunkSize
        BY <1>1, <3>1, ProductOrder
      <4>2. (last + 1) * ChunkSize \in Nat /\ k * ChunkSize \in Nat
        BY <1>1, ProductOrder DEF ChunkingAssumption
      <4> QED BY <1>1, <1>2, <1>3, <4>1, <4>2
    <3> QED BY <1>1, <3>1
  <2>2. (k + 1) * ChunkSize \in Nat
    BY ProductOrder DEF ChunkingAssumption
  <2>3. CASE k = last
    <3>1. x = <<doc, k>>
      BY <1>1, <2>3
    <3>2. n >= MinOf((k + 1) * ChunkSize, n)
      BY <1>1, <2>2 DEF MinOf
    <3>3. <<doc, k>> \in DOMAIN d /\ d[<<doc, k>>].end = n
      BY <3>1
    <3>4. d[<<doc, k>>].start = k * ChunkSize
      BY <1>2, <2>3, <3>1
    <3> HIDE DEF doc, n
    <3> QED BY <3>2, <3>3, <3>4 DEF Reaches
  <2>4. CASE k < last
    <3>1. k \in 0 .. last - 1
      BY <1>1, <2>4
    <3>2. <<doc, k>> \in DOMAIN d /\ d[<<doc, k>>].end = (k + 1) * ChunkSize
      BY <1>2, <3>1
    <3>3. d[<<doc, k>>].start = k * ChunkSize
      BY <3>2 DEF PrefixesIn
    <3>4. (k + 1) * ChunkSize >= MinOf((k + 1) * ChunkSize, n)
      BY SMTT(30), <1>1, <2>2 DEF MinOf
    <3> HIDE DEF doc, n
    <3> QED BY <3>2, <3>3, <3>4 DEF Reaches
  <2> QED BY <1>1, <2>1, <2>3, <2>4
<1>4. doc \in Documents /\ n \in 0 .. DocumentLength[doc]
  <2>1. DocumentLength[doc] \in Nat
    BY DEF WorkloadAssumption
  <2> QED BY <1>1, <1>2, <2>1
<1> HIDE DEF doc, n
<1>5. HoldsIn(d, doc, n)
  BY <1>1, <1>3, HoldsMeans
<1>6. n <= LongestIn(d, doc)
  BY <1>4, <1>5, LongestFacts
<1> QED BY <1>6 DEF doc, n

\* The dictionary e is d with the entry of this key added or replaced.
Writes(d, e, key) ==
  /\ DOMAIN e = DOMAIN d \cup {key}
  /\ \A x \in DOMAIN d : x # key => e[x] = d[x]

\* What the entries of other documents are does not matter.
LEMMA LongestSame ==
  ASSUME NEW d, NEW e, NEW key, NEW doc, doc # key[1], Writes(d, e, key)
  PROVE  LongestIn(e, doc) = LongestIn(d, doc)
<1> USE DEF Writes
<1>0. \A k : <<doc, k>> # key
  OBVIOUS
<1>1. \A k, n : Reaches(e, doc, k, n) <=> Reaches(d, doc, k, n)
  BY <1>0 DEF Reaches
<1>2. \A n : HoldsIn(e, doc, n) <=> HoldsIn(d, doc, n)
  BY <1>1 DEF HoldsIn
<1> QED BY <1>2 DEF LongestIn

\* An entry that is added, or that comes to cover more, makes the prefix as
\* long as itself.
LEMMA LongestExtends ==
  ASSUME NEW d, NEW e, IsDict(d, Extent), IsDict(e, Extent), PrefixesIn(d), PrefixesIn(e),
         NEW key \in CacheKey, key[1] \in Documents,
         Writes(d, e, key), coverage(d, key) < e[key].end
  PROVE  LongestIn(d, key[1]) < e[key].end /\ LongestIn(e, key[1]) = e[key].end
<1> USE DEF Writes
<1> DEFINE doc == key[1]
           k == key[2]
           m == e[key].end
           top == (k + 1) * ChunkSize
<1>1. /\ key = <<doc, k>> /\ k \in Nat /\ m \in Nat /\ key \in DOMAIN e
      /\ top \in Nat /\ k * ChunkSize \in Nat
      /\ doc \in Documents
  BY ProductOrder DEF CacheKey, IsDict, Extent, ChunkingAssumption
<1>2. k * ChunkSize < m /\ m <= top
  <2>1. e[key].start = k * ChunkSize /\ m <= top
    BY <1>1 DEF PrefixesIn
  <2>2. e[key].start < m
    BY <1>1 DEF IsDict, Extent
  <2> QED BY <2>1, <2>2
<1>3. \A n \in Nat : n >= m => MinOf(top, n) >= m
  BY <1>1, <1>2 DEF MinOf
<1>4. DocumentLength[doc] \in Nat
  BY <1>1 DEF WorkloadAssumption
<1>5. LongestIn(d, doc) < m
  <2> DEFINE n == LongestIn(d, doc)
  <2>1. n \in Nat /\ HoldsIn(d, doc, n)
    BY SMTT(30), <1>1, <1>4, LongestFacts
  <2> HIDE DEF n
  <2> SUFFICES ASSUME n >= m PROVE FALSE
    BY <1>1, <2>1 DEF n
  <2>2. k * ChunkSize < n
    BY <1>1, <1>2, <2>1
  <2>3. Reaches(d, doc, k, n)
    BY <1>1, <2>1, <2>2, HoldsMeans
  <2>4. key \in DOMAIN d /\ d[key].end >= MinOf(top, n)
    BY <1>1, <2>3 DEF Reaches
  <2>5. d[key].end \in Nat /\ MinOf(top, n) \in Nat /\ d[key].end < m
    BY <1>1, <2>1, <2>4 DEF IsDict, Extent, coverage, MinOf
  <2>6. MinOf(top, n) >= m
    BY <1>3, <2>1
  <2> HIDE DEF top, m
  <2> QED BY <1>1, <2>4, <2>5, <2>6
<1>6. LongestIn(e, doc) = m
  <2> DEFINE n == LongestIn(e, doc)
  <2>1. n \in Nat /\ HoldsIn(e, doc, n)
    BY SMTT(30), <1>1, <1>4, LongestFacts
  <2>2. m <= n
    BY <1>1, LongestCovers
  <2> HIDE DEF n
  <2> SUFFICES ASSUME n > m PROVE FALSE
    BY <1>1, <2>1, <2>2 DEF n
  <2>3. k * ChunkSize < n
    BY <1>1, <1>2, <2>1
  <2>4. Reaches(e, doc, k, n)
    BY <1>1, <2>1, <2>3, HoldsMeans
  <2>5. m >= MinOf(top, n)
    BY <1>1, <2>4 DEF Reaches
  <2>6. m = top
    BY <1>1, <1>2, <2>1, <2>5 DEF MinOf
  <2>7. Reaches(e, doc, k + 1, n)
    <3>1. (k + 1) * ChunkSize < n /\ k + 1 \in Nat
      BY SMTT(30), <1>1, <2>6
    <3> QED BY <2>1, <3>1, HoldsMeans
  <2> DEFINE y == <<doc, k + 1>>
  <2>8. y \in DOMAIN d /\ y[1] \in Documents /\ y[1] = doc /\ y[2] = k + 1
    <3>1. y # key
      BY <1>1
    <3>2. y \in DOMAIN e
      BY <2>7 DEF Reaches
    <3> QED BY <1>1, <3>1, <3>2
  <2>9. k \in 0 .. y[2] - 1
    BY <1>1, <2>8
  <2>10. <<y[1], k>> \in DOMAIN d /\ d[<<y[1], k>>].end = (k + 1) * ChunkSize
    <3> HIDE DEF y
    <3> QED BY <2>8, <2>9 DEF PrefixesIn
  <2>11. coverage(d, key) = top
    BY <1>1, <2>8, <2>10 DEF coverage
  <2> QED BY <1>1, <2>6, <2>11
<1> QED BY <1>5, <1>6

-----------------------------------------------------------------------------
(* The write-through tier implements PrefixStore.                          *)

\* Once the prompt is split, all of it is.
SplitFinished == phase \notin {"idle", "split"} => pos >= request.prompt

PrefixInv == Ordered /\ SplitFinished /\ HomePrefixes

LEMMA SplitFinishedStep ==
  ASSUME TypeInv, SplitFinished, [Next]_vars
  PROVE  SplitFinished'
<1>1. CASE UNCHANGED vars
  BY <1>1 DEF SplitFinished, vars, chunkingVars
<1>2. CASE Arrive
  BY <1>2 DEF SplitFinished, Arrive
<1>3. CASE Split
  BY <1>3 DEF SplitFinished, Split, SplitStep, SplitShared, SplitPrivate
<1>4. CASE Schedule
  <2>1. CASE StartScan
    BY <2>1 DEF SplitFinished, StartScan, SplitDone
  <2>2. CASE ~StartScan
    <3>1. request' = request /\ pos' = pos
      BY <1>4, <2>2 DEF Schedule
    <3>2. phase \notin {"idle", "split"}
      BY <1>4, <2>2 DEF Schedule, CakeStep, SkipUncached, ClaimLoad, ClaimCompute,
                        FrontsCross, SweepChunk, SweepDone, Scanning
    <3> QED BY <3>1, <3>2 DEF SplitFinished
  <2> QED BY <2>1, <2>2
<1>5. CASE Materialise
  BY <1>5, PrefillFrame DEF SplitFinished, Prefill
<1> QED BY <1>1, <1>2, <1>3, <1>4, <1>5 DEF Next, Prefill

LEMMA InitPrefixes ==
  ASSUME Init, HomeIsUnbounded
  PROVE  PrefixInv
<1>1. /\ phase = "idle" /\ chunks = <<>> /\ pos = 0
      /\ tiers[Home] = EmptyDict
  BY HomeFacts DEF Init
<1>2. Ordered
  BY <1>1 DEF Ordered
<1>3. HomePrefixes
  BY <1>1 DEF HomePrefixes, PrefixesIn, EmptyDict
<1> QED BY <1>1, <1>2, <1>3 DEF PrefixInv, SplitFinished

LEMMA SpecPrefixes ==
  ASSUME HomeIsUnbounded
  PROVE  Spec => []PrefixInv
<1>1. Init => PrefixInv
  BY InitPrefixes
<1>2. TypeInv /\ SafetyInv /\ AlignInv /\ PrefixInv /\ [Next]_vars => PrefixInv'
  <2> SUFFICES ASSUME TypeInv, SafetyInv, AlignInv, PrefixInv, [Next]_vars
               PROVE  PrefixInv'
    OBVIOUS
  <2>1. Ordered' /\ SplitFinished'
    BY OrderedStep, SplitFinishedStep DEF PrefixInv, AlignInv
  <2>2. CASE Next
    BY <2>1, <2>2, HomeStep DEF PrefixInv, AlignInv
  <2>3. CASE UNCHANGED vars
    <3>1. tiers' = tiers
      BY <2>3 DEF vars
    <3>2. HomePrefixes'
      BY <3>1 DEF PrefixInv, HomePrefixes, Home
    <3> QED BY <2>1, <3>2 DEF PrefixInv
  <2> QED BY <2>2, <2>3
<1> QED BY <1>1, <1>2, PrefillInvariant, SpecAligned, PTL DEF Spec

\* With an unbounded first write-through tier, no entry of a document lies
\* there beyond a gap or beyond a chunk that covers too little.
THEOREM ColdTierHoldsOnePrefix ==
  ASSUME HomeIsUnbounded
  PROVE  Spec => []ColdTierHoldsPrefixes
<1>1. TypeInv /\ PrefixInv => ColdTierHoldsPrefixes
  <2> SUFFICES ASSUME TypeInv, PrefixInv,
                      NEW key \in DOMAIN tiers[Home], key[1] \in Documents
               PROVE  tiers[Home][key].end <= LoadablePrefix(Home, key[1])
    BY DEF ColdTierHoldsPrefixes
  <2>1. IsDict(tiers[Home], Extent) /\ PrefixesIn(tiers[Home])
    BY HomeFacts DEF TypeInv, CacheInv, CacheTypeOK, PrefixInv, HomePrefixes
  <2>2. tiers[Home][key].end <= LongestIn(tiers[Home], key[1])
    BY <2>1, LongestCovers
  <2> QED BY <2>2, LoadableIsLongest
<1> QED BY <1>1, PrefillInvariant, SpecPrefixes, PTL

\* Once every chunk has been loaded, or recomputed and written through, the
\* shared prefix of the request can be loaded.
LEMMA PromptIsWarm ==
  ASSUME TypeInv, SafetyInv, RequestInv, PrefixInv, HomeIsUnbounded,
         phase = "recompute", cursor > Len(chunks)
  PROVE  LongestIn(tiers[Home], request.doc) >= request.shared
<1> DEFINE doc == request.doc
           n == request.shared
           d == tiers[Home]
<1>1. /\ DOMAIN chunks = 1 .. Len(chunks) /\ Len(chunks) \in Nat
      /\ \A j \in DOMAIN chunks : chunks[j] \in Chunk
      /\ n \in Nat /\ request.prompt \in Nat /\ pos \in Nat /\ cursor \in Nat
      /\ DOMAIN plan = DOMAIN chunks /\ ChunkSize \in Nat \ {0}
  BY ScheduleFacts
     DEF TypeInv, ScheduleTypeOK, Bookkeeping, ControlTypeOK, Request, ChunkingAssumption
<1>2. doc \in Documents /\ n <= request.prompt /\ n <= DocumentLength[doc]
  BY DEF RequestInv, Tiling
<1>3. request.prompt <= pos /\ pos <= Len(chunks) * ChunkSize
  BY DEF PrefixInv, SplitFinished, Ordered
<1>4. IsDict(d, Extent) /\ PrefixesIn(d)
  BY HomeFacts DEF TypeInv, CacheInv, CacheTypeOK, PrefixInv, HomePrefixes
<1>5. ASSUME NEW k \in Nat, k * ChunkSize < n
      PROVE  Reaches(d, doc, k, n)
  <2> DEFINE i == k + 1
             c == chunks[i]
             x == <<doc, k>>
             top == (k + 1) * ChunkSize
  <2>1. top \in Nat /\ top = k * ChunkSize + ChunkSize /\ k * ChunkSize \in Nat
    BY ProductOrder DEF ChunkingAssumption
  <2>2. i \in DOMAIN chunks
    <3>1. CASE Len(chunks) <= k
      <4> DEFINE full == Len(chunks) * ChunkSize
                 low == k * ChunkSize
      <4>1. full <= low /\ full \in Nat /\ low \in Nat /\ pos <= full /\ low < n
        BY <1>1, <1>3, <1>5, <3>1, ProductOrder
      <4> HIDE DEF full, low, n
      <4> QED BY <1>1, <1>2, <1>3, <4>1
    <3> QED BY <1>1, <3>1
  <2>3. /\ c \in Chunk /\ c.start \in Nat /\ c.end \in Nat /\ c.start < c.end
        /\ c.idx = k
    <3>1. c.idx = i - 1
      BY <2>2 DEF RequestInv, Tiling
    <3> QED BY SMTT(30), <1>1, <2>2, <3>1, ChunkFields
  <2>4. c.start < n
    <3> DEFINE low == k * ChunkSize
    <3>1. c.start <= low
      BY <2>2, <2>3 DEF PrefixInv, Ordered
    <3>2. low \in Nat /\ low < n /\ c.start \in Nat
      BY <1>5, <2>1, <2>3
    <3> HIDE DEF low, c, n
    <3> QED BY <1>1, <3>1, <3>2
  <2>5. /\ token_count(c) < ChunkSize => c.end \in {n, request.prompt}
        /\ \/ c.end <= n /\ c.cid = doc /\ c.start = c.idx * ChunkSize
           \/ c.start >= n
    BY <2>2 DEF RequestInv, Tiling
  <2>6. c.end <= n /\ c.cid = doc /\ c.start = k * ChunkSize
    <3>1. ~(c.start >= n)
      BY SMTT(30), <1>1, <2>3, <2>4
    <3> HIDE DEF c, n, doc
    <3> QED BY <2>3, <2>5, <3>1
  <2>7. c.end >= MinOf(top, n)
    <3>1. CASE c.end >= n
      BY <1>1, <2>1, <2>3, <3>1 DEF MinOf
    <3>2. CASE c.end < n
      <4>1. c.end # n /\ c.end # request.prompt
        BY <1>1, <1>2, <2>3, <3>2
      <4>2. token_count(c) >= ChunkSize
        <5>1. ~(token_count(c) < ChunkSize)
          BY <2>5, <4>1
        <5>2. token_count(c) \in Int
          BY SMTT(30), <2>3 DEF token_count
        <5> QED BY <1>1, <5>1, <5>2
      <4> DEFINE low == k * ChunkSize
      <4>3. token_count(c) = c.end - low
        BY <2>6 DEF token_count
      <4>4. top = low + ChunkSize /\ low \in Nat
        BY <2>1
      <4> HIDE DEF c, n, top, low
      <4>5. c.end >= top
        BY <1>1, <2>3, <4>2, <4>3, <4>4
      <4>6. \A a, b \in Nat : MinOf(a, b) <= a /\ MinOf(a, b) \in Nat
        BY DEF MinOf
      <4>7. MinOf(top, n) <= top /\ MinOf(top, n) \in Nat /\ top \in Nat
        BY <1>1, <2>1, <4>6
      <4> QED BY <2>3, <4>5, <4>7
    <3> QED BY SMTT(30), <1>1, <2>3, <3>1, <3>2
  <2>8. coverage(d, x) >= c.end
    <3>1. Covers(Home, c)
      <4>1. i \in DOMAIN plan /\ i < cursor
        BY <1>1, <2>2
      <4> QED BY <4>1, HomeFacts DEF SafetyInv, WarmInv, WarmBy
    <3>2. cache_key(c) = x
      BY <2>3, <2>6 DEF cache_key
    <3> QED BY <3>1, <3>2 DEF Covers
  <2>9. coverage(d, x) \in Nat
    BY <1>4, CoverageFacts
  <2>10. x \in DOMAIN d /\ d[x].end = coverage(d, x)
    <3>1. coverage(d, x) # 0
      BY <2>3, <2>8, <2>9
    <3> QED BY <3>1 DEF coverage
  <2>11. d[x].start = k * ChunkSize
    <3>1. x[1] = doc /\ x[2] = k
      OBVIOUS
    <3> HIDE DEF x, d, doc
    <3> QED BY <1>2, <1>4, <2>10, <3>1 DEF PrefixesIn
  <2>12. d[x].end >= MinOf(top, n)
    <3>1. MinOf(top, n) \in Nat
      BY <1>1, <2>1 DEF MinOf
    <3> HIDE DEF c, n, top, x, d
    <3> QED BY <2>3, <2>7, <2>8, <2>9, <2>10, <3>1
  <2> HIDE DEF n, d, doc
  <2> QED BY <2>10, <2>11, <2>12 DEF Reaches
<1>6. HoldsIn(d, doc, n)
  <2> HIDE DEF d, doc
  <2> QED BY <1>1, <1>5, HoldsMeans
<1>7. n \in 0 .. DocumentLength[doc]
  BY <1>1, <1>2 DEF WorkloadAssumption
<1> HIDE DEF d, doc, n
<1>8. n <= LongestIn(d, doc) /\ LongestIn(d, doc) \in 0 .. DocumentLength[doc]
  BY <1>2, <1>6, <1>7, LongestFacts
<1>9. LongestIn(d, doc) >= n
  BY <1>1, <1>8
<1> QED BY <1>9 DEF d, doc, n

\* A chunk of the document that is written through lengthens its prefix up to
\* the end of the chunk; a private chunk changes no prefix.
LEMMA WrittenExtends ==
  ASSUME TypeInv, SafetyInv, RequestInv, PrefixInv, HomePrefixes', HomeIsUnbounded, Next,
         TypeInv', tiers'[Home] # tiers[Home]
  PROVE  /\ WriteThroughOne
         /\ \A doc \in Documents :
              doc # request.doc => LongestIn(tiers'[Home], doc) = LongestIn(tiers[Home], doc)
         /\ \/ LongestIn(tiers'[Home], request.doc) = LongestIn(tiers[Home], request.doc)
            \/ LongestIn(tiers'[Home], request.doc)
                 \in LongestIn(tiers[Home], request.doc) + 1 .. request.shared
<1> DEFINE c == chunks[cursor]
           key == Key(cursor)
           d == tiers[Home]
           e == tiers'[Home]
<1>1. /\ WriteThroughOne
      /\ cursor \in DOMAIN chunks /\ c \in Chunk
      /\ coverage(d, key) < c.end
      /\ Writes(d, e, key)
      /\ e[key] = extent(c)
  BY HomeWritten DEF Writes
<1>2. IsDict(d, Extent) /\ IsDict(e, Extent) /\ PrefixesIn(d) /\ PrefixesIn(e)
  <2>1. IsDict(d, Extent) /\ PrefixesIn(d)
    BY HomeFacts DEF TypeInv, CacheInv, CacheTypeOK, PrefixInv, HomePrefixes
  <2>2. IsDict(e, Extent)
    BY HomeFacts DEF TypeInv, CacheInv, CacheTypeOK, IsDict
  <2>3. PrefixesIn(e)
    BY DEF HomePrefixes, PrefixesIn, Home
  <2> QED BY <2>1, <2>2, <2>3
<1>3. /\ key \in CacheKey /\ key[1] = c.cid
      /\ e[key].end = c.end /\ c.end \in Nat /\ request.doc \in Documents
      /\ request.shared \in Nat
  BY <1>1, ChunkFields
     DEF Key, cache_key, CacheKey, extent, RequestInv, Tiling, TypeInv, ScheduleTypeOK, Request
<1> HIDE DEF key, d, e
<1>4. ASSUME NEW doc, doc # c.cid
      PROVE  LongestIn(e, doc) = LongestIn(d, doc)
  <2>1. doc # key[1]
    BY <1>3, <1>4
  <2> HIDE DEF c
  <2> QED BY <1>1, <2>1, LongestSame
<1>5. CASE c.cid \in Documents
  <2>1. c.cid = request.doc /\ c.end <= request.shared
    BY <1>1, <1>5, BeforeDocumentChunk DEF PrefixInv
  <2>2. coverage(d, key) < e[key].end /\ key[1] \in Documents /\ key[1] = request.doc
    BY <1>1, <1>3, <1>5, <2>1
  <2>3. LongestIn(d, key[1]) < e[key].end /\ LongestIn(e, key[1]) = e[key].end
    BY <1>1, <1>2, <1>3, <2>2, LongestExtends
  <2>4. LongestIn(d, request.doc) \in Nat
    <3>1. LongestIn(d, request.doc) \in 0 .. DocumentLength[request.doc]
      BY <1>3, LongestFacts
    <3> QED BY <1>3, <3>1 DEF WorkloadAssumption
  <2>5. LongestIn(e, request.doc) \in LongestIn(d, request.doc) + 1 .. request.shared
    BY <1>3, <2>1, <2>2, <2>3, <2>4
  <2> QED BY <1>1, <1>4, <2>1, <2>5 DEF d, e
<1>6. CASE c.cid \notin Documents
  BY <1>1, <1>3, <1>4, <1>6 DEF d, e
<1> QED BY <1>5, <1>6

\* Only Arrive begins a request, and only the end of the recomputations ends it.
LEMMA PrefillPhases ==
  ASSUME TypeInv, Prefill
  PROVE  /\ phase # "idle"
         /\ phase' = "idle" => /\ phase = "recompute" /\ cursor > Len(chunks)
                               /\ UNCHANGED tiers
<1>1. CASE Split
  BY <1>1 DEF Split, SplitStep, SplitShared, SplitPrivate
<1>2. CASE Schedule
  BY <1>2 DEF Schedule, StartScan, SplitDone, CakeStep, SkipUncached, ClaimLoad,
              ClaimCompute, FrontsCross, SweepChunk, SweepDone, Scanning
<1>3. CASE Materialise
  <2>1. phase # "idle"
    BY <1>3, PrefillFrame
  <2>2. phase' = "idle" => EndOfPhase /\ phase = "recompute"
    BY <1>3, <2>1
       DEF Materialise, BeginMaterialise, EndOfPhase, SkipOther, GpuLoad, ColdLoad,
           Recomputes, MakeRoom, FinishStore, WriteThroughOne, WriteThroughDone,
           GoTo, PhaseAfter, Advance, At, Raise, Fail, StoreLoaded, BeginWriteThrough
  <2> QED BY <2>1, <2>2 DEF EndOfPhase
<1> QED BY <1>1, <1>2, <1>3 DEF Prefill

\* The prefixes before and after a step that leaves the tier alone.
LEMMA PrefixesStand ==
  ASSUME tiers'[Home] = tiers[Home]
  PROVE  [doc \in Documents |-> LoadablePrefix(Home, doc)]'
           = [doc \in Documents |-> LoadablePrefix(Home, doc)]
<1>1. \A doc : LoadablePrefix(Home, doc) = LongestIn(tiers[Home], doc)
               /\ LoadablePrefix(Home, doc)' = LongestIn(tiers'[Home], doc)
  BY LoadableIsLongest
<1> QED BY <1>1

LEMMA InitStore ==
  ASSUME Init, HomeIsUnbounded
  PROVE  Store!StoreInit
<1>1. phase = "idle" /\ tiers[Home] = EmptyDict
  BY HomeFacts DEF Init
<1>2. ASSUME NEW doc \in Documents
      PROVE  LoadablePrefix(Home, doc) = 0
  <2> DEFINE n == LongestIn(EmptyDict, doc)
  <2>1. n \in Nat /\ HoldsIn(EmptyDict, doc, n)
    BY LongestFacts DEF WorkloadAssumption
  <2> HIDE DEF n
  <2>2. 0 < n => Reaches(EmptyDict, doc, 0, n)
    <3>1. 0 * ChunkSize = 0
      BY DEF ChunkingAssumption
    <3> QED BY <2>1, <3>1, HoldsMeans
  <2>3. ~Reaches(EmptyDict, doc, 0, n)
    BY DEF Reaches, EmptyDict
  <2>4. n = 0
    BY <2>1, <2>2, <2>3
  <2> QED BY <1>1, <2>4, LoadableIsLongest DEF n
<1> QED BY <1>1, <1>2 DEF Store!StoreInit

LEMMA ArriveBegins ==
  ASSUME TypeInv, HomeIsUnbounded, Arrive
  PROVE  Store!Begin
<1>1. phase = "idle" /\ phase' = "split" /\ tiers' = tiers
  BY DEF Arrive
<1>2. request'.doc \in Documents
  BY ArriveRequest DEF RequestInv, Tiling
<1>3. [doc |-> request'.doc, len |-> request'.shared] # <<>>
  <2>1. "doc" \in DOMAIN [doc |-> request'.doc, len |-> request'.shared]
    OBVIOUS
  <2>2. DOMAIN <<>> = {}
    OBVIOUS
  <2> QED BY <2>1, <2>2
<1>4. [doc \in Documents |-> LoadablePrefix(Home, doc)]'
        = [doc \in Documents |-> LoadablePrefix(Home, doc)]
  BY <1>1, PrefixesStand
<1> QED BY <1>1, <1>2, <1>3, <1>4 DEF Store!Begin, Store!Serving

\* The request that the store serves, before and after a step of its prefill.
LEMMA StillServing ==
  ASSUME TypeInv, Prefill
  PROVE  /\ phase # "idle" /\ request' = request
         /\ Store!Serving
  BY PrefillPhases, PrefillFrame DEF Store!Serving

LEMMA PrefillImplements ==
  ASSUME TypeInv, SafetyInv, RequestInv, PrefixInv, HomeIsUnbounded, Prefill,
         TypeInv', PrefixInv'
  PROVE  Store!Extend \/ Store!Finish \/ UNCHANGED Store!storeVars
<1>1. phase # "idle" /\ request' = request /\ Store!Serving
  BY StillServing
<1>2. /\ request.doc \in Documents
      /\ \A doc : LoadablePrefix(Home, doc) = LongestIn(tiers[Home], doc)
                  /\ LoadablePrefix(Home, doc)' = LongestIn(tiers'[Home], doc)
  BY LoadableIsLongest DEF RequestInv, Tiling
<1>3. CASE phase' = "idle"
  <2>1. phase = "recompute" /\ cursor > Len(chunks) /\ tiers' = tiers
    BY <1>3, PrefillPhases
  <2>2. LongestIn(tiers[Home], request.doc) >= request.shared
    BY <2>1, PromptIsWarm
  <2>3. [doc \in Documents |-> LoadablePrefix(Home, doc)]'
          = [doc \in Documents |-> LoadablePrefix(Home, doc)]
    BY <2>1, PrefixesStand
  <2> QED BY <1>1, <1>2, <1>3, <2>2, <2>3 DEF Store!Finish
<1>4. CASE phase' # "idle" /\ tiers'[Home] = tiers[Home]
  <2>1. [doc \in Documents |-> LoadablePrefix(Home, doc)]'
          = [doc \in Documents |-> LoadablePrefix(Home, doc)]
    BY <1>4, PrefixesStand
  <2> QED BY <1>1, <1>4, <2>1 DEF Store!storeVars
<1>5. CASE phase' # "idle" /\ tiers'[Home] # tiers[Home]
  <2>1. /\ \A doc \in Documents :
             doc # request.doc => LongestIn(tiers'[Home], doc) = LongestIn(tiers[Home], doc)
        /\ \/ LongestIn(tiers'[Home], request.doc) = LongestIn(tiers[Home], request.doc)
           \/ LongestIn(tiers'[Home], request.doc)
                \in LongestIn(tiers[Home], request.doc) + 1 .. request.shared
    BY <1>5, WrittenExtends DEF PrefixInv, Next
  <2>2. CASE LongestIn(tiers'[Home], request.doc) = LongestIn(tiers[Home], request.doc)
    <3>1. [doc \in Documents |-> LoadablePrefix(Home, doc)]'
            = [doc \in Documents |-> LoadablePrefix(Home, doc)]
      BY <1>2, <2>1, <2>2
    <3> QED BY <1>1, <1>5, <3>1 DEF Store!storeVars
  <2>3. CASE LongestIn(tiers'[Home], request.doc)
               \in LongestIn(tiers[Home], request.doc) + 1 .. request.shared
    <3>1. PICK n \in LongestIn(tiers[Home], request.doc) + 1 .. request.shared :
            n = LongestIn(tiers'[Home], request.doc)
      BY <2>3
    <3>2. [doc \in Documents |-> LoadablePrefix(Home, doc)]'
            = [[doc \in Documents |-> LoadablePrefix(Home, doc)] EXCEPT ![request.doc] = n]
      BY <1>2, <2>1, <3>1
    <3>3. UNCHANGED (IF phase = "idle" THEN <<>>
                     ELSE [doc |-> request.doc, len |-> request.shared])
      BY <1>1, <1>5
    <3> QED BY <1>1, <1>2, <3>1, <3>2, <3>3 DEF Store!Extend
  <2> QED BY <2>1, <2>2, <2>3
<1> QED BY <1>3, <1>4, <1>5

\* A stream of prefills with an unbounded write-through tier implements
\* PrefixStore: the loadable prefix of a document only grows, only by the
\* request being served and never beyond its shared prefix, and no request is
\* done before all of its shared prefix can be loaded.
THEOREM StreamImplementsStore ==
  ASSUME HomeIsUnbounded
  PROVE  Spec => ImplementsPrefixStore
<1>1. Init => Store!StoreInit
  BY InitStore
<1>2. /\ TypeInv /\ SafetyInv /\ AlignInv /\ PrefixInv /\ [Next]_vars
      /\ TypeInv' /\ PrefixInv'
      => [Store!StoreNext]_(Store!storeVars)
  <2> SUFFICES ASSUME TypeInv, SafetyInv, AlignInv, PrefixInv, [Next]_vars,
                      TypeInv', PrefixInv'
               PROVE  Store!StoreNext \/ UNCHANGED Store!storeVars
    OBVIOUS
  <2>1. CASE Arrive
    BY <2>1, ArriveBegins DEF Store!StoreNext
  <2>2. CASE Prefill
    BY <2>2, PrefillImplements DEF Store!StoreNext, AlignInv
  <2>3. CASE UNCHANGED vars
    <3>1. tiers' = tiers /\ phase' = phase /\ request' = request
      BY <2>3 DEF vars, chunkingVars
    <3>2. [doc \in Documents |-> LoadablePrefix(Home, doc)]'
            = [doc \in Documents |-> LoadablePrefix(Home, doc)]
      BY <3>1, PrefixesStand
    <3> QED BY <3>1, <3>2 DEF Store!storeVars
  <2> QED BY <2>1, <2>2, <2>3 DEF Next
<1> QED BY <1>1, <1>2, PrefillInvariant, SpecAligned, SpecPrefixes, PTL
        DEF Spec, ImplementsPrefixStore, Store!StoreSpec

-----------------------------------------------------------------------------
(* The lookup after a prefill.                                             *)

\* What the prefill has touched is in the GPU with all that was needed of it,
\* or it is not there at all.
NoShortCopy(i) == Present(GPU, Key(i)) => Covers(GPU, chunks[i])

NoShortCopies ==
  phase \in {"gpuLoads", "coldLoads", "recompute", "writeThrough", "idle"} =>
    \A i \in TouchedChunks : NoShortCopy(i)

LEMMA NoShortCopiesStep ==
  ASSUME TypeInv, SafetyInv, AlignInv, RecencyInv, NoShortCopies, Next
  PROVE  NoShortCopies'
<1> SUFFICES ASSUME phase' \in {"gpuLoads", "coldLoads", "recompute", "writeThrough", "idle"},
                    NEW i \in TouchedChunks'
             PROVE  NoShortCopy(i)'
  BY DEF NoShortCopies
<1>1. Materialise
  BY ScheduleFrame DEF Next, Prefill, Arrive, Split, SplitStep, SplitShared, SplitPrivate
<1>2. chunks' = chunks /\ plan' = plan /\ Key(i)' = Key(i) /\ i \in DOMAIN chunks
  BY <1>1, PrefillFrame DEF Prefill, Key, TouchedChunks
<1>3. CASE BeginMaterialise
  <2>1. phase' = "gpuLoads" /\ cursor' = 1
    BY <1>3 DEF BeginMaterialise, GoTo, PhaseAfter
  <2>2. ~(i < 1) /\ plan[i].action \in {"load", "recompute"}
    BY <1>1, <1>2, MaterialiseFrame
  <2> QED BY <1>2, <2>1, <2>2 DEF TouchedChunks, Touched, Loads
<1>4. CASE ~BeginMaterialise
  <2>1. phase \in {"gpuLoads", "coldLoads", "recompute", "writeThrough"} /\ phase' # "failed"
    BY <1>1, <1>4
       DEF Materialise, EndOfPhase, SkipOther, At, GpuLoad, ColdLoad, Recomputes, MakeRoom,
           EvictVictim, FinishStore, InsertPending, WriteThroughOne, WriteThroughDone,
           TypeInv, Bookkeeping
  <2>2. i \in TouchedChunks => NoShortCopy(i)
    BY <2>1 DEF NoShortCopies
  <2>3. CASE StaysSame
    BY <1>2, <2>2, <2>3 DEF StaysSame, NoShortCopy, Present, Covers
  <2>4. ASSUME NEW key, Removes(key)
        PROVE  NoShortCopy(i)'
    <3>1. /\ tiers'[GPU] = drop(tiers[GPU], key) /\ i \in TouchedChunks
          /\ CacheInv /\ key \in DOMAIN tiers[GPU]
      BY <2>4, RemoveFromGPUFacts DEF Removes, TypeInv
    <3>2. Key(i) \in DOMAIN tiers'[GPU] =>
            /\ Key(i) \in DOMAIN tiers[GPU]
            /\ tiers'[GPU][Key(i)] = tiers[GPU][Key(i)]
      BY <3>1 DEF drop
    <3>3. Key(i) = cache_key(chunks[i])
      BY <1>2 DEF Key
    <3> QED BY <1>2, <2>2, <3>1, <3>2, <3>3 DEF NoShortCopy, Present, Covers, coverage
  <2>5. ASSUME NEW n, Touches(n)
        PROVE  NoShortCopy(i)'
    <3>1. Key(i) = cache_key(chunks[i])
      BY <1>2 DEF Key
    <3>2. CASE i = n
      BY <1>2, <2>5, <3>1, <3>2 DEF Touches, NoShortCopy, Covers
    <3>3. CASE i # n
      <4>1. i \in TouchedChunks /\ n \in DOMAIN chunks
        BY <2>5, <3>3 DEF Touches
      <4>2. Key(i) # Key(n)
        BY <1>2, <3>3, <4>1, KeysDiffer DEF AlignInv
      <4>3. /\ coverage(tiers'[GPU], Key(i)) = coverage(tiers[GPU], Key(i))
            /\ Key(i) \in DOMAIN tiers'[GPU] => Key(i) \in DOMAIN tiers[GPU]
        BY <2>5, <4>2 DEF Touches
      <4> QED BY <1>2, <2>2, <3>1, <4>1, <4>3 DEF NoShortCopy, Present, Covers
    <3> QED BY <3>2, <3>3
  <2>6. CASE EndOfPhase \/ SkipOther \/ WriteThroughOne \/ WriteThroughDone
    BY <2>1, <2>3, <2>6, ControlTouches
  <2>7. CASE GpuLoad
    BY <2>1, <2>5, <2>7, GpuLoadTouches
  <2>8. CASE ColdLoad
    BY <2>1, <2>3, <2>8, ColdLoadTouches
  <2>9. CASE Recomputes
    BY <2>1, <2>3, <2>4, <2>5, <2>9, RecomputeTouches
  <2>10. CASE MakeRoom
    BY <2>4, <2>10, MakeRoomTouches
  <2>11. CASE FinishStore
    BY <2>5, <2>11, FinishStoreTouches
  <2> QED BY <1>1, <1>4, <2>6, <2>7, <2>8, <2>9, <2>10, <2>11 DEF Materialise
<1> QED BY <1>3, <1>4

\* Nothing else is ever put into a cold tier.
OthersEmpty ==
  \A t \in ColdTiers :
    (\A w \in DOMAIN WriteThrough : WriteThrough[w] # t) => DOMAIN tiers[t] = {}

LEMMA SpecNoShortCopies == Spec => [](NoShortCopies /\ OthersEmpty)
<1>1. Init => NoShortCopies /\ OthersEmpty
  BY DEF Init, CacheInit, NoShortCopies, TouchedChunks, OthersEmpty, Tiers, EmptyDict
<1>2. TypeInv /\ SafetyInv /\ AlignInv /\ RecencyInv /\ NoShortCopies /\ [Next]_vars
        => NoShortCopies'
  <2> SUFFICES ASSUME TypeInv, SafetyInv, AlignInv, RecencyInv, NoShortCopies, UNCHANGED vars
               PROVE  NoShortCopies'
    BY NoShortCopiesStep
  <2>1. /\ tiers' = tiers /\ phase' = phase /\ plan' = plan /\ chunks' = chunks
        /\ cursor' = cursor
    BY DEF vars, managerVars, chunkingVars
  <2> QED BY <2>1 DEF NoShortCopies, NoShortCopy, Present, Covers, TouchedChunks, Touched,
                      Loads, Key
<1>3. TypeInv /\ OthersEmpty /\ [Next]_vars => OthersEmpty'
  <2> SUFFICES ASSUME TypeInv, OthersEmpty, [Next]_vars, NEW t \in ColdTiers,
                      \A w \in DOMAIN WriteThrough : WriteThrough[w] # t
               PROVE  tiers'[t] = tiers[t]
    BY DEF OthersEmpty
  <2>1. CASE UNCHANGED vars
    BY <2>1 DEF vars
  <2>2. CASE WriteThroughOne
    BY <2>2, UpsertStep DEF Tiers
  <2>3. CASE Next /\ ~WriteThroughOne
    BY <2>3, ColdTierSteps
  <2> QED BY <2>1, <2>2, <2>3
<1>4. Spec => []RecencyInv
  BY SpecRecency
<1> QED BY <1>1, <1>2, <1>3, <1>4, PrefillInvariant, SpecAligned, PTL DEF Spec

\* The lookup finds a first holder of what any tier holds.
LEMMA FirstHolderExists ==
  ASSUME NEW t \in Tiers, NEW key, Present(t, key)
  PROVE  \E u \in Tiers : FirstHolder(u, key) /\ Present(u, key)
<1> DEFINE S == { n \in DOMAIN TierOrder : Present(TierOrder[n], key) }
<1>1. DOMAIN TierOrder = 1 .. Len(TierOrder) /\ Len(TierOrder) \in Nat
  BY LenProperties DEF CostAssumption
<1>2. PICK n \in S : \A m \in 1 .. n - 1 : m \notin S
  <2>1. PICK m \in DOMAIN TierOrder : TierOrder[m] = t
    BY DEF CostAssumption
  <2>2. m \in S /\ S \in SUBSET (1 .. Len(TierOrder))
    BY <1>1, <2>1
  <2> HIDE DEF S
  <2>3. S \in SUBSET Nat /\ S # {} /\ \A x \in S : x \in Nat
    <3>1. \A x \in 1 .. Len(TierOrder) : x \in Nat
      OBVIOUS
    <3> QED BY ONLY <2>2, <3>1, Zenon
  <2>4. PICK n \in S : \A y \in S : n <= y
    <3>1. S \in SUBSET Nat
      BY <2>3
    <3>2. S # {}
      BY <2>3
    <3> QED BY ONLY <3>1, <3>2, LeastNatural
  <2>5. \A k \in 1 .. n - 1 : k \notin S
    BY <2>3, <2>4
  <2> QED BY <2>5
<1>3. n \in DOMAIN TierOrder /\ \A m \in 1 .. n - 1 : ~Present(TierOrder[m], key)
  <2> SUFFICES ASSUME NEW m \in 1 .. n - 1 PROVE ~Present(TierOrder[m], key)
    OBVIOUS
  <2>1. n \in 1 .. Len(TierOrder) /\ n \in Nat
    BY <1>1
  <2>2. m \notin S
    BY <1>2
  <2>3. m \in 1 .. Len(TierOrder)
    BY ONLY <1>1, <2>1, m \in 1 .. n - 1
  <2>4. m \in DOMAIN TierOrder
    BY ONLY <1>1, <2>3
  <2> QED BY <2>2, <2>4
<1>4. TierOrder[n] \in Tiers
  BY <1>3 DEF CostAssumption
<1> QED BY <1>2, <1>3, <1>4 DEF FirstHolder

\* With a tier to write through to, each chunk of the shared prefix of the
\* request just served is a hit: the lookup meets no shorter version of it on
\* its way.
THEOREM ServedPrefixHits ==
  ASSUME WriteThrough # <<>>
  PROVE  Spec => []ServedPrefixIsHit
<1>1. TypeInv /\ SafetyInv /\ NoShortCopies /\ OthersEmpty => ServedPrefixIsHit
  <2> SUFFICES ASSUME TypeInv, SafetyInv, NoShortCopies, OthersEmpty, phase = "idle",
                      NEW i \in DOMAIN chunks
               PROVE  find_cached(chunks[i]) # NoTier
    BY DEF ServedPrefixIsHit
  <2>1. /\ chunks[i] \in Chunk /\ Key(i) = cache_key(chunks[i]) /\ i \in DOMAIN plan
        /\ chunks[i].end \in Nat /\ chunks[i].end > 0
    BY ScheduleFacts DEF TypeInv, Bookkeeping, Key, Chunk
  <2>2. \A w \in DOMAIN WriteThrough :
          /\ Covers(WriteThrough[w], chunks[i]) /\ WriteThrough[w] \in Tiers
          /\ Present(WriteThrough[w], Key(i))
    <3> SUFFICES ASSUME NEW w \in DOMAIN WriteThrough
                 PROVE  /\ Covers(WriteThrough[w], chunks[i]) /\ WriteThrough[w] \in Tiers
                        /\ Present(WriteThrough[w], Key(i))
      OBVIOUS
    <3>1. Covers(WriteThrough[w], chunks[i]) /\ WriteThrough[w] \in Tiers
      BY <2>1, WriteThroughFacts DEF SafetyInv, WarmInv, WarmBy
    <3>2. coverage(tiers[WriteThrough[w]], Key(i)) >= chunks[i].end
      BY <2>1, <3>1 DEF Covers
    <3> QED BY <2>1, <3>1, <3>2 DEF coverage, Present
  <2>3. PICK t \in Tiers : FirstHolder(t, Key(i)) /\ Present(t, Key(i))
    BY <2>2, FirstHolderExists, FirstWriteThrough
  <2>4. Covers(t, chunks[i])
    <3>1. CASE t = GPU
      <4>1. i \in TouchedChunks
        <5>1. Scheduled(i) /\ plan[i] \in Decision
          BY <2>1, ScheduleFacts DEF SafetyInv, PlanInv
        <5> QED BY <5>1 DEF Scheduled, Decision, Load, Recompute, TouchedChunks, Touched,
                            Loads
      <4> QED BY <2>3, <3>1, <4>1 DEF NoShortCopies, NoShortCopy
    <3>2. CASE t \in ColdTiers
      <4>1. PICK w \in DOMAIN WriteThrough : WriteThrough[w] = t
        BY <2>3, <3>2 DEF OthersEmpty, Present
      <4> QED BY <2>2, <4>1
    <3> QED BY <3>1, <3>2 DEF Tiers
  <2>5. t \in Hits(chunks[i])
    BY <2>1, <2>3, <2>4 DEF Hits
  <2>6. find_cached(chunks[i]) \in Hits(chunks[i])
    BY <2>5 DEF find_cached
  <2> QED BY <2>6 DEF Hits, CostAssumption
<1> QED BY <1>1, SpecNoShortCopies, PrefillInvariant, PTL

-----------------------------------------------------------------------------
(* The chunks that a prefill brings into the GPU.                          *)

\* No private chunk is in the GPU before it has been recomputed.
PrivateAbsent ==
  phase \in {"gpuLoads", "coldLoads", "recompute", "writeThrough", "idle"} =>
    \A i \in PrivateChunks \ TouchedChunks : ~Present(GPU, Key(i))

LEMMA PrivateAbsentStep ==
  ASSUME TypeInv, SafetyInv, AlignInv, RecencyInv, PrivateAbsent, Next
  PROVE  PrivateAbsent'
<1> SUFFICES ASSUME phase' \in {"gpuLoads", "coldLoads", "recompute", "writeThrough", "idle"},
                    NEW i \in PrivateChunks' \ TouchedChunks'
             PROVE  ~Present(GPU, Key(i))'
  BY DEF PrivateAbsent
<1>1. Materialise
  BY ScheduleFrame DEF Next, Prefill, Arrive, Split, SplitStep, SplitShared, SplitPrivate
<1>2. /\ chunks' = chunks /\ plan' = plan /\ Key(i)' = Key(i)
      /\ i \in DOMAIN chunks /\ i \in PrivateChunks
  BY <1>1, PrefillFrame DEF Prefill, Key, PrivateChunks
<1>3. CASE BeginMaterialise
  <2>1. ~Storing /\ tiers' = tiers
    BY <1>3 DEF BeginMaterialise, Storing
  <2>2. ~Present(GPU, Key(i))
    <3> SUFFICES ASSUME Present(GPU, Key(i)) PROVE FALSE
      OBVIOUS
    <3>1. Aligned(Key(i), tiers[GPU][Key(i)].start)
      BY DEF AlignInv, EntriesAligned, Present, Tiers
    <3>2. chunks[i].cid \in Documents
      BY <1>2, <2>1, <3>1, AlignedStart DEF AlignInv
    <3> QED BY <1>2, <3>2 DEF PrivateChunks
  <2> QED BY <1>2, <2>1, <2>2 DEF Present
<1>4. CASE ~BeginMaterialise
  <2>1. phase \in {"gpuLoads", "coldLoads", "recompute", "writeThrough"} /\ phase' # "failed"
    BY <1>1, <1>4
       DEF Materialise, EndOfPhase, SkipOther, At, GpuLoad, ColdLoad, Recomputes, MakeRoom,
           EvictVictim, FinishStore, InsertPending, WriteThroughOne, WriteThroughDone,
           TypeInv, Bookkeeping
  <2>2. i \notin TouchedChunks => ~Present(GPU, Key(i))
    BY <1>2, <2>1 DEF PrivateAbsent
  <2>3. CASE StaysSame
    BY <1>2, <2>2, <2>3 DEF StaysSame, Present
  <2>4. ASSUME NEW key, Removes(key)
        PROVE  ~Present(GPU, Key(i))'
    <3>1. /\ tiers'[GPU] = drop(tiers[GPU], key) /\ i \notin TouchedChunks
      BY <2>4, RemoveFromGPUFacts DEF Removes, TypeInv
    <3> QED BY <1>2, <2>2, <3>1 DEF Present, drop
  <2>5. ASSUME NEW n, Touches(n)
        PROVE  ~Present(GPU, Key(i))'
    <3>1. i \notin TouchedChunks /\ i # n /\ n \in DOMAIN chunks
      BY <2>5 DEF Touches
    <3>2. Key(i) # Key(n)
      BY <1>2, <3>1, KeysDiffer DEF AlignInv
    <3> QED BY <1>2, <2>2, <2>5, <3>1, <3>2 DEF Touches, Present
  <2>6. CASE EndOfPhase \/ SkipOther \/ WriteThroughOne \/ WriteThroughDone
    BY <2>1, <2>3, <2>6, ControlTouches
  <2>7. CASE GpuLoad
    BY <2>1, <2>5, <2>7, GpuLoadTouches
  <2>8. CASE ColdLoad
    BY <2>1, <2>3, <2>8, ColdLoadTouches
  <2>9. CASE Recomputes
    BY <2>1, <2>3, <2>4, <2>5, <2>9, RecomputeTouches
  <2>10. CASE MakeRoom
    BY <2>4, <2>10, MakeRoomTouches
  <2>11. CASE FinishStore
    BY <2>5, <2>11, FinishStoreTouches
  <2> QED BY <1>1, <1>4, <2>6, <2>7, <2>8, <2>9, <2>10, <2>11 DEF Materialise
<1> QED BY <1>3, <1>4

LEMMA SpecPrivateAbsent == Spec => []PrivateAbsent
<1>1. Init => PrivateAbsent
  BY DEF Init, PrivateAbsent, PrivateChunks
<1>2. TypeInv /\ SafetyInv /\ AlignInv /\ RecencyInv /\ PrivateAbsent /\ [Next]_vars
        => PrivateAbsent'
  <2> SUFFICES ASSUME PrivateAbsent, UNCHANGED vars PROVE PrivateAbsent'
    BY PrivateAbsentStep
  <2>1. /\ tiers' = tiers /\ phase' = phase /\ plan' = plan /\ chunks' = chunks
        /\ cursor' = cursor
    BY DEF vars, managerVars, chunkingVars
  <2> QED BY <2>1 DEF PrivateAbsent, PrivateChunks, Present, TouchedChunks, Touched, Loads, Key
<1>3. Spec => []RecencyInv
  BY SpecRecency
<1> QED BY <1>1, <1>2, <1>3, PrefillInvariant, SpecAligned, PTL DEF Spec

Recomputed == { i \in DOMAIN plan : plan[i].action = "recompute" }

\* The chunks that certainly, and that possibly, come into the GPU anew.
Brings == ColdLoads \cup PrivateChunks

MayBring == ColdLoads \cup Recomputed

\* The chunks that have been materialised, or are being stored.
Begun == TouchedChunks \cup { i \in {cursor} : ~Idle }

\* The chunks that are in the GPU, those evicted, and the one being stored.
Balance ==
  Cardinality(DOMAIN tiers[GPU]) + evictionCount + IF Idle THEN 0 ELSE Len(evicted) + 1

\* A step that begins to materialise chunk i.
Begins(i) ==
  /\ i \in DOMAIN chunks \ Begun
  /\ Begun' = Begun \cup {i}
  /\ \/ Balance' = Balance + 1 /\ i \in MayBring
     \/ Balance' = Balance /\ i \notin Brings

LEMMA BalanceTypes ==
  ASSUME TypeInv, RetentionInv
  PROVE  /\ IsFiniteSet(DOMAIN tiers[GPU]) /\ Cardinality(DOMAIN tiers[GPU]) \in Nat
         /\ evictionCount \in Nat /\ Len(evicted) \in Nat /\ Balance \in Nat
<1>1. IsFiniteSet(DOMAIN tiers[GPU]) /\ evictionCount \in Nat /\ Len(evicted) \in Nat
  BY LenProperties DEF RetentionInv, CapacityInv, TypeInv, ControlTypeOK, CacheInv,
                       CacheTypeOK, Tiers
<1>2. Cardinality(DOMAIN tiers[GPU]) \in Nat
  BY <1>1, FS_CardinalityType
<1> QED BY <1>1, <1>2 DEF Balance

\* A private chunk is recomputed.
LEMMA BringsFacts ==
  ASSUME TypeInv, SafetyInv, AlignInv,
         phase \in {"scheduled", "gpuLoads", "coldLoads", "recompute", "writeThrough", "idle"}
  PROVE  /\ Brings \in SUBSET MayBring /\ MayBring \in SUBSET DOMAIN chunks
         /\ DOMAIN plan = DOMAIN chunks
         /\ PrivateChunks \in SUBSET Recomputed /\ Recomputed \cap ColdLoads = {}
<1>1. DOMAIN plan = DOMAIN chunks
  BY DEF TypeInv, Bookkeeping
<1>2. ASSUME NEW i \in PrivateChunks PROVE i \in Recomputed
  <2>1. i \in DOMAIN plan /\ ~Loads(i)
    BY <1>1 DEF PrivateChunks, AlignInv, PrivateSuffixNeverLoaded
  <2>2. Scheduled(i) /\ plan[i] \in Decision
    BY <2>1, ScheduleFacts DEF SafetyInv, PlanInv
  <2> QED BY <2>1, <2>2 DEF Scheduled, Decision, Load, Recompute, Loads, Recomputed
<1> QED BY <1>1, <1>2 DEF Brings, MayBring, ColdLoads, Recomputed, Loads

\* Every step of a prefill leaves the balance alone, or begins a chunk.
LEMMA BalanceStep ==
  ASSUME TypeInv, SafetyInv, AlignInv, RetentionInv, RecencyInv, PrivateAbsent, Prefill,
         phase' # "failed"
  PROVE  \/ Balance' = Balance /\ Begun' = Begun /\ chunks' = chunks /\ plan' = plan
         \/ Balance' = Balance /\ Begun' = {} /\ Begun = {}
         \/ Begins(cursor) /\ chunks' = chunks /\ plan' = plan
<1> DEFINE n == Cardinality(DOMAIN tiers[GPU])
           m == Cardinality(DOMAIN tiers'[GPU])
<1>0. /\ IsFiniteSet(DOMAIN tiers[GPU]) /\ n \in Nat
      /\ evictionCount \in Nat /\ Len(evicted) \in Nat
  BY BalanceTypes
<1>1. CASE Split \/ Schedule
  <2>1. /\ tiers' = tiers /\ pending' = pending /\ evicted' = evicted
        /\ evictionCount' = evictionCount /\ Idle
        /\ phase \in {"split", "scan", "sweep"} /\ phase' \in {"split", "scan", "sweep", "scheduled"}
    BY <1>1, ScheduleFrame
       DEF Split, Schedule, SplitStep, SplitShared, SplitPrivate, managerVars, countVars,
           TypeInv, Bookkeeping
  <2>2. Balance' = Balance /\ TouchedChunks = {} /\ TouchedChunks' = {}
    BY <2>1 DEF Balance, Idle, TouchedChunks, Touched
  <2> QED BY <2>1, <2>2 DEF Begun, Idle
<1>2. CASE Materialise
  <2>1. /\ chunks' = chunks /\ plan' = plan /\ cursor \in Nat
        /\ DOMAIN plan = DOMAIN chunks
        /\ \A i \in DOMAIN chunks : i \in Nat \ {0}
    BY <1>2, MaterialiseFrame
  <2>2. CASE BeginMaterialise
    <3>1. /\ tiers' = tiers /\ pending' = pending /\ evicted' = evicted
          /\ evictionCount' = evictionCount /\ Idle
          /\ phase = "scheduled" /\ phase' = "gpuLoads" /\ cursor' = 1
      BY <2>2 DEF BeginMaterialise, GoTo, PhaseAfter, managerVars, countVars, TypeInv,
                  Bookkeeping
    <3>2. \A i \in DOMAIN chunks : ~(i < 1) /\ plan[i].action \in {"load", "recompute"}
      BY <1>2, MaterialiseFrame
    <3>3. TouchedChunks = {} /\ TouchedChunks' = {} /\ Balance' = Balance
      BY <2>1, <3>1, <3>2 DEF TouchedChunks, Touched, Loads, Balance, Idle
    <3> QED BY <3>1, <3>3 DEF Begun, Idle
  <2>3. CASE EndOfPhase \/ SkipOther \/ WriteThroughOne \/ WriteThroughDone
    <3>1. StaysSame
      BY <2>3, ControlTouches
    <3>2. /\ pending' = pending /\ evicted' = evicted /\ evictionCount' = evictionCount /\ Idle
      BY <2>3 DEF EndOfPhase, SkipOther, At, WriteThroughOne, WriteThroughDone, managerVars,
                  countVars, TypeInv, Bookkeeping
    <3> QED BY <2>1, <3>1, <3>2 DEF StaysSame, Balance, Begun, Idle
  <2>4. CASE GpuLoad
    <3>1. Touches(cursor)
      BY <2>4, GpuLoadTouches
    <3>2. /\ tiers' = tiers /\ pending' = pending /\ evicted' = evicted
          /\ evictionCount' = evictionCount /\ Idle
          /\ phase = "gpuLoads" /\ Loads(cursor) /\ plan[cursor].source = GPU
      BY <2>4 DEF GpuLoad, At, access, countVars
    <3>3. cursor \in DOMAIN chunks \ TouchedChunks /\ cursor \notin Brings
      <4>1. cursor \in DOMAIN plan
        BY <2>1, <3>1 DEF Touches
      <4>2. chunks[cursor].cid \in Documents
        BY <3>2, <4>1 DEF AlignInv, PrivateSuffixNeverLoaded
      <4> QED BY <2>1, <3>2, <4>1, <4>2
              DEF TouchedChunks, Touched, Brings, ColdLoads, PrivateChunks, Loads
    <3>4. Balance' = Balance /\ Begun = TouchedChunks /\ Begun' = TouchedChunks \cup {cursor}
      BY <3>1, <3>2 DEF Balance, Begun, Idle, Touches
    <3> QED BY <2>1, <3>3, <3>4 DEF Begins
  <2>5. CASE ColdLoad
    <3>1. StaysSame
      BY <2>5, ColdLoadTouches
    <3>2. /\ phase = "coldLoads" /\ Idle /\ Loads(cursor) /\ plan[cursor].source # GPU
          /\ evictionCount' = evictionCount
      BY <2>5 DEF ColdLoad, At, countVars
    <3>3. /\ cursor \in DOMAIN plan /\ cursor \in DOMAIN chunks
          /\ store(StoredSource(cursor)) /\ StoreLoaded(StoredSource(cursor))
          /\ StoredSource(cursor) \in Chunk
          /\ cache_key(StoredSource(cursor)) = Key(cursor)
      <4>1. /\ cursor \in DOMAIN plan /\ cursor \in DOMAIN chunks
            /\ Present(plan[cursor].source, Key(cursor)) /\ plan[cursor].source \in Tiers
        BY <2>5, <3>2, LoadFinds, CursorFacts DEF ColdLoad, At
      <4> QED BY <2>5, <3>2, <4>1, StoredSourceFacts
              DEF ColdLoad, StoreLoaded, Fail, Raise
    <3>4. ~Present(GPU, Key(cursor))
      <4>1. LoadPending(cursor)
        BY <3>2, <3>3, ScheduleFacts DEF LoadPending
      <4> QED BY <3>2, <3>3, <4>1 DEF RecencyInv, ColdLoadsAbsent
    <3>5. /\ pending' = StoredSource(cursor) /\ evicted' = <<>> /\ cursor' = cursor
          /\ pending' # NoChunk
      <4>1. NoChunk \notin Chunk
        BY DEF NoChunk, Chunk
      <4> QED BY <3>3, <3>4, <4>1 DEF store, StartStore, StoreLoaded, Fail, Raise
    <3>6. Len(evicted') = 0 /\ ~Idle' /\ tiers'[GPU] = tiers[GPU]
      BY <3>1, <3>5 DEF Idle, StaysSame
    <3>7. Balance' = Balance + 1
      BY <1>0, <3>2, <3>6 DEF Balance
    <3>8. cursor \in DOMAIN chunks \ TouchedChunks /\ cursor \in MayBring
      BY <2>1, <3>2, <3>3 DEF TouchedChunks, Touched, Loads, MayBring, ColdLoads
    <3>9. Begun = TouchedChunks /\ Begun' = TouchedChunks \cup {cursor}
      BY <3>1, <3>2, <3>5, <3>6 DEF Begun, StaysSame
    <3> QED BY <2>1, <3>7, <3>8, <3>9 DEF Begins
  <2>6. CASE Recomputes
    <3>1. /\ phase = "recompute" /\ Idle /\ plan[cursor].action = "recompute"
          /\ evictionCount' = evictionCount /\ cursor' = cursor
          /\ store_replacing(chunks[cursor])
          /\ IF pending' = NoChunk THEN phase' = "writeThrough" ELSE phase' = phase
      BY <2>6 DEF Recomputes, At, Fail, Raise, BeginWriteThrough
    <3>2. /\ cursor \in DOMAIN plan /\ cursor \in DOMAIN chunks /\ chunks[cursor] \in Chunk
          /\ chunks[cursor] # NoChunk /\ cache_key(chunks[cursor]) = Key(cursor)
      <4>1. cursor \in DOMAIN chunks /\ chunks[cursor] \in Chunk
        BY <2>6, CursorFacts DEF Recomputes
      <4>2. NoChunk \notin Chunk
        BY DEF NoChunk, Chunk
      <4> QED BY <2>1, <4>1, <4>2 DEF Key
    <3>3. cursor \in DOMAIN chunks \ TouchedChunks /\ cursor \in MayBring /\ Begun = TouchedChunks
      BY <2>1, <3>1, <3>2 DEF TouchedChunks, Touched, Loads, MayBring, Recomputed, Begun
    <3>4. Present(GPU, Key(cursor)) => cursor \notin Brings
      <4>1. Present(GPU, Key(cursor)) => cursor \notin PrivateChunks
        BY <3>1, <3>3 DEF PrivateAbsent
      <4> QED BY <3>1, <4>1 DEF Brings, ColdLoads, Loads
    <3>5. Begun' = TouchedChunks \cup {cursor}
      <4>1. CASE pending' = NoChunk
        <5>1. \A i \in DOMAIN chunks : Touched(i)' <=> Touched(i) \/ i = cursor
          BY <2>1, <3>1, <4>1 DEF Touched, Loads
        <5> QED BY <2>1, <3>1, <3>2, <4>1, <5>1 DEF Begun, TouchedChunks, Idle
      <4>2. CASE pending' # NoChunk
        <5>1. \A i \in DOMAIN chunks : Touched(i)' <=> Touched(i)
          BY <2>1, <3>1, <4>2 DEF Touched, Loads
        <5> QED BY <2>1, <3>1, <3>2, <4>2, <5>1 DEF Begun, TouchedChunks, Idle
      <4> QED BY <4>1, <4>2
    <3>6. CASE Present(GPU, Key(cursor)) /\ KeepResident(Key(cursor))
      <4>1. Balance' = Balance
        BY <3>1, <3>6 DEF KeepResident, Balance, Idle
      <4> QED BY <2>1, <3>3, <3>4, <3>5, <3>6, <4>1 DEF Begins
    <3>7. CASE StartStore(chunks[cursor])
      <4>1. ~Idle' /\ Len(evicted') = 0
        BY <3>2, <3>7 DEF StartStore, Idle
      <4>2. CASE Present(GPU, Key(cursor)) /\ RemoveFromGPU(Key(cursor))
        <5>1. /\ Key(cursor) \in DOMAIN tiers[GPU]
              /\ tiers'[GPU] = drop(tiers[GPU], Key(cursor))
          BY <4>2, RemoveFromGPUFacts DEF Present, TypeInv
        <5>2. Cardinality(DOMAIN tiers'[GPU]) = n - 1
          BY <1>0, <5>1, DropCount
        <5>3. Balance' = Balance
          BY <1>0, <3>1, <4>1, <5>2 DEF Balance
        <5> QED BY <2>1, <3>3, <3>4, <3>5, <4>2, <5>3 DEF Begins
      <4>3. CASE UNCHANGED tiers
        <5>1. Balance' = Balance + 1
          BY <1>0, <3>1, <4>1, <4>3 DEF Balance
        <5> QED BY <2>1, <3>3, <3>5, <5>1 DEF Begins
      <4> QED BY <3>1, <3>2, <3>7, <4>1, <4>2, <4>3
              DEF store_replacing, KeepResident, Idle
    <3> QED BY <3>1, <3>2, <3>6, <3>7 DEF store_replacing
  <2>7. CASE MakeRoom
    <3>1. PICK key \in DOMAIN tiers[GPU] : Removes(key)
      BY <2>7, MakeRoomTouches
    <3>2. /\ ~Idle /\ pending' = pending /\ cursor' = cursor /\ evictionCount' = evictionCount
          /\ \E k : evicted' = Append(evicted, k)
      BY <2>7 DEF MakeRoom, EvictVictim, countVars
    <3>3. Len(evicted') = Len(evicted) + 1
      BY <3>2, AppendProperties DEF TypeInv, CacheInv, CacheTypeOK
    <3>4. Cardinality(DOMAIN tiers'[GPU]) = n - 1
      <4>1. tiers'[GPU] = drop(tiers[GPU], key)
        BY <3>1, RemoveFromGPUFacts DEF Removes, TypeInv
      <4> QED BY <1>0, <4>1, DropCount
    <3>5. Balance' = Balance
      BY <1>0, <3>2, <3>3, <3>4 DEF Balance, Idle
    <3>6. Begun' = Begun
      BY <3>1, <3>2 DEF Removes, Begun, Idle
    <3> QED BY <2>1, <3>5, <3>6
  <2>8. CASE FinishStore
    <3>1. Touches(cursor)
      BY <2>8, FinishStoreTouches
    <3>2. /\ ~Idle /\ Idle' /\ evictionCount' = evictionCount + Len(evicted)
          /\ InsertPending /\ pending \in Chunk
      BY <2>8, InsertPendingFacts DEF FinishStore, InsertPending, Idle, TypeInv
    <3>3. tiers'[GPU] = put(tiers[GPU], pending) /\ cache_key(pending) \notin DOMAIN tiers[GPU]
      BY <3>2, InsertPendingFacts DEF TypeInv, RecencyInv, StoreInv, Present
    <3>4. Cardinality(DOMAIN tiers'[GPU]) = n + 1
      BY <1>0, <3>3, PutCount
    <3>5. Balance' = Balance
      BY <1>0, <3>2, <3>4 DEF Balance
    <3>6. Begun' = Begun
      BY <3>1, <3>2 DEF Touches, Begun
    <3> QED BY <2>1, <3>5, <3>6
  <2> QED BY <1>2, <2>2, <2>3, <2>4, <2>5, <2>6, <2>7, <2>8 DEF Materialise
<1> QED BY <1>1, <1>2 DEF Prefill

\* The rows of the prefills that are over, the last of which describes what
\* the prefill has left.
RowsInv ==
  /\ \E S : metrics \in Seq(S)
  /\ Len(metrics) = IF phase = "idle" THEN served ELSE served - 1
  /\ \A n \in 1 .. Len(metrics) : metrics[n].gpu_chunks_after \in Nat
  /\ phase = "idle" /\ served > 0 =>
       /\ metrics[served].gpu_chunks_after = Cardinality(DOMAIN tiers[GPU])
       /\ metrics[served].eviction_count = evictionCount
       /\ metrics[served].recompute_count = count("recompute")

\* The GPU is empty before the first request.
EmptyAtFirst == served = 0 => DOMAIN tiers[GPU] = {}

Before == GpuChunks(served - 1)

\* The chunks that the prefill has brought into the GPU so far are those that
\* it had to bring, and at most those that it might.
FlowInv ==
  served > 0 /\ phase # "failed" =>
    Balance - Before \in Cardinality(Brings \cap Begun) .. Cardinality(MayBring \cap Begun)

LEMMA RunSteps ==
  ASSUME TypeInv, RequestInv, [RunNext]_runVars
  PROVE  /\ [Next]_vars /\ served \in Nat
         /\ \/ UNCHANGED runVars
            \/ Arrive /\ metrics' = metrics /\ phase = "idle" /\ phase' = "split"
                 /\ served' = served + 1
            \/ /\ Prefill /\ phase # "idle" /\ served > 0 /\ served' = served
               /\ metrics' = IF phase' = "idle" THEN Append(metrics, PrefillMetrics)
                             ELSE metrics
<1>1. served \in Nat
  BY DEF TypeInv, ControlTypeOK
<1>2. CASE RunNext /\ Arrive
  BY <1>1, <1>2 DEF RunNext, Arrive, Returns
<1>3. CASE RunNext /\ Prefill
  <2>1. phase # "idle" /\ served' = served
    BY <1>3, PrefillPhases, PrefillFrame
  <2>2. served > 0
    BY <1>1, <2>1 DEF RequestInv
  <2> QED BY <1>1, <1>3, <2>1, <2>2 DEF RunNext, Returns
<1>4. CASE UNCHANGED runVars
  BY <1>1, <1>4 DEF runVars
<1> QED BY <1>2, <1>3, <1>4 DEF RunNext, Next

LEMMA RowsStep ==
  ASSUME TypeInv, RequestInv, RetentionInv, RowsInv, [RunNext]_runVars
  PROVE  RowsInv'
<1>1. PICK S : metrics \in Seq(S)
  BY DEF RowsInv
<1>2. CASE UNCHANGED runVars
  <2>1. /\ phase' = phase /\ served' = served /\ tiers' = tiers /\ plan' = plan
        /\ evictionCount' = evictionCount /\ metrics' = metrics
    BY <1>2 DEF runVars, vars, chunkingVars, countVars
  <2> QED BY <2>1 DEF RowsInv, count
<1>3. CASE Arrive /\ metrics' = metrics /\ phase = "idle" /\ phase' = "split"
             /\ served' = served + 1
  <2>1. served \in Nat
    BY DEF TypeInv, ControlTypeOK
  <2>2. Len(metrics) = served' - 1 /\ phase' # "idle"
    BY <1>3, <2>1 DEF RowsInv
  <2> QED BY <1>3, <2>2 DEF RowsInv
<1>4. CASE /\ Prefill /\ phase # "idle" /\ served > 0 /\ served' = served
           /\ metrics' = IF phase' = "idle" THEN Append(metrics, PrefillMetrics) ELSE metrics
  <2>1. CASE phase' # "idle"
    BY <1>4, <2>1 DEF RowsInv
  <2>2. CASE phase' = "idle"
    <3>1. metrics' = Append(metrics, PrefillMetrics) /\ Len(metrics) = served - 1
          /\ served \in Nat
      BY <1>4, <2>2 DEF RowsInv, TypeInv, ControlTypeOK
    <3>2. EndOfPhase
      BY <1>4, <2>2, ScheduleFrame
         DEF Prefill, Split, SplitStep, SplitShared, SplitPrivate, Materialise,
             BeginMaterialise, GoTo, PhaseAfter, SkipOther, At, GpuLoad, ColdLoad, Recomputes,
             MakeRoom, EvictVictim, FinishStore, InsertPending, WriteThroughOne,
             WriteThroughDone, Advance, Fail, Raise, BeginWriteThrough, StoreLoaded
    <3>3. tiers' = tiers /\ plan' = plan /\ evictionCount' = evictionCount
      BY <3>2 DEF EndOfPhase, scheduleVars, countVars
    <3>4. PICK row : row = PrefillMetrics
      OBVIOUS
    <3>5. /\ metrics' \in Seq(S \cup {row}) /\ Len(metrics') = served
          /\ metrics'[served] = row /\ \A n \in 1 .. served - 1 : metrics'[n] = metrics[n]
      <4>1. metrics \in Seq(S \cup {row}) /\ row \in S \cup {row}
        BY <1>1, SeqMonotonic
      <4>2. metrics' = Append(metrics, row) /\ Len(metrics) + 1 = served
        BY <3>1, <3>4
      <4> QED BY <3>1, <4>1, <4>2, AppendProperties
    <3>6. /\ row.gpu_chunks_after = Cardinality(DOMAIN tiers[GPU])
          /\ row.eviction_count = evictionCount
          /\ row.recompute_count = count("recompute")
      BY <3>4 DEF PrefillMetrics
    <3>7. count("recompute")' = count("recompute")
      BY <3>3 DEF count
    <3>8. Cardinality(DOMAIN tiers[GPU]) \in Nat
      BY BalanceTypes
    <3>9. ASSUME NEW n \in 1 .. served PROVE metrics'[n].gpu_chunks_after \in Nat
      <4>1. n = served \/ n \in 1 .. served - 1
        BY <3>1
      <4> QED BY <3>1, <3>5, <3>6, <3>8, <4>1 DEF RowsInv
    <3> QED BY <1>4, <2>2, <3>3, <3>5, <3>6, <3>7, <3>9 DEF RowsInv
  <2> QED BY <2>1, <2>2
<1> QED BY <1>2, <1>3, <1>4, RunSteps

LEMMA FlowStep ==
  ASSUME TypeInv, SafetyInv, AlignInv, RetentionInv, RecencyInv, PrivateAbsent, EmptyAtFirst,
         RowsInv, FlowInv, [RunNext]_runVars
  PROVE  FlowInv'
<1> SUFFICES ASSUME phase' # "failed"
             PROVE  served' > 0 => (Balance' - Before') \in
                        Cardinality((Brings \cap Begun)') .. Cardinality((MayBring \cap Begun)')
  BY DEF FlowInv
<1>1. RequestInv /\ served \in Nat
  BY DEF AlignInv, TypeInv, ControlTypeOK
<1>2. CASE UNCHANGED runVars
  <2>1. /\ tiers' = tiers /\ phase' = phase /\ plan' = plan /\ chunks' = chunks
        /\ cursor' = cursor /\ served' = served /\ metrics' = metrics
        /\ evictionCount' = evictionCount /\ pending' = pending /\ evicted' = evicted
    BY <1>2 DEF runVars, vars, managerVars, chunkingVars, countVars
  <2>2. Balance' = Balance /\ Before' = Before
    BY <2>1 DEF Balance, Idle, Before, GpuChunks
  <2>3. Begun' = Begun /\ Brings' = Brings /\ MayBring' = MayBring
    BY <2>1 DEF Begun, Idle, TouchedChunks, Touched, Loads, Brings, MayBring, ColdLoads,
                PrivateChunks, Recomputed
  <2> QED BY <2>1, <2>2, <2>3 DEF FlowInv
<1>3. CASE Arrive /\ metrics' = metrics /\ phase = "idle" /\ phase' = "split"
             /\ served' = served + 1
  <2>1. /\ tiers' = tiers /\ evictionCount' = 0 /\ Idle /\ Idle'
    BY <1>3 DEF Arrive, managerVars, TypeInv, Bookkeeping, Idle
  <2>2. Cardinality(DOMAIN tiers[GPU]) \in Nat
    BY BalanceTypes
  <2>3. Balance' = Cardinality(DOMAIN tiers[GPU])
    BY <2>1, <2>2 DEF Balance
  <2>4. Before' = Cardinality(DOMAIN tiers[GPU])
    <3>1. served' - 1 = served
      BY <1>1, <1>3
    <3>2. CASE served = 0
      <4>1. Cardinality(DOMAIN tiers[GPU]) = 0
        BY <3>2, FS_EmptySet DEF EmptyAtFirst
      <4> QED BY <3>1, <3>2, <4>1 DEF Before, GpuChunks
    <3>3. CASE served # 0
      <4>1. served > 0
        BY <1>1, <3>3
      <4>2. metrics[served].gpu_chunks_after = Cardinality(DOMAIN tiers[GPU])
        BY <1>3, <4>1 DEF RowsInv
      <4> QED BY <1>3, <3>1, <3>3, <4>2 DEF Before, GpuChunks
    <3> QED BY <3>2, <3>3
  <2>5. Begun' = {}
    BY <1>3, <2>1 DEF Begun, TouchedChunks, Touched
  <2>6. Cardinality((Brings \cap Begun)') = 0 /\ Cardinality((MayBring \cap Begun)') = 0
    <3>1. Brings' \cap Begun' = {} /\ MayBring' \cap Begun' = {}
      BY <2>5
    <3> QED BY <3>1, FS_EmptySet
  <2> QED BY <2>2, <2>3, <2>4, <2>6
<1>4. CASE /\ Prefill /\ phase # "idle" /\ served > 0 /\ served' = served
           /\ metrics' = IF phase' = "idle" THEN Append(metrics, PrefillMetrics) ELSE metrics
  <2>1. phase # "failed"
    BY <1>4, ScheduleFrame
       DEF Prefill, Split, SplitStep, SplitShared, SplitPrivate, Materialise, BeginMaterialise,
           EndOfPhase, SkipOther, At, GpuLoad, ColdLoad, Recomputes, MakeRoom, EvictVictim,
           FinishStore, InsertPending, WriteThroughOne, WriteThroughDone, TypeInv, Bookkeeping
  <2>2. Balance - Before \in Cardinality(Brings \cap Begun) .. Cardinality(MayBring \cap Begun)
    BY <1>4, <2>1 DEF FlowInv
  <2>3. Before' = Before
    <3>1. Len(metrics) = served - 1 /\ \E S : metrics \in Seq(S)
      BY <1>4 DEF RowsInv
    <3>2. PICK S : metrics \in Seq(S)
      BY <3>1
    <3>3. PICK row : row = PrefillMetrics
      OBVIOUS
    <3>4. metrics' = Append(metrics, row) \/ metrics' = metrics
      BY <1>4, <3>3
    <3>5. ASSUME served - 1 # 0 PROVE metrics'[served - 1] = metrics[served - 1]
      <4>1. metrics \in Seq(S \cup {row}) /\ row \in S \cup {row}
        BY <3>2, SeqMonotonic
      <4>2. served - 1 \in 1 .. Len(metrics)
        BY <1>1, <1>4, <3>1, <3>5
      <4> QED BY <3>4, <4>1, <4>2, AppendProperties
    <3> QED BY <1>4, <3>5 DEF Before, GpuChunks
  <2>4. CASE Balance' = Balance /\ Begun' = Begun /\ chunks' = chunks /\ plan' = plan
    <3>1. Brings' = Brings /\ MayBring' = MayBring
      BY <2>4 DEF Brings, MayBring, ColdLoads, PrivateChunks, Recomputed, Loads
    <3> QED BY <2>2, <2>3, <2>4, <3>1
  <2>5. CASE Balance' = Balance /\ Begun' = {} /\ Begun = {}
    <3>1. /\ Brings' \cap Begun' = {} /\ MayBring' \cap Begun' = {}
          /\ Brings \cap Begun = {} /\ MayBring \cap Begun = {}
      BY <2>5
    <3> QED BY <2>2, <2>3, <2>5, <3>1
  <2>6. CASE Begins(cursor) /\ chunks' = chunks /\ plan' = plan
    <3>1. Brings' = Brings /\ MayBring' = MayBring /\ Begun' = Begun \cup {cursor}
          /\ cursor \notin Begun
      BY <2>6 DEF Brings, MayBring, ColdLoads, PrivateChunks, Recomputed, Loads, Begins
    <3>2. IsFiniteSet(Brings) /\ IsFiniteSet(MayBring)
      <4>1. PICK len \in Nat : DOMAIN chunks = 1 .. len
        BY ScheduleFacts
      <4>2. PICK len2 \in Nat : DOMAIN plan = 1 .. len2
        BY ScheduleFacts, LenProperties
      <4>3. IsFiniteSet(DOMAIN chunks) /\ IsFiniteSet(DOMAIN plan)
        BY <4>1, <4>2, IntervalSize
      <4>4. IsFiniteSet(DOMAIN chunks \cup DOMAIN plan)
        BY <4>3, FS_Union
      <4>5. Brings \subseteq DOMAIN chunks \cup DOMAIN plan
            /\ MayBring \subseteq DOMAIN chunks \cup DOMAIN plan
        BY DEF Brings, MayBring, ColdLoads, PrivateChunks, Recomputed
      <4> QED BY <4>4, <4>5, FS_Subset
    <3>3. PICK i, T, S, M, b, m :
            /\ i = cursor /\ T = Begun /\ S = Brings /\ M = MayBring
            /\ b = Cardinality(Brings \cap Begun) /\ m = Cardinality(MayBring \cap Begun)
      OBVIOUS
    <3>4. /\ b \in Nat /\ m \in Nat
          /\ Cardinality(S \cap (T \cup {i})) = IF i \in S THEN b + 1 ELSE b
          /\ Cardinality(M \cap (T \cup {i})) = IF i \in M THEN m + 1 ELSE m
      <4>1. IsFiniteSet(S) /\ IsFiniteSet(M) /\ i \notin T
        BY <3>1, <3>2, <3>3
      <4>2. b = Cardinality(S \cap T) /\ m = Cardinality(M \cap T)
        BY <3>3
      <4>3. /\ Cardinality(S \cap T) \in Nat
            /\ Cardinality(S \cap (T \cup {i}))
                 = IF i \in S THEN Cardinality(S \cap T) + 1 ELSE Cardinality(S \cap T)
        BY ONLY <4>1, CountStep
      <4>4. /\ Cardinality(M \cap T) \in Nat
            /\ Cardinality(M \cap (T \cup {i}))
                 = IF i \in M THEN Cardinality(M \cap T) + 1 ELSE Cardinality(M \cap T)
        BY ONLY <4>1, CountStep
      <4> QED BY <4>2, <4>3, <4>4
    <3>5. /\ Balance \in Nat /\ Balance - Before \in b .. m
          /\ \/ Balance' = Balance + 1 /\ i \in M
             \/ Balance' = Balance /\ i \notin S
      BY <2>2, <2>6, <3>3, BalanceTypes DEF Begins
    <3>6. (Brings \cap Begun)' = S \cap (T \cup {i}) /\ (MayBring \cap Begun)' = M \cap (T \cup {i})
      BY <3>1, <3>3
    <3>7. Before \in Nat
      <4>1. served - 1 = 0 \/ served - 1 \in 1 .. Len(metrics)
        BY <1>1, <1>4 DEF RowsInv
      <4> QED BY <4>1 DEF Before, GpuChunks, RowsInv
    <3>8. PICK lo, hi : lo = Cardinality(S \cap (T \cup {i})) /\ hi = Cardinality(M \cap (T \cup {i}))
      OBVIOUS
    <3>9. Balance' - Before \in lo .. hi
      <4>1. /\ lo = IF i \in S THEN b + 1 ELSE b
            /\ hi = IF i \in M THEN m + 1 ELSE m
        BY <3>4, <3>8
      <4>2. b \in Nat /\ m \in Nat
        BY <3>4
      <4> QED BY ONLY <3>5, <3>7, <4>1, <4>2
    <3>10. /\ Cardinality((Brings \cap Begun)') = lo /\ Cardinality((MayBring \cap Begun)') = hi
      BY <3>6, <3>8
    <3> QED BY <2>3, <3>9, <3>10
  <2> QED BY <1>4, <2>4, <2>5, <2>6, BalanceStep
<1> QED BY <1>2, <1>3, <1>4, RunSteps DEF AlignInv

LEMMA RunPrefills == RunSpec => Spec
<1>1. RunInit => Init
  BY DEF RunInit
<1>2. [RunNext]_runVars => [Next]_vars
  BY DEF RunNext, runVars
<1> QED BY <1>1, <1>2, PTL DEF RunSpec, Spec

LEMMA RunRows == RunSpec => []RowsInv
<1>1. RunInit => RowsInv
  <2> SUFFICES ASSUME RunInit PROVE RowsInv
    OBVIOUS
  <2>1. served = 0 /\ phase = "idle" /\ metrics = <<>>
    BY DEF RunInit, Init
  <2>2. metrics \in Seq({}) /\ Len(metrics) = 0
    BY <2>1
  <2> QED BY <2>1, <2>2 DEF RowsInv
<1>2. TypeInv /\ AlignInv /\ RetentionInv /\ RowsInv /\ [RunNext]_runVars => RowsInv'
  BY RowsStep DEF AlignInv
<1> QED BY <1>1, <1>2, RunPrefills, PrefillInvariant, SpecAligned, SpecRetention, PTL
        DEF RunSpec

LEMMA RunFlows ==
  RunSpec => [](TypeInv /\ SafetyInv /\ AlignInv /\ RetentionInv /\ RowsInv /\ FlowInv)
<1>1. RunInit => FlowInv /\ EmptyAtFirst
  BY DEF RunInit, Init, CacheInit, Tiers, FlowInv, EmptyAtFirst, EmptyDict
<1>3. TypeInv /\ AlignInv /\ EmptyAtFirst /\ [RunNext]_runVars => EmptyAtFirst'
  <2> SUFFICES ASSUME TypeInv, AlignInv, EmptyAtFirst, [RunNext]_runVars PROVE EmptyAtFirst'
    OBVIOUS
  <2>1. CASE UNCHANGED runVars
    BY <2>1 DEF runVars, vars, EmptyAtFirst
  <2>2. CASE ~UNCHANGED runVars
    <3>1. served' # 0
      BY <2>2, RunSteps DEF AlignInv
    <3> QED BY <3>1 DEF EmptyAtFirst
  <2> QED BY <2>1, <2>2
<1>4. TypeInv /\ SafetyInv /\ AlignInv /\ RetentionInv /\ RecencyInv /\ PrivateAbsent
        /\ EmptyAtFirst /\ RowsInv /\ FlowInv /\ [RunNext]_runVars => FlowInv'
  BY FlowStep
<1>5. Spec => []RecencyInv
  BY SpecRecency
<1> QED BY <1>1, <1>3, <1>4, <1>5, RunPrefills, RunRows, PrefillInvariant, SpecAligned,
           SpecRetention, SpecPrivateAbsent, PTL DEF RunSpec

\* The metrics of each prefill account for every chunk that came into the GPU
\* or left it, whatever the policy and the scheduler: removals that are no
\* evictions included, none is lost and none is counted twice.
THEOREM ChunkFlowIsBalanced == RunSpec => []ChunkFlowBalances
<1>1. TypeInv /\ SafetyInv /\ AlignInv /\ RetentionInv /\ RowsInv /\ FlowInv
        => ChunkFlowBalances
  <2> SUFFICES ASSUME TypeInv, SafetyInv, AlignInv, RetentionInv, RowsInv, FlowInv,
                      phase = "idle", served > 0
               PROVE  metrics[served].gpu_chunks_after + metrics[served].eviction_count - Before
                        \in Cardinality(ColdLoads) + Cardinality(PrivateChunks)
                              .. Cardinality(ColdLoads) + metrics[served].recompute_count
    BY DEF ChunkFlowBalances, Before
  <2>1. /\ metrics[served].gpu_chunks_after = Cardinality(DOMAIN tiers[GPU])
        /\ metrics[served].eviction_count = evictionCount
        /\ metrics[served].recompute_count = Cardinality(Recomputed)
    BY DEF RowsInv, count, Recomputed
  <2>2. /\ Brings \in SUBSET MayBring /\ MayBring \in SUBSET DOMAIN chunks
        /\ DOMAIN plan = DOMAIN chunks
        /\ PrivateChunks \in SUBSET Recomputed /\ Recomputed \cap ColdLoads = {}
    BY BringsFacts
  <2>3. Idle
    BY DEF TypeInv, Bookkeeping
  <2>4. DOMAIN chunks \subseteq Begun
    <3> SUFFICES ASSUME NEW i \in DOMAIN chunks PROVE Touched(i)
      BY DEF Begun, TouchedChunks
    <3>1. Scheduled(i) /\ plan[i] \in Decision
      BY <2>2, ScheduleFacts DEF SafetyInv, PlanInv
    <3> QED BY <3>1 DEF Scheduled, Decision, Load, Recompute, Touched, Loads
  <2>5. Brings \cap Begun = Brings /\ MayBring \cap Begun = MayBring
    BY <2>2, <2>4
  <2>6. Balance = Cardinality(DOMAIN tiers[GPU]) + evictionCount
    BY <2>3, BalanceTypes DEF Balance
  <2>7. Balance - Before \in Cardinality(Brings) .. Cardinality(MayBring)
    BY <2>5 DEF FlowInv
  <2>8. IsFiniteSet(ColdLoads) /\ IsFiniteSet(PrivateChunks) /\ IsFiniteSet(Recomputed)
    <3>1. PICK len \in Nat : DOMAIN chunks = 1 .. len
      BY ScheduleFacts
    <3>2. IsFiniteSet(DOMAIN chunks)
      BY <3>1, IntervalSize
    <3>3. /\ ColdLoads \in SUBSET DOMAIN chunks /\ PrivateChunks \in SUBSET DOMAIN chunks
          /\ Recomputed \in SUBSET DOMAIN chunks
      BY <2>2 DEF ColdLoads, PrivateChunks, Recomputed
    <3> QED BY <3>2, <3>3, FS_Subset
  <2>9. /\ Cardinality(Brings) = Cardinality(ColdLoads) + Cardinality(PrivateChunks)
        /\ Cardinality(MayBring) = Cardinality(ColdLoads) + Cardinality(Recomputed)
    <3>1. ColdLoads \cap PrivateChunks = {} /\ ColdLoads \cap Recomputed = {}
      BY <2>2
    <3>2. \A S, T : IsFiniteSet(S) /\ IsFiniteSet(T) /\ S \cap T = {} =>
                    Cardinality(S \cup T) = Cardinality(S) + Cardinality(T)
      <4> SUFFICES ASSUME NEW S, NEW T, IsFiniteSet(S), IsFiniteSet(T), S \cap T = {}
                   PROVE  Cardinality(S \cup T) = Cardinality(S) + Cardinality(T)
        OBVIOUS
      <4>1. Cardinality(S \cup T) = Cardinality(S) + Cardinality(T) - Cardinality(S \cap T)
        BY FS_Union
      <4>2. Cardinality(S \cap T) = 0 /\ Cardinality(S) \in Nat /\ Cardinality(T) \in Nat
        BY FS_EmptySet, FS_CardinalityType
      <4> QED BY <4>1, <4>2
    <3> QED BY <2>8, <3>1, <3>2 DEF Brings, MayBring
  <2>10. metrics[served].gpu_chunks_after + metrics[served].eviction_count = Balance
    BY <2>1, <2>6
  <2>11. /\ Cardinality(ColdLoads) + Cardinality(PrivateChunks) = Cardinality(Brings)
         /\ Cardinality(ColdLoads) + metrics[served].recompute_count = Cardinality(MayBring)
    BY <2>1, <2>9
  <2>12. Balance - Before \in Cardinality(ColdLoads) + Cardinality(PrivateChunks)
                               .. Cardinality(ColdLoads) + metrics[served].recompute_count
    BY <2>7, <2>11
  <2>13. Before \in Nat
    <3>1. served - 1 = 0 \/ served - 1 \in 1 .. Len(metrics)
      BY DEF RowsInv, TypeInv, RequestInv
    <3> QED BY <3>1 DEF Before, GpuChunks, RowsInv
  <2>14. PICK g, e, b, lo, hi :
           /\ g = metrics[served].gpu_chunks_after /\ e = metrics[served].eviction_count
           /\ b = Before
           /\ lo = Cardinality(ColdLoads) + Cardinality(PrivateChunks)
           /\ hi = Cardinality(ColdLoads) + metrics[served].recompute_count
    OBVIOUS
  <2>15. g \in Nat /\ e \in Nat /\ b \in Nat /\ Balance = g + e
    <3>1. metrics[served].gpu_chunks_after \in Nat /\ metrics[served].eviction_count \in Nat
      BY <2>1, BalanceTypes
    <3> QED BY <2>10, <2>13, <2>14, <3>1
  <2>16. (g + e) - b \in lo .. hi
    BY <2>12, <2>14, <2>15
  <2>17. g + e - b = (g + e) - b
    BY <2>15
  <2>18. g + e - b \in lo .. hi
    BY <2>16, <2>17
  <2> QED BY <2>14, <2>18
<1> QED BY <1>1, RunFlows, PTL

-----------------------------------------------------------------------------
(* The loops that cut a prompt against the list of chunks they return.     *)

\* The chunks of the request that is being served.
WholePrompt == chunk_request_with_prefix_split(request)

\* The first token after the first k chunks of it.
CutAfter(k) ==
  IF k <= Chunks(request.shared) THEN MinOf(k * ChunkSize, request.shared)
  ELSE MinOf(request.shared + (k - Chunks(request.shared)) * ChunkSize, request.prompt)

\* The loops have produced the first chunks of the list, and all of it when
\* they are over.
SplitInv ==
  served > 0 =>
    /\ Len(chunks) <= Len(WholePrompt)
    /\ \A i \in DOMAIN chunks : chunks[i] = WholePrompt[i]
    /\ pos = CutAfter(Len(chunks))
    /\ phase # "split" => Len(chunks) = Len(WholePrompt)

\* The request is the one the list has at this place, and it leaves a suffix
\* to be computed.
ListInv ==
  /\ requests \in Streams
  /\ served \in 0 .. MaxRequests
  /\ served > 0 => request = requests[served]

LEMMA RequestFacts ==
  ASSUME NEW i \in Nat, NEW r \in RequestsOf(i)
  PROVE  /\ r.id = i /\ r.doc \in Documents
         /\ r.shared \in Nat /\ r.prompt \in Nat /\ r.shared < r.prompt
<1>1. /\ r.id = i /\ r.doc \in DocumentsFor(i)
      /\ r.shared \in 0 .. SharedMax /\ r.prompt \in 0 .. SharedMax + PrivateMax
      /\ r.prompt - r.shared \in PrivateMin .. PrivateMax
  BY DEF RequestsOf
<1>2. r.doc \in Documents
  <2>1. i % NumDocuments \in Documents
    BY ModFacts DEF Documents, ChunkingAssumption
  <2> QED BY <1>1, <2>1 DEF DocumentsFor
<1> QED BY <1>1, <1>2 DEF WorkloadAssumption

LEMMA PromptShape ==
  ASSUME NEW r, r.shared \in Nat, r.prompt \in Nat, r.shared < r.prompt
  PROVE  /\ Chunks(r.shared) \in Nat /\ Chunks(r.prompt - r.shared) \in Nat \ {0}
         /\ \A k \in Nat : k * ChunkSize < r.shared <=> k < Chunks(r.shared)
         /\ \A k \in Nat :
              k * ChunkSize < r.prompt - r.shared <=> k < Chunks(r.prompt - r.shared)
         /\ Len(chunk_request_with_prefix_split(r))
              = Chunks(r.shared) + Chunks(r.prompt - r.shared)
         /\ DOMAIN chunk_request_with_prefix_split(r)
              = 1 .. Chunks(r.shared) + Chunks(r.prompt - r.shared)
<1>1. r.prompt - r.shared \in Nat \ {0} /\ ChunkSize \in Nat \ {0}
  BY DEF ChunkingAssumption
<1>2. /\ Chunks(r.shared) \in Nat
      /\ \A k \in Nat : k * ChunkSize < r.shared <=> k < Chunks(r.shared)
  BY <1>1, CeilingFacts DEF Chunks
<1>3. /\ Chunks(r.prompt - r.shared) \in Nat
      /\ \A k \in Nat :
           k * ChunkSize < r.prompt - r.shared <=> k < Chunks(r.prompt - r.shared)
  <2> DEFINE rest == r.prompt - r.shared
  <2>1. rest \in Nat
    BY <1>1
  <2> HIDE DEF rest
  <2>2. /\ Chunks(rest) \in Nat
        /\ \A k \in Nat : k * ChunkSize < rest <=> k < Chunks(rest)
    BY <1>1, <2>1, CeilingFacts DEF Chunks
  <2> QED BY <2>2 DEF rest
<1>4. Chunks(r.prompt - r.shared) # 0
  <2>1. 0 * ChunkSize < r.prompt - r.shared
    BY <1>1
  <2> QED BY <1>3, <2>1
<1> DEFINE len == Chunks(r.shared) + Chunks(r.prompt - r.shared)
<1>5. len \in Nat
  <2>1. \A a, b \in Nat : a + b \in Nat
    OBVIOUS
  <2> QED BY <1>2, <1>3, <2>1
<1>6. DOMAIN chunk_request_with_prefix_split(r) = 1 .. len
  BY DEF chunk_request_with_prefix_split
<1> HIDE DEF len
<1>7. Len(chunk_request_with_prefix_split(r)) = len
  <2>1. chunk_request_with_prefix_split(r)
          = [i \in 1 .. len |-> chunk_request_with_prefix_split(r)[i]]
    BY <1>6 DEF chunk_request_with_prefix_split, len
  <2> QED BY <1>5, <1>6, <2>1
<1> QED BY <1>2, <1>3, <1>4, <1>6, <1>7 DEF len

\* The chunks of a prompt.
LEMMA PromptChunk ==
  ASSUME NEW r, r.id \in Nat, r.doc \in Documents, r.shared \in Nat, r.prompt \in Nat,
         r.shared < r.prompt,
         NEW i \in DOMAIN chunk_request_with_prefix_split(r)
  PROVE  LET c == chunk_request_with_prefix_split(r)[i] IN
         /\ i \in Nat \ {0} /\ c \in Chunk /\ c.idx = i - 1
         /\ \/ c.cid = r.doc /\ c.start = c.idx * ChunkSize
            \/ c.cid = NumDocuments + r.id
<1> DEFINE n == Chunks(r.shared)
           m == Chunks(r.prompt - r.shared)
           c == chunk_request_with_prefix_split(r)[i]
<1>1. /\ n \in Nat /\ m \in Nat /\ i \in 1 .. n + m
      /\ \A k \in Nat : k * ChunkSize < r.shared <=> k < n
      /\ \A k \in Nat : k * ChunkSize < r.prompt - r.shared <=> k < m
  BY PromptShape
<1>2. NumDocuments \in Nat /\ ChunkSize \in Nat \ {0} /\ r.doc \in Nat
  BY DEF ChunkingAssumption, Documents
<1>3. CASE i <= n
  <2>1. c = [cid |-> r.doc, idx |-> i - 1, start |-> (i - 1) * ChunkSize,
             end |-> MinOf(i * ChunkSize, r.shared)]
    BY <1>1, <1>3 DEF chunk_request_with_prefix_split
  <2> HIDE DEF n, m, c
  <2>2. i - 1 \in Nat /\ (i - 1) * ChunkSize \in Nat /\ i * ChunkSize \in Nat
        /\ i * ChunkSize = (i - 1) * ChunkSize + ChunkSize /\ i \in Nat \ {0}
    <3>1. i - 1 \in Nat /\ i = (i - 1) + 1
      BY <1>1
    <3> QED BY <1>1, <1>2, <3>1, ProductOrder
  <2>3. (i - 1) * ChunkSize < r.shared
    <3>1. i - 1 < n
      BY <1>1, <1>3
    <3> QED BY <1>1, <2>2, <3>1
  <2>4. MinOf(i * ChunkSize, r.shared) \in Nat
        /\ (i - 1) * ChunkSize < MinOf(i * ChunkSize, r.shared)
    BY <1>2, <2>2, <2>3 DEF MinOf
  <2>5. c \in Chunk /\ c.idx = i - 1 /\ c.cid = r.doc /\ c.start = c.idx * ChunkSize
    BY <1>2, <2>1, <2>2, <2>4 DEF Chunk
  <2> QED BY <2>2, <2>5 DEF c
<1>4. CASE i > n
  <2>1. c = [cid |-> NumDocuments + r.id, idx |-> i - 1,
             start |-> r.shared + (i - 1 - n) * ChunkSize,
             end |-> MinOf(r.shared + (i - n) * ChunkSize, r.prompt)]
    BY <1>1, <1>4 DEF chunk_request_with_prefix_split
  <2> HIDE DEF n, m, c
  <2>2. PICK k \in Nat : k = i - 1 - n /\ k < m /\ i - n = k + 1
    BY <1>1, <1>4
  <2>3. k * ChunkSize \in Nat /\ (k + 1) * ChunkSize = k * ChunkSize + ChunkSize
    BY <1>2, ProductOrder
  <2>4. k * ChunkSize < r.prompt - r.shared
    BY <1>1, <2>2
  <2>5. MinOf(r.shared + (k + 1) * ChunkSize, r.prompt) \in Nat
        /\ r.shared + k * ChunkSize < MinOf(r.shared + (k + 1) * ChunkSize, r.prompt)
    <3> DEFINE a == k * ChunkSize
               b == (k + 1) * ChunkSize
    <3>1. a \in Nat /\ b = a + ChunkSize /\ a < r.prompt - r.shared
      BY <2>3, <2>4
    <3> HIDE DEF a, b
    <3>2. PICK x, y, g : x = r.shared /\ y = r.prompt /\ g = ChunkSize
      OBVIOUS
    <3>3. x \in Nat /\ y \in Nat /\ g \in Nat \ {0} /\ b = a + g /\ a < y - x
      BY <1>2, <3>1, <3>2
    <3>4. MinOf(x + b, y) \in Nat /\ x + a < MinOf(x + b, y)
      BY ONLY <3>1, <3>3 DEF MinOf
    <3> QED BY <3>2, <3>4 DEF a, b
  <2>6. c = [cid |-> NumDocuments + r.id, idx |-> i - 1,
             start |-> r.shared + k * ChunkSize,
             end |-> MinOf(r.shared + (k + 1) * ChunkSize, r.prompt)]
    BY <2>1, <2>2
  <2>7. i - 1 \in Nat /\ i \in Nat \ {0} /\ NumDocuments + r.id \in Nat
        /\ r.shared + k * ChunkSize \in Nat
    <3>1. \A a, b \in Nat : a + b \in Nat
      OBVIOUS
    <3>2. i - 1 \in Nat /\ i \in Nat \ {0}
      BY <1>1
    <3> QED BY <1>2, <2>3, <3>1, <3>2
  <2>8. c \in Chunk /\ c.idx = i - 1 /\ c.cid = NumDocuments + r.id
    BY <2>5, <2>6, <2>7 DEF Chunk
  <2> QED BY <2>7, <2>8 DEF c
<1> QED BY <1>1, <1>3, <1>4

LEMMA ScenarioSteps ==
  ASSUME [ScenarioNext]_scenarioVars
  PROVE  /\ requests' = requests
         /\ [Next]_vars
         /\ served' # served => request' = requests[served']
  BY DEF ScenarioNext, RunNext, scenarioVars, runVars, vars

\* A scenario is a run of the prefills with its metrics.
LEMMA ScenarioRuns == ScenarioSpec => Spec /\ RunSpec
<1>1. ScenarioInit => RunInit
  BY DEF ScenarioInit
<1>2. [ScenarioNext]_scenarioVars => [RunNext]_runVars
  BY DEF ScenarioNext, scenarioVars
<1> QED BY <1>1, <1>2, RunPrefills, PTL DEF ScenarioSpec, RunSpec

LEMMA StreamFacts ==
  ASSUME requests \in Streams, NEW n \in 1 .. MaxRequests
  PROVE  /\ requests[n].id = n - 1 /\ requests[n].id \in Nat
         /\ requests[n].doc \in Documents
         /\ requests[n].shared \in Nat /\ requests[n].prompt \in Nat
         /\ requests[n].shared < requests[n].prompt
<1>1. n - 1 \in Nat /\ requests[n] \in RequestsOf(n - 1)
  <2>1. n - 1 \in Nat
    BY DEF WorkloadAssumption
  <2>2. n \in DOMAIN requests
    BY DEF Streams
  <2> QED BY <2>1, <2>2 DEF Streams
<1> QED BY <1>1, RequestFacts

LEMMA ListStep ==
  ASSUME TypeInv, ListInv, [ScenarioNext]_scenarioVars
  PROVE  ListInv'
<1>1. /\ requests' = requests /\ [Next]_vars
      /\ served' # served => request' = requests[served']
  BY ScenarioSteps
<1>2. CASE Arrive
  <2>1. served < MaxRequests /\ served' = served + 1
    BY <1>2 DEF Arrive
  <2>2. MaxRequests \in Nat
    BY DEF WorkloadAssumption
  <2>3. served' \in 0 .. MaxRequests /\ served' # served
    BY <2>1, <2>2 DEF ListInv
  <2> QED BY <1>1, <2>3 DEF ListInv
<1>3. CASE Prefill
  <2>1. served' = served /\ request' = request
    BY <1>3, PrefillFrame
  <2> QED BY <1>1, <2>1 DEF ListInv
<1>4. CASE UNCHANGED vars
  BY <1>1, <1>4 DEF ListInv, vars, chunkingVars
<1> QED BY <1>1, <1>2, <1>3, <1>4 DEF Next

LEMMA ServedRequest ==
  ASSUME ListInv, served > 0
  PROVE  /\ served \in 1 .. MaxRequests /\ WholePrompt = Prompt(served)
         /\ request.id = served - 1 /\ request.id \in Nat /\ request.doc \in Documents
         /\ request.shared \in Nat /\ request.prompt \in Nat
         /\ request.shared < request.prompt
<1>1. served \in 1 .. MaxRequests
  BY DEF ListInv, WorkloadAssumption
<1>2. request = requests[served]
  BY DEF ListInv
<1> QED BY <1>1, <1>2, StreamFacts DEF ListInv, WholePrompt, Prompt

\* One more chunk of the shared prefix is the next one of the list,
LEMMA SharedCut ==
  ASSUME TypeInv, ListInv, SplitInv, served > 0, SplitShared
  PROVE  SplitInv'
<1>1. /\ request.shared \in Nat /\ request.prompt \in Nat /\ request.shared < request.prompt
      /\ request.doc \in Nat /\ ChunkSize \in Nat \ {0}
  BY ServedRequest DEF Documents, ChunkingAssumption
<1>2. PICK n, m, k : n = Chunks(request.shared) /\ m = Chunks(request.prompt - request.shared)
                     /\ k = Len(chunks)
  OBVIOUS
<1>3. /\ n \in Nat /\ m \in Nat /\ Len(WholePrompt) = n + m
      /\ \A j \in Nat : j * ChunkSize < request.shared <=> j < n
  BY <1>1, <1>2, PromptShape DEF WholePrompt
<1>4. k \in Nat /\ chunks \in Seq(Chunk) /\ DOMAIN chunks = 1 .. k
  BY <1>2, ScheduleFacts
<1>5. /\ pos < request.shared /\ pos = CutAfter(k) /\ \A i \in 1 .. k : chunks[i] = WholePrompt[i]
      /\ chunks' = Append(chunks, NextChunk(request.doc, request.shared))
      /\ pos' = MinOf(pos + ChunkSize, request.shared)
      /\ phase = "split" /\ phase' = phase /\ request' = request
  BY <1>2, <1>4 DEF SplitShared, AppendChunk, NextChunk, SplitInv
<1>6. k * ChunkSize \in Nat /\ (k + 1) * ChunkSize = k * ChunkSize + ChunkSize
  BY <1>4, ProductOrder
<1>7. pos = k * ChunkSize /\ k < n
  <2>1. ASSUME k > n PROVE FALSE
    <3>1. PICK j \in Nat : j = k - n
      BY <1>3, <1>4, <2>1
    <3>2. pos = MinOf(request.shared + j * ChunkSize, request.prompt)
      BY <1>2, <1>3, <1>4, <1>5, <2>1, <3>1 DEF CutAfter
    <3>3. j * ChunkSize \in Nat
      BY <3>1, ProductOrder
    <3> QED BY <1>1, <1>5, <3>2, <3>3 DEF MinOf
  <2>2. k <= n
    BY <1>3, <1>4, <2>1
  <2>3. pos = MinOf(k * ChunkSize, request.shared)
    BY <1>2, <1>5, <2>2 DEF CutAfter
  <2>4. pos = k * ChunkSize /\ k * ChunkSize < request.shared
    BY <1>1, <1>5, <1>6, <2>3 DEF MinOf
  <2> QED BY <1>3, <1>4, <2>4
<1>8. pos' = MinOf((k + 1) * ChunkSize, request.shared)
  BY <1>5, <1>6, <1>7
<1>9. /\ k + 1 \in 1 .. n + m /\ k + 1 <= n /\ (k + 1) - 1 = k
      /\ k + 1 <= Len(WholePrompt)
  <2>1. \A a, b, c \in Nat : c < a => /\ c + 1 \in 1 .. a + b /\ c + 1 <= a
                                     /\ (c + 1) - 1 = c /\ c + 1 <= a + b
    OBVIOUS
  <2> QED BY ONLY <1>3, <1>4, <1>7, <2>1
<1>10. NextChunk(request.doc, request.shared) = WholePrompt[k + 1]
  <2>1. WholePrompt[k + 1]
          = [cid |-> request.doc, idx |-> k, start |-> k * ChunkSize,
             end |-> MinOf((k + 1) * ChunkSize, request.shared)]
    BY <1>2, <1>9 DEF WholePrompt, chunk_request_with_prefix_split
  <2> QED BY <1>2, <1>6, <1>7, <2>1 DEF NextChunk
<1>11. /\ Len(chunks') = k + 1 /\ DOMAIN chunks' = 1 .. k + 1
       /\ \A i \in 1 .. k + 1 : chunks'[i] = WholePrompt[i]
  <2>1. NextChunk(request.doc, request.shared) \in Chunk
    BY <1>1, <1>5, NextChunkFacts DEF TypeInv
  <2>2. /\ Len(chunks') = k + 1 /\ DOMAIN chunks' = 1 .. k + 1
        /\ chunks'[k + 1] = NextChunk(request.doc, request.shared)
        /\ \A i \in 1 .. k : chunks'[i] = chunks[i]
    BY <1>2, <1>4, <1>5, <2>1
  <2>3. \A i \in 1 .. k + 1 : i \in 1 .. k \/ i = k + 1
    BY <1>4
  <2> QED BY <1>5, <1>10, <2>2, <2>3
<1>12. WholePrompt' = WholePrompt
       /\ CutAfter(k + 1)' = MinOf((k + 1) * ChunkSize, request.shared)
  BY <1>2, <1>5, <1>9 DEF WholePrompt, CutAfter
<1> QED BY <1>5, <1>8, <1>9, <1>11, <1>12 DEF SplitInv

\* one more chunk of the private suffix too.
LEMMA PrivateCut ==
  ASSUME TypeInv, ListInv, SplitInv, served > 0, SplitPrivate
  PROVE  SplitInv'
<1>1. /\ request.shared \in Nat /\ request.prompt \in Nat /\ request.shared < request.prompt
      /\ request.id \in Nat /\ NumDocuments \in Nat /\ ChunkSize \in Nat \ {0}
  BY ServedRequest DEF ChunkingAssumption
<1>2. PICK n, m, k : n = Chunks(request.shared) /\ m = Chunks(request.prompt - request.shared)
                     /\ k = Len(chunks)
  OBVIOUS
<1>3. /\ n \in Nat /\ m \in Nat /\ Len(WholePrompt) = n + m
      /\ \A j \in Nat : j * ChunkSize < request.shared <=> j < n
      /\ \A j \in Nat : j * ChunkSize < request.prompt - request.shared <=> j < m
  BY <1>1, <1>2, PromptShape DEF WholePrompt
<1>4. k \in Nat /\ chunks \in Seq(Chunk) /\ DOMAIN chunks = 1 .. k
  BY <1>2, ScheduleFacts
<1>5. /\ pos >= request.shared /\ pos < request.prompt
      /\ pos = CutAfter(k) /\ \A i \in 1 .. k : chunks[i] = WholePrompt[i]
      /\ chunks' = Append(chunks, NextChunk(private_cache_id(request), request.prompt))
      /\ pos' = MinOf(pos + ChunkSize, request.prompt)
      /\ phase = "split" /\ phase' = phase /\ request' = request
  BY <1>2, <1>4 DEF SplitPrivate, AppendChunk, NextChunk, SplitInv
<1>6. PICK j \in Nat : k = n + j /\ pos = request.shared + j * ChunkSize
  <2>1. CASE k <= n
    <3>1. pos = MinOf(k * ChunkSize, request.shared)
      BY <1>2, <1>5, <2>1 DEF CutAfter
    <3>2. k * ChunkSize \in Nat
      BY <1>4, ProductOrder
    <3>3. pos = request.shared /\ ~(k * ChunkSize < request.shared)
      BY <1>1, <1>5, <3>1, <3>2 DEF MinOf
    <3>4. k = n + 0
      BY <1>3, <1>4, <2>1, <3>3
    <3>5. pos = request.shared + 0 * ChunkSize
      BY <1>1, <3>3
    <3> QED BY <3>4, <3>5
  <2>2. CASE k > n
    <3>1. PICK j \in Nat : j = k - n /\ k = n + j
      BY <1>3, <1>4, <2>2
    <3>2. pos = MinOf(request.shared + j * ChunkSize, request.prompt)
      BY <1>2, <1>3, <1>4, <1>5, <2>2, <3>1 DEF CutAfter
    <3>3. j * ChunkSize \in Nat
      BY <3>1, ProductOrder
    <3>4. pos = request.shared + j * ChunkSize
      BY <1>1, <1>5, <3>2, <3>3 DEF MinOf
    <3> QED BY <3>1, <3>4
  <2> QED BY <1>3, <1>4, <2>1, <2>2
<1>7. j * ChunkSize \in Nat /\ (j + 1) * ChunkSize = j * ChunkSize + ChunkSize
  BY <1>6, ProductOrder
<1>8. j < m
  <2>1. j * ChunkSize < request.prompt - request.shared
    BY <1>1, <1>5, <1>6, <1>7
  <2> QED BY <1>3, <1>6, <2>1
<1>9. pos' = MinOf(request.shared + (j + 1) * ChunkSize, request.prompt)
  BY <1>1, <1>5, <1>6, <1>7
<1>10. /\ k + 1 \in 1 .. n + m /\ ~(k + 1 <= n) /\ (k + 1) - 1 = k
       /\ (k + 1) - 1 - n = j /\ (k + 1) - n = j + 1
       /\ k + 1 <= Len(WholePrompt)
  BY <1>3, <1>4, <1>6, <1>8
<1>11. NextChunk(private_cache_id(request), request.prompt) = WholePrompt[k + 1]
  <2>1. WholePrompt[k + 1]
          = [cid |-> NumDocuments + request.id, idx |-> k,
             start |-> request.shared + j * ChunkSize,
             end |-> MinOf(request.shared + (j + 1) * ChunkSize, request.prompt)]
    BY <1>2, <1>10 DEF WholePrompt, chunk_request_with_prefix_split
  <2> QED BY <1>2, <1>5, <1>6, <1>9, <2>1 DEF NextChunk, SplitPrivate, AppendChunk,
          private_cache_id
<1>12. /\ Len(chunks') = k + 1 /\ DOMAIN chunks' = 1 .. k + 1
       /\ \A i \in 1 .. k + 1 : chunks'[i] = WholePrompt[i]
  <2>1. NextChunk(private_cache_id(request), request.prompt) \in Chunk
    <3>1. private_cache_id(request) \in Nat
      BY <1>1 DEF private_cache_id
    <3> QED BY <1>1, <1>5, <3>1, NextChunkFacts DEF TypeInv
  <2>2. /\ Len(chunks') = k + 1 /\ DOMAIN chunks' = 1 .. k + 1
        /\ chunks'[k + 1] = NextChunk(private_cache_id(request), request.prompt)
        /\ \A i \in 1 .. k : chunks'[i] = chunks[i]
    BY <1>2, <1>4, <1>5, <2>1
  <2>3. \A i \in 1 .. k + 1 : i \in 1 .. k \/ i = k + 1
    BY <1>4
  <2> QED BY <1>5, <1>11, <2>2, <2>3
<1>13. WholePrompt' = WholePrompt
       /\ CutAfter(k + 1)' = MinOf(request.shared + (j + 1) * ChunkSize, request.prompt)
  BY <1>2, <1>5, <1>10 DEF WholePrompt, CutAfter
<1> QED BY <1>5, <1>9, <1>10, <1>12, <1>13 DEF SplitInv

\* When both loops are over the list is complete.
LEMMA CutComplete ==
  ASSUME TypeInv, ListInv, SplitInv, served > 0, pos >= request.prompt
  PROVE  Len(chunks) = Len(WholePrompt)
<1>1. /\ request.shared \in Nat /\ request.prompt \in Nat /\ request.shared < request.prompt
      /\ ChunkSize \in Nat \ {0}
  BY ServedRequest DEF ChunkingAssumption
<1>2. PICK n, m, k : n = Chunks(request.shared) /\ m = Chunks(request.prompt - request.shared)
                     /\ k = Len(chunks)
  OBVIOUS
<1>3. /\ n \in Nat /\ m \in Nat /\ Len(WholePrompt) = n + m
      /\ \A j \in Nat : j * ChunkSize < request.prompt - request.shared <=> j < m
  BY <1>1, <1>2, PromptShape DEF WholePrompt
<1>4. k \in Nat /\ k <= n + m /\ pos = CutAfter(k)
  BY <1>2, <1>3, ScheduleFacts DEF SplitInv
<1>5. k > n
  <2>1. ASSUME k <= n PROVE FALSE
    <3>1. pos = MinOf(k * ChunkSize, request.shared) /\ k * ChunkSize \in Nat
      BY <1>2, <1>4, <2>1, ProductOrder DEF CutAfter
    <3> QED BY <1>1, <3>1 DEF MinOf
  <2> QED BY <1>3, <1>4, <2>1
<1>6. PICK j \in Nat : j = k - n /\ k = n + j
  BY <1>3, <1>4, <1>5
<1>7. pos = MinOf(request.shared + j * ChunkSize, request.prompt) /\ j * ChunkSize \in Nat
  <2>1. ~(k <= n) /\ k - n = j
    BY <1>3, <1>4, <1>5, <1>6
  <2>2. pos = MinOf(request.shared + j * ChunkSize, request.prompt)
    BY <1>2, <1>4, <2>1 DEF CutAfter
  <2> QED BY <1>6, <2>2, ProductOrder
<1>8. ~(j * ChunkSize < request.prompt - request.shared)
  BY <1>1, <1>7 DEF MinOf
<1>9. ~(j < m)
  BY <1>3, <1>6, <1>8
<1> QED BY <1>2, <1>3, <1>4, <1>6, <1>9

LEMMA PromptLength ==
  ListInv /\ served > 0 =>
    /\ Chunks(request.shared) \in Nat /\ Len(WholePrompt) \in Nat
    /\ request.shared \in Nat
<1> SUFFICES ASSUME ListInv, served > 0
             PROVE  /\ Chunks(request.shared) \in Nat /\ Len(WholePrompt) \in Nat
                    /\ request.shared \in Nat
  OBVIOUS
<1>1. \A a, b \in Nat : a + b \in Nat
  OBVIOUS
<1> QED BY <1>1, ServedRequest, PromptShape DEF WholePrompt

LEMMA SplitInvStep ==
  ASSUME TypeInv, RequestInv, ListInv, SplitInv, [ScenarioNext]_scenarioVars, ListInv'
  PROVE  SplitInv'
<1>1. [Next]_vars
  BY ScenarioSteps
<1>2. CASE Arrive
  <2>1. /\ chunks' = <<>> /\ pos' = 0 /\ phase' = "split"
    BY <1>2 DEF Arrive
  <2>2. ASSUME served' > 0
        PROVE  (/\ Chunks(request.shared) \in Nat /\ Len(WholePrompt) \in Nat
                /\ request.shared \in Nat)'
    <3>1. (ListInv /\ served > 0)'
      BY <2>2
    <3> QED BY <3>1, PromptLength, PTL
  <2>3. 0 * ChunkSize = 0
    BY DEF ChunkingAssumption
  <2> QED BY <2>1, <2>2, <2>3 DEF SplitInv, CutAfter, MinOf
<1>3. CASE SplitShared \/ SplitPrivate
  <2>1. phase # "idle"
    BY <1>3 DEF SplitShared, SplitPrivate
  <2>2. served > 0
    BY <2>1 DEF RequestInv, TypeInv, ControlTypeOK
  <2> QED BY <1>3, <2>2, SharedCut, PrivateCut
<1>4. CASE Schedule \/ Materialise \/ UNCHANGED vars
  <2>1. /\ UNCHANGED <<served, request, pos, chunks>>
        /\ phase # "split" \/ phase' = "split" \/ pos >= request.prompt
    <3>1. CASE Schedule
      <4>1. UNCHANGED <<request, pos, chunks>> /\ served' = served
        BY <3>1 DEF Schedule, StartScan, SplitDone
      <4>2. phase = "split" => pos >= request.prompt
        BY <3>1 DEF Schedule, StartScan, SplitDone, CakeStep, Scanning, SkipUncached,
                    ClaimLoad, ClaimCompute, FrontsCross, SweepChunk, SweepDone
      <4> QED BY <4>1, <4>2
    <3>2. CASE Materialise
      BY <3>2, PrefillFrame DEF Prefill
    <3>3. CASE UNCHANGED vars
      BY <3>3 DEF vars, chunkingVars
    <3> QED BY <1>4, <3>1, <3>2, <3>3
  <2>2. CutAfter(Len(chunks))' = CutAfter(Len(chunks)) /\ WholePrompt' = WholePrompt
    BY <2>1 DEF CutAfter, WholePrompt
  <2>3. SUFFICES ASSUME served > 0, phase' # "split"
                 PROVE  Len(chunks) = Len(WholePrompt)
    BY <2>1, <2>2 DEF SplitInv
  <2> QED BY <2>1, <2>3, CutComplete DEF SplitInv
<1> QED BY <1>1, <1>2, <1>3, <1>4 DEF Next, Prefill, Split, SplitStep

LEMMA InitScenario ==
  ScenarioInit => ListInv /\ SplitInv /\ metrics = <<>>
BY DEF ScenarioInit, RunInit, Init, ListInv, SplitInv, WorkloadAssumption

\* What is known of every prefill.
PrefillFacts ==
  TypeInv /\ SafetyInv /\ AlignInv /\ RetentionInv /\ RecencyInv

PromptInv == ListInv /\ SplitInv

LEMMA ScenarioFacts == ScenarioSpec => [](PrefillFacts /\ PromptInv)
<1>1. Spec => []PrefillFacts
  BY PrefillInvariant, SpecAligned, SpecRetention, SpecRecency, PTL DEF PrefillFacts
<1>2. ScenarioInit => PromptInv
  BY InitScenario DEF PromptInv
<1>3. PrefillFacts /\ PromptInv /\ [ScenarioNext]_scenarioVars => PromptInv'
  <2> SUFFICES ASSUME PrefillFacts, PromptInv, [ScenarioNext]_scenarioVars
               PROVE  PromptInv'
    OBVIOUS
  <2>1. ListInv'
    BY ListStep DEF PrefillFacts, PromptInv
  <2> QED BY <2>1, SplitInvStep DEF PrefillFacts, PromptInv, AlignInv
<1> QED BY <1>1, <1>2, <1>3, ScenarioRuns, PTL DEF ScenarioSpec

-----------------------------------------------------------------------------
(* Where everything in the tiers comes from.                               *)

\* The recomputations of the current prefill have come to chunk j, or by it.
Passed(j) ==
  \/ phase \in {"idle", "failed"}
  \/ phase \in {"recompute", "writeThrough"} /\ j < cursor
  \/ j = cursor /\ (phase = "writeThrough" \/ (phase = "recompute" /\ ~Idle))

\* An entry e under this key is a chunk that some request asked for, in the
\* very version it asked for.
Known(key, e) ==
  \E m \in 1 .. served : \E j \in DOMAIN Prompt(m) :
    /\ m < served \/ Passed(j)
    /\ key = cache_key(Prompt(m)[j])
    /\ e = extent(Prompt(m)[j])

EntriesKnown ==
  /\ \A t \in Tiers : \A key \in DOMAIN tiers[t] : Known(key, tiers[t][key])
  /\ ~Idle => Known(cache_key(pending), extent(pending))

\* The write-through tiers still cover all that the earlier requests asked for.
EarlierCovered ==
  phase # "failed" =>
    \A m \in 1 .. served - 1, w \in DOMAIN WriteThrough :
      \A i \in DOMAIN Prompt(m) : Covers(WriteThrough[w], Prompt(m)[i])

\* What is to be loaded has been asked for before.
LoadsAsked ==
  \A i \in DOMAIN plan : Loads(i) => AskedBefore(served, chunks[i])

OriginInv == EntriesKnown /\ EarlierCovered /\ LoadsAsked

\* While a request is served its chunks are those of the list.
LEMMA CurrentPrompt ==
  ASSUME TypeInv, RequestInv, PromptInv, NEW i \in DOMAIN chunks
  PROVE  /\ served \in 1 .. MaxRequests /\ served > 0 /\ chunks[i] = Prompt(served)[i]
         /\ i \in DOMAIN Prompt(served)
         /\ phase # "split" => DOMAIN chunks = DOMAIN Prompt(served)
<1>1. served > 0
  BY ScheduleFacts DEF RequestInv, TypeInv, ControlTypeOK
<1>2. served \in 1 .. MaxRequests /\ WholePrompt = Prompt(served)
  BY <1>1, ServedRequest DEF PromptInv
<1>3. Len(WholePrompt) \in Nat /\ DOMAIN WholePrompt = 1 .. Len(WholePrompt)
  <2>1. /\ request.shared \in Nat /\ request.prompt \in Nat /\ request.shared < request.prompt
    BY <1>1, ServedRequest DEF PromptInv
  <2>2. /\ Len(WholePrompt) = Chunks(request.shared) + Chunks(request.prompt - request.shared)
        /\ DOMAIN WholePrompt
             = 1 .. Chunks(request.shared) + Chunks(request.prompt - request.shared)
    BY <2>1, PromptShape DEF WholePrompt
  <2>3. Len(WholePrompt) \in Nat
    BY <1>1, PromptLength DEF PromptInv
  <2> QED BY <2>2, <2>3
<1>4. /\ Len(chunks) <= Len(WholePrompt) /\ chunks[i] = WholePrompt[i]
      /\ phase # "split" => Len(chunks) = Len(WholePrompt)
  BY <1>1 DEF PromptInv, SplitInv
<1>5. DOMAIN chunks = 1 .. Len(chunks) /\ Len(chunks) \in Nat
  BY ScheduleFacts
<1>6. DOMAIN Prompt(served) = 1 .. Len(WholePrompt) /\ i \in 1 .. Len(chunks)
  BY <1>2, <1>3, <1>5
<1>7. /\ i \in DOMAIN Prompt(served)
      /\ phase # "split" => DOMAIN chunks = DOMAIN Prompt(served)
  <2>1. \A a, b \in Nat : a <= b /\ i \in 1 .. a => i \in 1 .. b
    OBVIOUS
  <2>2. i \in 1 .. Len(WholePrompt)
    BY <1>3, <1>4, <1>5, <1>6, <2>1
  <2>3. phase # "split" => 1 .. Len(chunks) = 1 .. Len(WholePrompt)
    BY <1>4
  <2> QED BY <1>5, <1>6, <2>2, <2>3
<1> QED BY <1>1, <1>2, <1>4, <1>7

LEMMA PassedStays ==
  ASSUME TypeInv, Prefill, NEW j \in Nat, Passed(j)
  PROVE  Passed(j)'
<1>1. Materialise
  BY ScheduleFrame DEF Prefill, Passed, Split, SplitStep, SplitShared, SplitPrivate
<1>2. cursor \in Nat /\ phase # "idle"
  BY <1>1, PrefillFrame DEF Prefill, TypeInv, ControlTypeOK
<1>3. phase \in {"recompute", "writeThrough"}
  BY <1>1, <1>2
     DEF Passed, Materialise, BeginMaterialise, EndOfPhase, SkipOther, At, GpuLoad, ColdLoad,
         Recomputes, MakeRoom, EvictVictim, FinishStore, InsertPending, WriteThroughOne,
         WriteThroughDone, TypeInv, Bookkeeping
<1> j < cursor \/ j = cursor
  BY <1>3 DEF Passed
<1>4. CASE EndOfPhase
  BY <1>3, <1>4 DEF EndOfPhase, GoTo, PhaseAfter, Passed
<1>5. CASE SkipOther
  BY <1>2, <1>3, <1>5 DEF SkipOther, At, Advance, Passed, managerVars, Idle
<1>6. CASE Recomputes
  <2>1. j < cursor /\ cursor' = cursor
    BY <1>3, <1>6 DEF Recomputes, At, Passed, Fail, Raise
  <2>2. phase' \in {"recompute", "writeThrough", "failed"}
    BY <1>6 DEF Recomputes, At, Fail, Raise, BeginWriteThrough
  <2> QED BY <2>1, <2>2 DEF Passed
<1>7. CASE MakeRoom
  BY <1>3, <1>7 DEF MakeRoom, EvictVictim, Passed, Idle
<1>8. CASE FinishStore
  <2>1. phase = "recompute" /\ phase' = "writeThrough" /\ cursor' = cursor
    BY <1>3, <1>8
       DEF FinishStore, InsertPending, BeginWriteThrough, TypeInv, Bookkeeping
  <2> QED BY <1>2, <2>1 DEF Passed
<1>9. CASE WriteThroughOne
  <2>1. phase' \in {"writeThrough", "failed"} /\ cursor' = cursor /\ phase = "writeThrough"
    BY <1>9 DEF WriteThroughOne, Raise
  <2> QED BY <2>1 DEF Passed
<1>10. CASE WriteThroughDone
  <2>1. phase' = "recompute" /\ cursor' = cursor + 1
    BY <1>10 DEF WriteThroughDone
  <2> QED BY <1>2, <1>3, <2>1 DEF Passed
<1> QED BY <1>1, <1>3, <1>4, <1>5, <1>6, <1>7, <1>8, <1>9, <1>10
        DEF Materialise, BeginMaterialise, GpuLoad, ColdLoad, At

\* What is known stays known.
LEMMA KnownStays ==
  ASSUME TypeInv, ListInv, [ScenarioNext]_scenarioVars, NEW key, NEW e, Known(key, e)
  PROVE  Known(key, e)'
<1>1. /\ requests' = requests /\ [Next]_vars /\ served \in Nat
      /\ \A m : Prompt(m)' = Prompt(m)
  BY ScenarioSteps DEF Prompt, TypeInv, ControlTypeOK
<1>2. PICK m \in 1 .. served : \E j \in DOMAIN Prompt(m) :
        /\ m < served \/ Passed(j)
        /\ key = cache_key(Prompt(m)[j])
        /\ e = extent(Prompt(m)[j])
  BY DEF Known
<1>3. PICK j \in DOMAIN Prompt(m) :
        /\ m < served \/ Passed(j)
        /\ key = cache_key(Prompt(m)[j])
        /\ e = extent(Prompt(m)[j])
  BY <1>2
<1>4. m \in 1 .. served' /\ (m < served' \/ Passed(j)')
  <2>1. CASE Arrive
    <3>1. served' = served + 1
      BY <2>1 DEF Arrive
    <3> QED BY <1>1, <3>1
  <2>2. CASE Prefill
    <3>1. served' = served
      BY <2>2, PrefillFrame
    <3>2. j \in Nat
      <4>1. m \in 1 .. MaxRequests
        BY DEF ListInv, WorkloadAssumption
      <4> QED BY <4>1, StreamFacts, PromptChunk DEF ListInv, Prompt
    <3> QED BY <1>3, <2>2, <3>1, <3>2, PassedStays
  <2>3. CASE UNCHANGED vars
    BY <1>3, <2>3 DEF vars, chunkingVars, managerVars, Passed, Idle
  <2> QED BY <1>1, <2>1, <2>2, <2>3 DEF Next
<1> QED BY <1>1, <1>3, <1>4 DEF Known

LEMMA EntriesKnownStep ==
  ASSUME PrefillFacts, PromptInv, EntriesKnown, [ScenarioNext]_scenarioVars, TypeInv'
  PROVE  EntriesKnown'
<1>1. /\ TypeInv /\ RequestInv /\ ListInv /\ [Next]_vars /\ requests' = requests
      /\ \A m : Prompt(m)' = Prompt(m)
  BY ScenarioSteps DEF PrefillFacts, AlignInv, PromptInv, Prompt
<1>2. ASSUME NEW key, NEW e, Known(key, e) PROVE Known(key, e)'
  BY <1>1, <1>2, KnownStays
<1>3. CASE UNCHANGED vars
  <2>1. tiers' = tiers /\ pending' = pending
    BY <1>3 DEF vars, managerVars
  <2> QED BY <1>2, <2>1 DEF EntriesKnown, Idle
<1>4. CASE Next
  <2>1. ASSUME NEW t \in Tiers, NEW key \in DOMAIN tiers'[t]
        PROVE  Known(key, tiers[t][key])'
    <3>1. PICK e : e = tiers'[t][key]
      OBVIOUS
    <3>2. Known(key, e)
      <4>1. CASE key \in DOMAIN tiers[t] /\ tiers'[t][key] = tiers[t][key]
        BY <2>1, <3>1, <4>1 DEF EntriesKnown
      <4>2. CASE ~Idle /\ key = cache_key(pending) /\ tiers'[t][key] = extent(pending)
        BY <3>1, <4>2 DEF EntriesKnown
      <4>3. CASE WriteThroughOne /\ key = Key(cursor) /\ tiers'[t][key] = extent(chunks[cursor])
        <5>1. phase = "writeThrough" /\ cursor \in DOMAIN chunks
          BY <1>1, <4>3, UpsertStep
        <5>2. Passed(cursor)
          BY <5>1 DEF Passed
        <5>3. /\ served \in 1 .. served /\ cursor \in DOMAIN Prompt(served)
              /\ chunks[cursor] = Prompt(served)[cursor]
          BY <1>1, <5>1, CurrentPrompt
        <5> QED BY <3>1, <4>3, <5>2, <5>3 DEF Known, Key
      <4> QED BY <1>1, <1>4, <2>1, <4>1, <4>2, <4>3, EntrySteps
    <3> QED BY <1>2, <3>1, <3>2
  <2>2. ASSUME pending' # NoChunk
        PROVE  Known(cache_key(pending), extent(pending))'
    <3>1. PICK key, e : key = cache_key(pending') /\ e = extent(pending')
      OBVIOUS
    <3>2. CASE ~Idle /\ pending' = pending
      <4>1. Known(key, e)
        BY <3>1, <3>2 DEF EntriesKnown
      <4> QED BY <1>2, <3>1, <4>1
    <3>3. CASE /\ ColdLoad /\ pending' = StoredSource(cursor)
               /\ plan[cursor].source \in Tiers
               /\ Key(cursor) \in DOMAIN tiers[plan[cursor].source]
               /\ cache_key(pending') = Key(cursor)
      <4>1. tiers[plan[cursor].source][Key(cursor)] \in Extent
        BY <1>1, <3>3 DEF TypeInv, CacheInv, CacheTypeOK, IsDict
      <4>2. cursor \in DOMAIN chunks /\ chunks[cursor] \in Chunk
        BY <1>1, <3>3, CursorFacts DEF ColdLoad
      <4>3. e = tiers[plan[cursor].source][Key(cursor)]
        BY <3>1, <3>3, <4>1, <4>2 DEF StoredSource, extent, Extent, Chunk
      <4>4. Known(key, e)
        BY <3>1, <3>3, <4>3 DEF EntriesKnown
      <4> QED BY <1>2, <3>1, <4>4
    <3>4. CASE Recomputes /\ pending' = chunks[cursor] /\ cursor \in DOMAIN chunks
      <4>1. cursor' = cursor /\ phase' \in {"recompute", "writeThrough", "failed"}
            /\ UNCHANGED scheduleVars
        BY <3>4 DEF Recomputes, At, Fail, Raise, BeginWriteThrough
      <4>2. Passed(cursor)'
        BY <2>2, <4>1 DEF Passed, Idle
      <4>3. served' = served /\ served > 0 /\ served \in 1 .. served
            /\ cursor \in DOMAIN Prompt(served) /\ chunks[cursor] = Prompt(served)[cursor]
        BY <1>1, <3>4, <4>1, CurrentPrompt DEF scheduleVars
      <4> QED BY <1>1, <3>4, <4>1, <4>2, <4>3 DEF Known
    <3> QED BY <1>1, <1>4, <2>2, <3>2, <3>3, <3>4, PendingSteps
  <2> QED BY <2>1, <2>2 DEF EntriesKnown, Idle
<1> QED BY <1>1, <1>3, <1>4

\* No step but a failing one makes a write-through tier cover less.
LEMMA WrittenKept ==
  ASSUME TypeInv, Next, phase' # "failed", NEW w \in DOMAIN WriteThrough,
         NEW c, Covers(WriteThrough[w], c), c.end \in Nat
  PROVE  Covers(WriteThrough[w], c)'
<1>1. WriteThrough[w] \in ColdTiers /\ WriteThrough[w] \in Tiers
  BY WriteThroughFacts
<1>2. CASE ~WriteThroughOne
  BY <1>1, <1>2, ColdTierSteps DEF Covers
<1>3. CASE WriteThroughOne
  <2>0. PICK t, d : t = WriteThrough[wtCursor] /\ d = tiers[t]
    OBVIOUS
  <2>1. /\ t \in ColdTiers /\ t \in Tiers /\ chunks[cursor] \in Chunk
        /\ tiers'[t] = upsert(t, d, chunks[cursor])
        /\ \A u \in Tiers : u # t => tiers'[u] = tiers[u]
    BY <1>3, <2>0, UpsertStep DEF Tiers
  <2>2. ~upsert_raises(t, d, chunks[cursor])
    BY <1>3, <2>0 DEF WriteThroughOne, Raise
  <2>3. IsDict(d, Extent)
    BY <2>0, <2>1 DEF TypeInv, CacheInv, CacheTypeOK
  <2>4. /\ \A k : k # cache_key(chunks[cursor]) =>
             coverage(upsert(t, d, chunks[cursor]), k) = coverage(d, k)
        /\ coverage(upsert(t, d, chunks[cursor]), cache_key(chunks[cursor]))
             = MaxOf(coverage(d, cache_key(chunks[cursor])), chunks[cursor].end)
    BY <2>1, <2>2, <2>3, UpsertFacts
  <2>5. coverage(d, cache_key(c)) <= coverage(tiers'[t], cache_key(c))
    <3>1. coverage(d, cache_key(c)) \in Nat /\ chunks[cursor].end \in Nat
      BY <2>1, <2>3, CoverageFacts, ChunkFields
    <3>2. tiers'[t] = upsert(t, d, chunks[cursor])
      BY <2>1
    <3>3. CASE cache_key(c) = cache_key(chunks[cursor])
      BY <2>4, <3>1, <3>2, <3>3 DEF MaxOf
    <3>4. CASE cache_key(c) # cache_key(chunks[cursor])
      BY <2>4, <3>1, <3>2, <3>4
    <3> QED BY <3>3, <3>4
  <2>6. coverage(tiers[WriteThrough[w]], cache_key(c))
          <= coverage(tiers'[WriteThrough[w]], cache_key(c))
        \/ tiers'[WriteThrough[w]] = tiers[WriteThrough[w]]
    BY <1>1, <2>0, <2>1, <2>5
  <2>7. coverage(tiers[WriteThrough[w]], cache_key(c)) \in Nat
    BY <1>1, CoverageFacts DEF TypeInv, CacheInv, CacheTypeOK
  <2>8. coverage(tiers'[WriteThrough[w]], cache_key(c)) \in Nat
    <3>1. IsDict(tiers'[t], Extent)
      <4>1. IsDict(upsert(t, d, chunks[cursor]), Extent)
        BY <2>1, <2>3, UpsertFacts
      <4> QED BY <2>1, <4>1
    <3>2. IsDict(tiers'[WriteThrough[w]], Extent)
      BY <1>1, <2>1, <3>1 DEF TypeInv, CacheInv, CacheTypeOK
    <3> QED BY <3>2, CoverageFacts
  <2> QED BY <2>6, <2>7, <2>8 DEF Covers
<1> QED BY <1>2, <1>3

LEMMA EarlierCoveredStep ==
  ASSUME PrefillFacts, PromptInv, EarlierCovered, [ScenarioNext]_scenarioVars
  PROVE  EarlierCovered'
<1>1. /\ TypeInv /\ SafetyInv /\ RequestInv /\ ListInv /\ [Next]_vars
      /\ \A m : Prompt(m)' = Prompt(m)
  BY ScenarioSteps DEF PrefillFacts, AlignInv, PromptInv, Prompt
<1> SUFFICES ASSUME phase' # "failed", NEW m \in 1 .. served' - 1,
                    NEW w \in DOMAIN WriteThrough, NEW i \in DOMAIN Prompt(m)
             PROVE  Covers(WriteThrough[w], Prompt(m)[i])'
  BY <1>1 DEF EarlierCovered
<1>2. served \in Nat
  BY <1>1 DEF TypeInv, ControlTypeOK
<1>3. CASE Arrive
  <2>1. served' = served + 1 /\ phase = "idle" /\ tiers' = tiers
    BY <1>3 DEF Arrive
  <2>2. CASE m \in 1 .. served - 1
    BY <1>1, <2>1, <2>2 DEF EarlierCovered, Covers
  <2>3. CASE m = served
    <3>1. served > 0
      BY <1>2, <2>1, <2>3
    <3>2. WholePrompt = Prompt(served) /\ Len(chunks) = Len(WholePrompt)
      BY <1>1, <2>1, <3>1, ServedRequest DEF PromptInv, SplitInv
    <3>3. DOMAIN WholePrompt = 1 .. Len(WholePrompt)
      <4>1. /\ request.shared \in Nat /\ request.prompt \in Nat
            /\ request.shared < request.prompt
        BY <1>1, <3>1, ServedRequest
      <4> QED BY <4>1, PromptShape DEF WholePrompt
    <3>4. i \in DOMAIN chunks /\ i \in DOMAIN plan
      <4>1. DOMAIN chunks = 1 .. Len(chunks)
        BY <1>1, ScheduleFacts
      <4>2. DOMAIN plan = DOMAIN chunks
        BY <1>1, <2>1 DEF TypeInv, Bookkeeping
      <4> QED BY <2>3, <3>2, <3>3, <4>1, <4>2
    <3>5. chunks[i] = Prompt(served)[i]
      BY <1>1, <3>4, CurrentPrompt
    <3>6. Covers(WriteThrough[w], chunks[i])
      BY <1>1, <2>1, <3>4 DEF SafetyInv, WarmInv, WarmBy
    <3> QED BY <1>1, <2>1, <2>3, <3>5, <3>6 DEF Covers
  <2> QED BY <1>2, <2>1, <2>2, <2>3
<1>4. CASE Prefill
  <2>1. served' = served
    BY <1>1, <1>4, PrefillFrame
  <2>2. phase # "failed"
    BY <1>1, <1>4, ScheduleFrame
       DEF Prefill, Split, SplitStep, SplitShared, SplitPrivate, Materialise, BeginMaterialise,
           EndOfPhase, SkipOther, At, GpuLoad, ColdLoad, Recomputes, MakeRoom, EvictVictim,
           FinishStore, InsertPending, WriteThroughOne, WriteThroughDone, TypeInv, Bookkeeping
  <2>3. Covers(WriteThrough[w], Prompt(m)[i])
    BY <2>1, <2>2 DEF EarlierCovered
  <2>4. Prompt(m)[i].end \in Nat
    <3>1. m \in 1 .. MaxRequests
      BY <1>1, <1>2, <2>1 DEF ListInv, WorkloadAssumption
    <3>2. Prompt(m)[i] \in Chunk
      BY <1>1, <3>1, StreamFacts, PromptChunk DEF ListInv, Prompt
    <3> QED BY <3>2, ChunkFields
  <2>5. PICK c : c = Prompt(m)[i]
    OBVIOUS
  <2>6. Covers(WriteThrough[w], c)'
    BY <1>1, <1>4, <2>3, <2>4, <2>5, WrittenKept DEF Next
  <2> QED BY <1>1, <2>5, <2>6 DEF Covers
<1>5. CASE UNCHANGED vars
  <2>1. served' = served /\ phase' = phase /\ tiers' = tiers
    BY <1>5 DEF vars, chunkingVars
  <2> QED BY <1>1, <2>1 DEF EarlierCovered, Covers
<1> QED BY <1>1, <1>3, <1>4, <1>5 DEF Next

LEMMA LoadsAskedStep ==
  ASSUME PrefillFacts, PromptInv, EntriesKnown, LoadsAsked, [ScenarioNext]_scenarioVars, TypeInv'
  PROVE  LoadsAsked'
<1>1. /\ TypeInv /\ SafetyInv /\ RequestInv /\ ListInv /\ [Next]_vars
      /\ \A m : Prompt(m)' = Prompt(m)
  BY ScenarioSteps DEF PrefillFacts, AlignInv, PromptInv, Prompt
<1>2. CASE Arrive
  BY <1>2 DEF Arrive, FrontsReset, LoadsAsked
<1>3. CASE Split
  <2>1. plan' = <<>>
    BY <1>1, <1>3 DEF Split, SplitStep, SplitShared, SplitPrivate, SafetyInv, PlanInv
  <2> QED BY <2>1 DEF LoadsAsked
<1>4. CASE Schedule
  <2>1. /\ chunks' = chunks /\ phase \in {"split", "scan", "sweep"} /\ served' = served
    BY <1>1, <1>4, ScheduleFrame, PrefillFrame DEF Prefill
  <2> SUFFICES ASSUME NEW i \in DOMAIN plan', plan'[i].action = "load"
               PROVE  AskedBefore(served, chunks[i])
    BY <1>1, <2>1 DEF LoadsAsked, Loads, AskedBefore
  <2>2. Covers(plan'[i].source, chunks[i])
    BY <1>1, <1>4, PlannedLoads DEF SafetyInv
  <2>3. plan'[i].source \in Tiers
    <3>1. plan'[i] \in Decision
      BY DEF TypeInv, ScheduleTypeOK
    <3> QED BY <3>1, LoadSource
  <2>4. i \in DOMAIN chunks /\ chunks[i] \in Chunk
    <3>1. phase' # "split"
      BY <1>1, <1>4, ScheduleFrame
    <3>2. DOMAIN plan' = DOMAIN chunks'
      BY <3>1 DEF TypeInv, Bookkeeping
    <3> QED BY <1>1, <2>1, <3>2, ScheduleFacts
  <2> DEFINE t == plan'[i].source
             key == cache_key(chunks[i])
  <2>5. key \in DOMAIN tiers[t] /\ tiers[t][key].end >= chunks[i].end
    <3>1. chunks[i].end \in Nat /\ chunks[i].end > 0
      <4>1. PICK c \in Chunk : c = chunks[i]
        BY <2>4
      <4> QED BY <4>1 DEF Chunk
    <3>2. IsDict(tiers[t], Extent)
      BY <1>1, <2>3 DEF TypeInv, CacheInv, CacheTypeOK
    <3> QED BY <2>2, <3>1, <3>2 DEF Covers, coverage
  <2>6. Known(key, tiers[t][key])
    BY <2>3, <2>5 DEF EntriesKnown
  <2>7. \A j : ~Passed(j)
    BY <2>1 DEF Passed
  <2>8. PICK m \in 1 .. served : \E j \in DOMAIN Prompt(m) :
          /\ m < served
          /\ key = cache_key(Prompt(m)[j])
          /\ tiers[t][key] = extent(Prompt(m)[j])
    BY <2>6, <2>7 DEF Known
  <2>9. PICK j \in DOMAIN Prompt(m) :
          /\ m < served
          /\ key = cache_key(Prompt(m)[j])
          /\ tiers[t][key] = extent(Prompt(m)[j])
    BY <2>8
  <2>10. m \in 1 .. served - 1
    BY <1>1, <2>9 DEF TypeInv, ControlTypeOK
  <2>11. Prompt(m)[j].end >= chunks[i].end
    BY <2>5, <2>9 DEF extent
  <2> HIDE DEF t
  <2> QED BY <2>9, <2>10, <2>11 DEF AskedBefore
<1>5. CASE Materialise \/ UNCHANGED vars
  <2>1. chunks' = chunks /\ plan' = plan /\ served' = served
    BY <1>1, <1>5, PrefillFrame DEF Prefill, vars, chunkingVars
  <2> QED BY <1>1, <2>1 DEF LoadsAsked, Loads, AskedBefore
<1> QED BY <1>1, <1>2, <1>3, <1>4, <1>5 DEF Next, Prefill

LEMMA ScenarioOrigin == ScenarioSpec => []OriginInv
<1>1. ScenarioInit => OriginInv
  <2> SUFFICES ASSUME ScenarioInit PROVE OriginInv
    OBVIOUS
  <2>1. /\ \A t \in Tiers : tiers[t] = EmptyDict
        /\ pending = NoChunk /\ served = 0 /\ plan = <<>>
    BY DEF ScenarioInit, RunInit, Init, CacheInit
  <2>2. \A t \in Tiers : DOMAIN tiers[t] = {}
    BY <2>1 DEF EmptyDict
  <2> QED BY <2>1, <2>2 DEF OriginInv, EntriesKnown, EarlierCovered, LoadsAsked, Idle
<1>2. PrefillFacts /\ PromptInv /\ OriginInv /\ [ScenarioNext]_scenarioVars /\ PrefillFacts'
        => OriginInv'
  BY EntriesKnownStep, EarlierCoveredStep, LoadsAskedStep DEF OriginInv, PrefillFacts
<1> QED BY <1>1, <1>2, ScenarioFacts, PTL DEF ScenarioSpec

-----------------------------------------------------------------------------
(* The coverage misses of one prefill.                                     *)

MissedSoFar == { i \in ExtendedChunks(served) : Passed(i) }

MissInv ==
  served > 0 /\ phase # "failed" /\ WriteThrough # <<>> =>
    Cardinality(MissedSoFar) <= coverageMisses

LEMMA NewChunksFinite ==
  ASSUME ListInv, NEW n \in 1 .. served
  PROVE  /\ IsFiniteSet(DOMAIN Prompt(n)) /\ Cardinality(DOMAIN Prompt(n)) = Len(Prompt(n))
         /\ Len(Prompt(n)) \in Nat /\ DOMAIN Prompt(n) = 1 .. Len(Prompt(n))
         /\ NewChunks(n) \subseteq DOMAIN Prompt(n) /\ IsFiniteSet(NewChunks(n))
         /\ ExtendedChunks(n) \subseteq NewChunks(n) /\ IsFiniteSet(ExtendedChunks(n))
         /\ \A i \in DOMAIN Prompt(n) : i \in Nat \ {0} /\ Prompt(n)[i] \in Chunk
                                        /\ Prompt(n)[i].idx = i - 1
<1>1. n \in 1 .. MaxRequests
  BY DEF ListInv, WorkloadAssumption
<1>2. /\ requests[n].id \in Nat /\ requests[n].doc \in Documents
      /\ requests[n].shared \in Nat /\ requests[n].prompt \in Nat
      /\ requests[n].shared < requests[n].prompt
  BY <1>1, StreamFacts DEF ListInv
<1>3. PICK a, b : /\ a = Chunks(requests[n].shared)
                  /\ b = Chunks(requests[n].prompt - requests[n].shared)
  OBVIOUS
<1>4. /\ a \in Nat /\ b \in Nat
      /\ Len(Prompt(n)) = a + b /\ DOMAIN Prompt(n) = 1 .. a + b
  BY <1>2, <1>3, PromptShape DEF Prompt
<1>5. PICK l \in Nat : l = a + b
  BY <1>4
<1>6. /\ IsFiniteSet(DOMAIN Prompt(n)) /\ Cardinality(DOMAIN Prompt(n)) = Len(Prompt(n))
      /\ Len(Prompt(n)) \in Nat /\ DOMAIN Prompt(n) = 1 .. Len(Prompt(n))
  BY <1>4, <1>5, IntervalSize
<1>7. NewChunks(n) \in SUBSET DOMAIN Prompt(n) /\ ExtendedChunks(n) \in SUBSET NewChunks(n)
  BY DEF NewChunks, ExtendedChunks
<1>8. IsFiniteSet(NewChunks(n))
  BY <1>6, <1>7, FS_Subset
<1>9. IsFiniteSet(ExtendedChunks(n))
  BY <1>7, <1>8, FS_Subset
<1>10. \A i \in DOMAIN Prompt(n) : i \in Nat \ {0} /\ Prompt(n)[i] \in Chunk
                                   /\ Prompt(n)[i].idx = i - 1
  BY <1>2, PromptChunk DEF Prompt
<1> QED BY <1>6, <1>7, <1>8, <1>9, <1>10

\* When a chunk that extends an earlier one is recomputed, the first
\* write-through tier holds a part of it.
LEMMA PartIsFound ==
  ASSUME PrefillFacts, PromptInv, OriginInv, WriteThrough # <<>>, Recomputes,
         cursor \in ExtendedChunks(served)
  PROVE  FindsPartial(chunks[cursor])
<1>1. TypeInv /\ RequestInv /\ ListInv /\ phase = "recompute" /\ Idle
  BY DEF PrefillFacts, AlignInv, PromptInv, Recomputes, At
<1>2. cursor \in DOMAIN chunks /\ chunks[cursor] \in Chunk
  BY <1>1, CursorFacts DEF Recomputes
<1>3. /\ served \in 1 .. served /\ cursor \in DOMAIN Prompt(served)
      /\ chunks[cursor] = Prompt(served)[cursor]
  BY <1>1, <1>2, CurrentPrompt
<1> DEFINE c == chunks[cursor]
           t == WriteThrough[1]
           e == tiers[t][cache_key(c)]
<1>4. 1 \in DOMAIN WriteThrough /\ t \in Tiers
  BY FirstWriteThrough, WriteThroughFacts
<1>5. IsDict(tiers[t], Extent)
  BY <1>1, <1>4 DEF TypeInv, CacheInv, CacheTypeOK
<1>6. cache_key(c) \in DOMAIN tiers[t]
  <2>1. PICK m \in 1 .. served - 1 : \E j \in DOMAIN Prompt(m) :
          cache_key(Prompt(m)[j]) = cache_key(c)
    BY <1>3 DEF ExtendedChunks, PartAskedBefore
  <2>2. PICK j \in DOMAIN Prompt(m) : cache_key(Prompt(m)[j]) = cache_key(c)
    BY <2>1
  <2>3. Covers(t, Prompt(m)[j])
    BY <1>1, <1>4 DEF OriginInv, EarlierCovered
  <2>4. Prompt(m)[j] \in Chunk
    <3>1. m \in 1 .. served
      BY <1>1 DEF ListInv
    <3> QED BY <1>1, <3>1, NewChunksFinite
  <2>5. coverage(tiers[t], cache_key(c)) > 0
    <3>1. coverage(tiers[t], cache_key(c)) >= Prompt(m)[j].end
      BY <2>2, <2>3 DEF Covers
    <3>2. Prompt(m)[j].end \in Nat /\ Prompt(m)[j].end > 0
      BY <2>4 DEF Chunk
    <3>3. coverage(tiers[t], cache_key(c)) \in Nat
      BY <1>5, CoverageFacts
    <3> QED BY <3>1, <3>2, <3>3
  <2> QED BY <1>5, <2>5, CoverageFacts
<1>7. Known(cache_key(c), e)
  BY <1>4, <1>6 DEF OriginInv, EntriesKnown
<1>8. PICK m \in 1 .. served : \E j \in DOMAIN Prompt(m) :
        /\ m < served \/ Passed(j)
        /\ cache_key(c) = cache_key(Prompt(m)[j])
        /\ e = extent(Prompt(m)[j])
  BY <1>7 DEF Known
<1>9. PICK j \in DOMAIN Prompt(m) :
        /\ m < served \/ Passed(j)
        /\ cache_key(c) = cache_key(Prompt(m)[j])
        /\ e = extent(Prompt(m)[j])
  BY <1>8
<1>10. m < served
  <2> SUFFICES ASSUME m = served PROVE FALSE
    BY <1>1 DEF ListInv
  <2>1. Passed(j)
    BY <1>1, <1>9 DEF ListInv
  <2>2. j \in Nat /\ j < cursor
    <3>1. j \in Nat
      BY <1>1, <1>9, NewChunksFinite
    <3> QED BY <1>1, <2>1, <3>1 DEF Passed
  <2>3. Prompt(served)[j].idx = j - 1 /\ Prompt(served)[cursor].idx = cursor - 1
    BY <1>1, <1>3, <1>9, NewChunksFinite
  <2>4. Prompt(served)[j].idx = Prompt(served)[cursor].idx
    BY <1>3, <1>9 DEF cache_key
  <2> QED BY <1>1, <2>2, <2>3, <2>4 DEF TypeInv, ControlTypeOK
<1>11. ~(e.end >= c.end)
  <2>1. ~AskedBefore(served, Prompt(served)[cursor])
    BY DEF ExtendedChunks, NewChunks
  <2>2. m \in 1 .. served - 1
    BY <1>1, <1>10 DEF ListInv
  <2>3. ~(Prompt(m)[j].end >= c.end)
    BY <1>3, <1>9, <2>1, <2>2 DEF AskedBefore
  <2> QED BY <1>9, <2>3 DEF extent
<1>12. Partial(t, c)
  <2>1. coverage(tiers[t], cache_key(c)) = e.end
    BY <1>6 DEF coverage
  <2> HIDE DEF e, c, t
  <2> QED BY <1>6, <1>11, <2>1 DEF Partial, Present, Covers
<1> QED BY <1>4, <1>12 DEF FindsPartial

\* A step of the materialisation that recomputes nothing passes no new chunk.
LEMMA NothingMissed ==
  ASSUME PrefillFacts, PromptInv, OriginInv, Materialise, ~Recomputes,
         served' = served, ExtendedChunks(served)' = ExtendedChunks(served),
         served \in 1 .. served, phase' # "failed"
  PROVE  MissedSoFar' \subseteq MissedSoFar /\ coverageMisses' = coverageMisses
<1>1. /\ TypeInv /\ SafetyInv /\ RequestInv /\ ListInv /\ chunks' = chunks /\ plan' = plan
      /\ DOMAIN plan = DOMAIN chunks /\ cursor \in Nat \ {0}
  BY MaterialiseFrame DEF PrefillFacts, AlignInv, PromptInv, TypeInv, ControlTypeOK
<1>2. coverageMisses' = coverageMisses
  BY DEF Materialise, BeginMaterialise, EndOfPhase, SkipOther, GpuLoad, ColdLoad, MakeRoom,
         FinishStore, WriteThroughOne, WriteThroughDone, countVars
<1> SUFFICES ASSUME NEW i \in ExtendedChunks(served), Passed(i)' PROVE Passed(i)
  BY <1>2 DEF MissedSoFar
<1>3. i \in Nat \ {0} /\ i \in DOMAIN Prompt(served) /\ ~AskedBefore(served, Prompt(served)[i])
  BY <1>1, NewChunksFinite DEF ExtendedChunks, NewChunks
<1>4. phase' \in {"idle", "recompute", "writeThrough"}
  BY DEF Passed
<1>5. CASE BeginMaterialise
  BY <1>4, <1>5 DEF BeginMaterialise, GoTo, PhaseAfter
<1>6. CASE EndOfPhase
  <2>1. phase \in {"coldLoads", "recompute"} /\ cursor' = 1 /\ cursor > Len(chunks)
    BY <1>4, <1>6 DEF EndOfPhase, GoTo, PhaseAfter
  <2>2. CASE phase = "coldLoads"
    <3>1. phase' = "recompute" /\ pending' = NoChunk
      BY <1>6, <2>2 DEF EndOfPhase, GoTo, PhaseAfter, managerVars, Idle
    <3> QED BY <1>3, <2>1, <3>1 DEF Passed, Idle
  <2>3. CASE phase = "recompute"
    <3>1. i \in DOMAIN chunks \/ DOMAIN chunks = {}
      BY <1>1, <1>3, <2>3, CurrentPrompt
    <3>2. Len(WholePrompt) = Len(chunks) /\ WholePrompt = Prompt(served)
      BY <1>1, <2>3, ServedRequest DEF PromptInv, SplitInv
    <3>3. DOMAIN chunks = 1 .. Len(chunks) /\ Len(chunks) \in Nat
      BY <1>1, ScheduleFacts
    <3>4. i \in 1 .. Len(chunks)
      BY <1>1, <1>3, <3>2, NewChunksFinite
    <3> QED BY <1>1, <2>1, <2>3, <3>3, <3>4 DEF Passed
  <2> QED BY <2>1, <2>2, <2>3
<1>7. CASE SkipOther
  <2>1. /\ At("recompute") /\ plan[cursor].action # "recompute"
        /\ cursor' = cursor + 1 /\ phase' = "recompute" /\ pending' = NoChunk
    BY <1>4, <1>7 DEF SkipOther, At, Advance, managerVars, Idle
  <2>2. cursor \in DOMAIN chunks /\ phase = "recompute"
    BY <1>1, <2>1, CursorFacts DEF At
  <2>3. Loads(cursor)
    BY <1>1, <2>2, MaterialiseFrame, <2>1 DEF Loads
  <2>4. AskedBefore(served, chunks[cursor])
    BY <1>1, <2>2, <2>3 DEF OriginInv, LoadsAsked
  <2>5. chunks[cursor] = Prompt(served)[cursor]
    BY <1>1, <2>2, CurrentPrompt
  <2>6. i # cursor
    BY <1>3, <2>4, <2>5
  <2>7. i < cursor + 1
    BY <2>1 DEF Passed, Idle
  <2> QED BY <1>1, <1>3, <2>2, <2>6, <2>7 DEF Passed
<1>8. CASE GpuLoad \/ ColdLoad
  BY <1>4, <1>8 DEF GpuLoad, ColdLoad, At, StoreLoaded, Advance, Raise, Fail
<1>9. CASE MakeRoom
  <2>1. phase' = phase /\ cursor' = cursor /\ ~Idle
    BY <1>9 DEF MakeRoom, EvictVictim
  <2> QED BY <1>4, <2>1 DEF Passed
<1>10. CASE FinishStore
  <2>1. /\ phase = "recompute" /\ ~Idle /\ phase' = "writeThrough" /\ cursor' = cursor
    BY <1>1, <1>4, <1>10
       DEF FinishStore, InsertPending, BeginWriteThrough, Advance, TypeInv, Bookkeeping
  <2> QED BY <2>1 DEF Passed
<1>11. CASE WriteThroughOne
  <2>1. phase' = "writeThrough" /\ phase = "writeThrough" /\ cursor' = cursor
    BY <1>11 DEF WriteThroughOne, Raise
  <2> QED BY <2>1 DEF Passed
<1>12. CASE WriteThroughDone
  <2>1. phase' = "recompute" /\ phase = "writeThrough" /\ cursor' = cursor + 1
        /\ pending' = pending /\ Idle
    BY <1>1, <1>12 DEF WriteThroughDone, managerVars, TypeInv, Bookkeeping
  <2>2. i < cursor + 1
    BY <2>1 DEF Passed, Idle
  <2>3. i < cursor \/ i = cursor
    BY <1>1, <1>3, <2>2
  <2> QED BY <2>1, <2>3 DEF Passed
<1> QED BY <1>5, <1>6, <1>7, <1>8, <1>9, <1>10, <1>11, <1>12 DEF Materialise

LEMMA MissStep ==
  ASSUME PrefillFacts, PromptInv, OriginInv, MissInv, [ScenarioNext]_scenarioVars, TypeInv'
  PROVE  MissInv'
<1>1. /\ TypeInv /\ RequestInv /\ ListInv /\ [Next]_vars
      /\ requests' = requests
  BY ScenarioSteps DEF PrefillFacts, AlignInv, PromptInv
<1>2. \A n : ExtendedChunks(n)' = ExtendedChunks(n)
  BY <1>1 DEF ExtendedChunks, NewChunks, AskedBefore, PartAskedBefore, Prompt
<1> SUFFICES ASSUME served' > 0, phase' # "failed", WriteThrough # <<>>
             PROVE  Cardinality(MissedSoFar') <= coverageMisses'
  BY DEF MissInv
<1>3. coverageMisses' \in Nat /\ served \in Nat
  BY <1>1 DEF TypeInv, ControlTypeOK
<1>4. ASSUME phase' \in {"split", "scan", "sweep", "scheduled"}
      PROVE  Cardinality(MissedSoFar') <= coverageMisses'
  <2>1. MissedSoFar' = {}
    BY <1>4 DEF MissedSoFar, Passed
  <2>2. Cardinality(MissedSoFar') = 0
    BY <2>1, FS_EmptySet
  <2> QED BY <1>3, <2>2
<1>5. CASE Arrive \/ Split \/ Schedule
  <2>1. phase' \in {"split", "scan", "sweep", "scheduled"}
    BY <1>1, <1>5, ScheduleFrame DEF Arrive, Split, SplitStep, SplitShared, SplitPrivate
  <2> QED BY <1>4, <2>1
<1>6. CASE Materialise
  <2>1. served' = served /\ served \in 1 .. served
    BY <1>1, <1>3, <1>6, PrefillFrame DEF Prefill
  <2>2. ExtendedChunks(served)' = ExtendedChunks(served)
    BY <1>2, <2>1
  <2>3. IsFiniteSet(ExtendedChunks(served)) /\ IsFiniteSet(MissedSoFar)
    <3>1. IsFiniteSet(ExtendedChunks(served))
      BY <1>1, <2>1, NewChunksFinite
    <3>2. MissedSoFar \in SUBSET ExtendedChunks(served)
      BY DEF MissedSoFar
    <3> QED BY <3>1, <3>2, FS_Subset
  <2>4. Cardinality(MissedSoFar) \in Nat /\ coverageMisses \in Nat
    BY <1>1, <2>3, FS_CardinalityType DEF TypeInv, ControlTypeOK
  <2>5. phase # "failed"
    BY <1>1, <1>6, MaterialiseFrame DEF PrefillFacts
  <2>6. Cardinality(MissedSoFar) <= coverageMisses
    BY <2>1, <2>5 DEF MissInv
  <2>7. CASE ~Recomputes
    <3>1. MissedSoFar' \in SUBSET MissedSoFar /\ coverageMisses' = coverageMisses
      BY <1>6, <2>1, <2>2, <2>7, NothingMissed
    <3>2. PICK S : S = MissedSoFar'
      OBVIOUS
    <3>3. IsFiniteSet(S) /\ Cardinality(S) <= Cardinality(MissedSoFar)
      BY <2>3, <3>1, <3>2, FS_Subset
    <3>4. Cardinality(S) \in Nat
      BY <3>3, FS_CardinalityType
    <3> QED BY <2>4, <2>6, <3>1, <3>2, <3>3, <3>4
  <2>8. CASE Recomputes
    <3>1. /\ cursor' = cursor /\ phase = "recompute" /\ Idle
          /\ phase' \in {"recompute", "writeThrough"} /\ cursor \in Nat
      BY <1>1, <2>8
         DEF Recomputes, At, Fail, Raise, BeginWriteThrough, TypeInv, ControlTypeOK
    <3>2. MissedSoFar' \subseteq { i \in ExtendedChunks(served) : Passed(i) \/ i = cursor }
      BY <2>2, <3>1 DEF MissedSoFar, Passed
    <3>3. PICK S : S = MissedSoFar'
      OBVIOUS
    <3>4. CASE cursor \in ExtendedChunks(served)
      <4>1. coverageMisses' = coverageMisses + 1
        BY <2>8, <3>4, PartIsFound DEF Recomputes
      <4>2. S \in SUBSET (MissedSoFar \cup {cursor})
        BY <3>2, <3>3 DEF MissedSoFar
      <4>3. PICK c : c = cursor
        OBVIOUS
      <4>4. /\ IsFiniteSet(MissedSoFar \cup {c})
            /\ Cardinality(MissedSoFar \cup {c}) <= Cardinality(MissedSoFar) + 1
        <5>1. PICK M : M = MissedSoFar
          OBVIOUS
        <5>2. /\ IsFiniteSet(M \cup {c})
              /\ Cardinality(M \cup {c})
                   = IF c \in M THEN Cardinality(M) ELSE Cardinality(M) + 1
          BY <2>3, <5>1, FS_AddElement
        <5> QED BY <2>4, <5>1, <5>2
      <4>5. IsFiniteSet(S) /\ Cardinality(S) <= Cardinality(MissedSoFar \cup {c})
        BY <4>2, <4>3, <4>4, FS_Subset
      <4>6. Cardinality(S) \in Nat /\ Cardinality(MissedSoFar \cup {c}) \in Nat
        BY <4>4, <4>5, FS_CardinalityType
      <4> QED BY <2>4, <2>6, <3>3, <4>1, <4>4, <4>5, <4>6
    <3>5. CASE cursor \notin ExtendedChunks(served)
      <4>1. coverageMisses' \in {coverageMisses, coverageMisses + 1}
        BY <2>4, <2>8 DEF Recomputes
      <4>2. S \in SUBSET MissedSoFar
        BY <3>2, <3>3, <3>5 DEF MissedSoFar
      <4>3. IsFiniteSet(S) /\ Cardinality(S) <= Cardinality(MissedSoFar)
        BY <2>3, <4>2, FS_Subset
      <4>4. Cardinality(S) \in Nat
        BY <4>3, FS_CardinalityType
      <4> QED BY <2>4, <2>6, <3>3, <4>1, <4>3, <4>4
    <3> QED BY <3>4, <3>5
  <2> QED BY <2>7, <2>8
<1>7. CASE UNCHANGED vars
  <2>1. /\ served' = served /\ phase' = phase /\ cursor' = cursor /\ pending' = pending
        /\ coverageMisses' = coverageMisses
    BY <1>7 DEF vars, chunkingVars, managerVars, countVars
  <2>2. MissedSoFar' = MissedSoFar
    BY <1>2, <2>1 DEF MissedSoFar, Passed, Idle
  <2> QED BY <2>1, <2>2 DEF MissInv
<1> QED BY <1>1, <1>5, <1>6, <1>7 DEF Next, Prefill

-----------------------------------------------------------------------------
(* The metrics of all prefills so far.                                     *)

\* The prefill of request n has paid for what it was the first to touch.
Accounted(n) ==
  /\ metrics[n].recompute_count \in Nat /\ metrics[n].load_count \in Nat
  /\ metrics[n].coverage_miss_count \in Nat
  /\ Cardinality(NewChunks(n)) <= metrics[n].recompute_count
  /\ metrics[n].recompute_count + metrics[n].load_count = Len(Prompt(n))
  /\ WriteThrough # <<>> =>
       Cardinality(ExtendedChunks(n)) <= metrics[n].coverage_miss_count

MetricsInv == \A n \in 1 .. Len(metrics) : Accounted(n)

\* At the end of the recomputations every new chunk has been one of them.
LEMMA ReturnedCounts ==
  ASSUME PrefillFacts, PromptInv, OriginInv, MissInv,
         phase = "recompute", cursor > Len(chunks)
  PROVE  /\ served > 0
         /\ count("recompute") \in Nat /\ count("load") \in Nat /\ coverageMisses \in Nat
         /\ Cardinality(NewChunks(served)) <= count("recompute")
         /\ count("recompute") + count("load") = Len(Prompt(served))
         /\ WriteThrough # <<>> => Cardinality(ExtendedChunks(served)) <= coverageMisses
<1>1. TypeInv /\ SafetyInv /\ RequestInv /\ ListInv /\ served \in Nat /\ coverageMisses \in Nat
  BY DEF PrefillFacts, AlignInv, PromptInv, TypeInv, ControlTypeOK
<1>2. served > 0
  BY <1>1 DEF RequestInv
<1>3. /\ WholePrompt = Prompt(served) /\ Len(chunks) = Len(WholePrompt)
      /\ DOMAIN chunks = 1 .. Len(chunks) /\ Len(chunks) \in Nat /\ DOMAIN plan = DOMAIN chunks
  BY <1>1, <1>2, ServedRequest, ScheduleFacts DEF PromptInv, SplitInv, TypeInv, Bookkeeping
<1>4. served \in 1 .. served
  BY <1>1, <1>2
<1>5. /\ DOMAIN plan = DOMAIN Prompt(served) /\ IsFiniteSet(DOMAIN plan)
      /\ Cardinality(DOMAIN plan) = Len(Prompt(served))
      /\ NewChunks(served) \subseteq DOMAIN plan /\ IsFiniteSet(NewChunks(served))
      /\ ExtendedChunks(served) \subseteq NewChunks(served)
  BY <1>1, <1>3, <1>4, NewChunksFinite
<1>6. \A i \in DOMAIN plan : plan[i].action \in {"load", "recompute"}
  <2> TAKE i \in DOMAIN plan
  <2>1. plan[i] \in Decision /\ plan[i] # Unscheduled
    BY <1>1 DEF SafetyInv, PlanInv, Scheduled, TypeInv, ScheduleTypeOK
  <2> QED BY <2>1 DEF Decision, Load, Recompute, Unscheduled
<1>7. PICK R, L, N : /\ R = { i \in DOMAIN plan : plan[i].action = "recompute" }
                     /\ L = { i \in DOMAIN plan : plan[i].action = "load" }
                     /\ N = NewChunks(served)
  OBVIOUS
<1>8. /\ R \in SUBSET DOMAIN plan /\ L \in SUBSET DOMAIN plan
      /\ R \cup L = DOMAIN plan /\ R \cap L = {}
  BY <1>6, <1>7
<1>9. IsFiniteSet(R) /\ IsFiniteSet(L)
  BY <1>5, <1>8, FS_Subset
<1>10. Cardinality(R) \in Nat /\ Cardinality(L) \in Nat
  BY <1>9, FS_CardinalityType
<1>11. Cardinality(R) + Cardinality(L) = Len(Prompt(served))
  <2>1. Cardinality(R \cup L) = Cardinality(R) + Cardinality(L) - Cardinality(R \cap L)
    BY <1>9, FS_Union
  <2>2. Cardinality(R \cap L) = 0
    BY <1>8, FS_EmptySet
  <2> QED BY <1>5, <1>8, <1>10, <2>1, <2>2
<1>12. Cardinality(N) <= Cardinality(R)
  <2>1. ASSUME NEW i \in N PROVE i \in R
    <3>1. i \in DOMAIN plan /\ ~AskedBefore(served, Prompt(served)[i])
      BY <1>5, <1>7, <2>1 DEF NewChunks
    <3>2. chunks[i] = Prompt(served)[i]
      BY <1>1, <1>3, <3>1, CurrentPrompt
    <3>3. ~Loads(i)
      BY <3>1, <3>2 DEF OriginInv, LoadsAsked
    <3> QED BY <1>6, <1>7, <3>1, <3>3 DEF Loads
  <2>2. N \in SUBSET R
    BY <2>1
  <2> QED BY <1>9, <2>2, FS_Subset
<1>13. ASSUME WriteThrough # <<>>
       PROVE  Cardinality(ExtendedChunks(served)) <= coverageMisses
  <2>1. MissedSoFar = ExtendedChunks(served)
    <3>1. \A i \in ExtendedChunks(served) : i < cursor
      BY <1>1, <1>3, <1>5 DEF TypeInv, ControlTypeOK
    <3> QED BY <3>1 DEF MissedSoFar, Passed
  <2> QED BY <1>2, <1>13, <2>1 DEF MissInv
<1> QED BY <1>1, <1>2, <1>7, <1>10, <1>11, <1>12, <1>13 DEF count

LEMMA MetricsStep ==
  ASSUME PrefillFacts, PromptInv, OriginInv, MissInv, RowsInv, MetricsInv,
         [ScenarioNext]_scenarioVars
  PROVE  MetricsInv'
<1>1. /\ TypeInv /\ RequestInv /\ ListInv /\ served \in Nat /\ [RunNext]_runVars
      /\ requests' = requests /\ \A m : Prompt(m)' = Prompt(m)
  BY ScenarioSteps DEF PrefillFacts, AlignInv, PromptInv, Prompt, TypeInv, ControlTypeOK,
                       ScenarioNext, scenarioVars
<1>2. \A n : NewChunks(n)' = NewChunks(n) /\ ExtendedChunks(n)' = ExtendedChunks(n)
  BY <1>1 DEF ExtendedChunks, NewChunks, AskedBefore, PartAskedBefore, Prompt
<1>3. CASE metrics' = metrics
  BY <1>1, <1>2, <1>3 DEF MetricsInv, Accounted
<1>4. CASE /\ Prefill /\ served' = served /\ phase' = "idle"
           /\ metrics' = Append(metrics, PrefillMetrics)
  <2>1. phase = "recompute" /\ cursor > Len(chunks)
    BY <1>1, <1>4, PrefillPhases
  <2>2. /\ served > 0
        /\ count("recompute") \in Nat /\ count("load") \in Nat /\ coverageMisses \in Nat
        /\ Cardinality(NewChunks(served)) <= count("recompute")
        /\ count("recompute") + count("load") = Len(Prompt(served))
        /\ WriteThrough # <<>> => Cardinality(ExtendedChunks(served)) <= coverageMisses
    BY <2>1, ReturnedCounts
  <2>3. PICK S : metrics \in Seq(S)
    BY DEF RowsInv
  <2>4. PICK row : row = PrefillMetrics
    OBVIOUS
  <2>5. /\ row.recompute_count = count("recompute") /\ row.load_count = count("load")
        /\ row.coverage_miss_count = coverageMisses
    BY <2>4 DEF PrefillMetrics
  <2>6. Len(metrics) = served - 1 /\ \A n \in 1 .. served - 1 : Accounted(n)
    BY <2>1 DEF RowsInv, MetricsInv
  <2>7. /\ metrics' \in Seq(S \cup {row}) /\ Len(metrics') = served
        /\ metrics'[served] = row
        /\ \A n \in 1 .. served - 1 : metrics'[n] = metrics[n]
    <3>1. metrics \in Seq(S \cup {row}) /\ row \in S \cup {row}
      BY <2>3, SeqMonotonic
    <3>2. metrics' = Append(metrics, row) /\ Len(metrics) + 1 = served
      BY <1>1, <1>4, <2>4, <2>6
    <3> QED BY <2>6, <3>1, <3>2, AppendProperties
  <2>8. \A n \in 1 .. served - 1 : Accounted(n)'
    BY <1>1, <1>2, <2>6, <2>7 DEF Accounted
  <2>9. ASSUME NEW n \in 1 .. served, n \notin 1 .. served - 1 PROVE Accounted(n)'
    <3>1. n = served
      BY <1>1, <2>2, <2>9
    <3> QED BY <1>1, <1>2, <1>4, <2>2, <2>5, <2>7, <3>1 DEF Accounted
  <2> QED BY <2>7, <2>8, <2>9 DEF MetricsInv
<1> QED BY <1>1, <1>3, <1>4, RunSteps DEF runVars

\* What is known of every scenario.
ScenarioInv == OriginInv /\ MissInv /\ RowsInv /\ MetricsInv

LEMMA ScenarioAccounts == ScenarioSpec => []ScenarioInv
<1>1. ScenarioInit => MissInv /\ MetricsInv
  <2> SUFFICES ASSUME ScenarioInit PROVE MissInv /\ MetricsInv
    OBVIOUS
  <2>1. served = 0 /\ phase = "idle" /\ Len(metrics) = 0
    BY DEF ScenarioInit, RunInit, Init
  <2> QED BY <2>1 DEF MissInv, MetricsInv
<1>2. PrefillFacts /\ PromptInv /\ OriginInv /\ MissInv /\ RowsInv /\ MetricsInv
        /\ [ScenarioNext]_scenarioVars /\ PrefillFacts' => MissInv' /\ MetricsInv'
  BY MissStep, MetricsStep DEF PrefillFacts
<1>3. ScenarioInv <=> OriginInv /\ MissInv /\ RowsInv /\ MetricsInv
  BY DEF ScenarioInv
<1> QED BY <1>1, <1>2, <1>3, ScenarioRuns, RunRows, ScenarioFacts, ScenarioOrigin, PTL
        DEF ScenarioSpec

\* The totals of a scenario whose prefills are all over.
LEMMA TotalFacts ==
  ASSUME ListInv, RowsInv, MetricsInv, phase = "idle", served \in Nat
  PROVE  /\ DOMAIN metrics = 1 .. served /\ IsFiniteSet(1 .. served)
         /\ \A n \in 1 .. served : Accounted(n)
         /\ ScenarioSummary.total_recompute
              = SumFunctionOnSet([n \in 1 .. served |-> metrics[n].recompute_count], 1 .. served)
         /\ ScenarioSummary.total_load
              = SumFunctionOnSet([n \in 1 .. served |-> metrics[n].load_count], 1 .. served)
         /\ ScenarioSummary.total_coverage_misses
              = SumFunctionOnSet([n \in 1 .. served |-> metrics[n].coverage_miss_count],
                                 1 .. served)
<1>1. Len(metrics) = served /\ \A n \in 1 .. served : Accounted(n)
  BY DEF RowsInv, MetricsInv
<1>2. DOMAIN metrics = 1 .. served
  <2>1. PICK S : metrics \in Seq(S)
    BY DEF RowsInv
  <2> QED BY <1>1, <2>1
<1>3. IsFiniteSet(1 .. served)
  BY IntervalSize
<1>4. /\ ScenarioSummary.total_recompute = Sum("recompute_count")
      /\ ScenarioSummary.total_load = Sum("load_count")
      /\ ScenarioSummary.total_coverage_misses = Sum("coverage_miss_count")
  BY DEF ScenarioSummary
<1>5. /\ Sum("recompute_count")
           = SumFunctionOnSet([n \in 1 .. served |-> metrics[n].recompute_count], 1 .. served)
      /\ Sum("load_count")
           = SumFunctionOnSet([n \in 1 .. served |-> metrics[n].load_count], 1 .. served)
      /\ Sum("coverage_miss_count")
           = SumFunctionOnSet([n \in 1 .. served |-> metrics[n].coverage_miss_count], 1 .. served)
  BY <1>2 DEF Sum, SumFunction
<1> QED BY <1>1, <1>2, <1>3, <1>4, <1>5

\* Over any scenario, whatever its policy, its scheduler and its tiers, the
\* prefills recompute at least every chunk when it is touched for the first
\* time, and each chunk of the stream is accounted for as recomputed or loaded.
THEOREM FirstTouchesAreRecomputed == ScenarioSpec => []FirstTouchRecomputes
<1>1. TypeInv /\ ListInv /\ RowsInv /\ MetricsInv => FirstTouchRecomputes
  <2> SUFFICES ASSUME TypeInv, ListInv, RowsInv, MetricsInv, phase = "idle"
               PROVE  /\ ScenarioSummary.total_recompute >= Cardinality(FirstTouches)
                      /\ ScenarioSummary.total_recompute + ScenarioSummary.total_load
                           = SumFunction([n \in 1 .. served |-> Len(Prompt(n))])
    BY DEF FirstTouchRecomputes
  <2>1. served \in Nat
    BY DEF TypeInv, ControlTypeOK
  <2>2. PICK S, r, l, p, B :
          /\ S = 1 .. served
          /\ r = [n \in 1 .. served |-> metrics[n].recompute_count]
          /\ l = [n \in 1 .. served |-> metrics[n].load_count]
          /\ p = [n \in 1 .. served |-> Len(Prompt(n))]
          /\ B = [n \in 1 .. served |-> NewChunks(n)]
    OBVIOUS
  <2>3. /\ IsFiniteSet(S) /\ \A n \in 1 .. served : Accounted(n)
        /\ ScenarioSummary.total_recompute = SumFunctionOnSet(r, S)
        /\ ScenarioSummary.total_load = SumFunctionOnSet(l, S)
    BY <2>1, <2>2, TotalFacts
  <2>4. /\ \A n \in S : r[n] \in Nat /\ l[n] \in Nat /\ p[n] = r[n] + l[n]
        /\ \A n \in S : /\ IsFiniteSet(B[n]) /\ r[n] \in Nat
                        /\ Cardinality(B[n]) <= r[n]
    BY <2>2, <2>3, NewChunksFinite DEF Accounted
  <2>5. SumFunctionOnSet(p, S) = SumFunctionOnSet(r, S) + SumFunctionOnSet(l, S)
    <3>1. IsFiniteSet(S) /\ \A n \in S : r[n] \in Nat /\ l[n] \in Nat /\ p[n] = r[n] + l[n]
      BY <2>3, <2>4
    <3> QED BY ONLY <3>1, SumPlus
  <2>6. /\ IsFiniteSet(UNION { {n} \X B[n] : n \in S })
        /\ Cardinality(UNION { {n} \X B[n] : n \in S }) <= SumFunctionOnSet(r, S)
    <3>1. IsFiniteSet(S) /\ \A n \in S : /\ IsFiniteSet(B[n]) /\ r[n] \in Nat
                                         /\ Cardinality(B[n]) <= r[n]
      BY <2>3, <2>4
    <3> QED BY ONLY <3>1, BlocksSize
  <2>7. UNION { {n} \X B[n] : n \in S } = FirstTouches
    BY <2>2 DEF FirstTouches
  <2>8. SumFunction([n \in 1 .. served |-> Len(Prompt(n))]) = SumFunctionOnSet(p, S)
    BY <2>2 DEF SumFunction
  <2>9. SumFunctionOnSet(r, S) \in Nat /\ Cardinality(FirstTouches) \in Nat
    BY <2>3, <2>4, <2>6, <2>7, SumType, FS_CardinalityType
  <2> QED BY <2>3, <2>5, <2>6, <2>7, <2>8, <2>9
<1> QED BY <1>1, ScenarioFacts, ScenarioAccounts, PTL DEF PrefillFacts, PromptInv, ScenarioInv

\* With a tier to write through to, every first touch of a chunk of which an
\* earlier request asked for a part is among the coverage misses that the
\* prefills report.
THEOREM PartialTouchesCounted ==
  ASSUME WriteThrough # <<>>
  PROVE  ScenarioSpec => []PartialTouchesAreMisses
<1>1. TypeInv /\ ListInv /\ RowsInv /\ MetricsInv => PartialTouchesAreMisses
  <2> SUFFICES ASSUME TypeInv, ListInv, RowsInv, MetricsInv, phase = "idle"
               PROVE  ScenarioSummary.total_coverage_misses >= Cardinality(PartialTouches)
    BY DEF PartialTouchesAreMisses
  <2>1. served \in Nat
    BY DEF TypeInv, ControlTypeOK
  <2>2. PICK S, m, B :
          /\ S = 1 .. served
          /\ m = [n \in 1 .. served |-> metrics[n].coverage_miss_count]
          /\ B = [n \in 1 .. served |-> ExtendedChunks(n)]
    OBVIOUS
  <2>3. /\ IsFiniteSet(S) /\ \A n \in 1 .. served : Accounted(n)
        /\ ScenarioSummary.total_coverage_misses = SumFunctionOnSet(m, S)
    BY <2>1, <2>2, TotalFacts
  <2>4. \A n \in S : /\ IsFiniteSet(B[n]) /\ m[n] \in Nat
                     /\ Cardinality(B[n]) <= m[n]
    BY <2>2, <2>3, NewChunksFinite DEF Accounted
  <2>5. /\ IsFiniteSet(UNION { {n} \X B[n] : n \in S })
        /\ Cardinality(UNION { {n} \X B[n] : n \in S }) <= SumFunctionOnSet(m, S)
    <3>1. IsFiniteSet(S) /\ \A n \in S : /\ IsFiniteSet(B[n]) /\ m[n] \in Nat
                                         /\ Cardinality(B[n]) <= m[n]
      BY <2>3, <2>4
    <3> QED BY ONLY <3>1, BlocksSize
  <2>6. UNION { {n} \X B[n] : n \in S } = PartialTouches
    BY <2>2 DEF PartialTouches
  <2>7. SumFunctionOnSet(m, S) \in Nat /\ Cardinality(PartialTouches) \in Nat
    BY <2>3, <2>4, <2>5, <2>6, SumType, FS_CardinalityType
  <2> QED BY <2>3, <2>5, <2>6, <2>7
<1> QED BY <1>1, ScenarioFacts, ScenarioAccounts, PTL DEF PrefillFacts, PromptInv, ScenarioInv

-----------------------------------------------------------------------------
(* What the write-through tiers hold.                                      *)

\* A function is what its values make it.
IsDictionary(d) == d = [key \in DOMAIN d |-> d[key]]

ColdDictionaries == \A t \in ColdTiers : IsDictionary(tiers[t])

LEMMA UpsertDictionary ==
  ASSUME NEW t, NEW d, NEW c, IsDictionary(d)
  PROVE  IsDictionary(upsert(t, d, c))
BY DEF IsDictionary, upsert, put, drop

LEMMA SpecDictionaries == Spec => []ColdDictionaries
<1>1. Init => ColdDictionaries
  BY DEF Init, CacheInit, ColdDictionaries, IsDictionary, EmptyDict, Tiers
<1>2. ASSUME TypeInv, ColdDictionaries, [Next]_vars PROVE ColdDictionaries'
  <2>1. CASE UNCHANGED vars
    BY <1>2, <2>1 DEF vars, ColdDictionaries
  <2>2. CASE Next /\ ~WriteThroughOne
    BY <1>2, <2>2, ColdTierSteps DEF ColdDictionaries
  <2>3. CASE WriteThroughOne
    <3> SUFFICES ASSUME NEW t \in ColdTiers PROVE IsDictionary(tiers'[t])
      BY DEF ColdDictionaries
    <3>1. CASE t = WriteThrough[wtCursor]
      <4>1. tiers'[t] = upsert(t, tiers[t], chunks[cursor])
        BY <1>2, <2>3, <3>1, UpsertStep
      <4> QED BY <1>2, <4>1, UpsertDictionary DEF ColdDictionaries
    <3>2. CASE t # WriteThrough[wtCursor]
      BY <1>2, <2>3, <3>2, UpsertStep DEF ColdDictionaries, Tiers
    <3> QED BY <3>1, <3>2
  <2> QED BY <1>2, <2>1, <2>2, <2>3
<1> QED BY <1>1, <1>2, PrefillInvariant, PTL DEF Spec

\* Between two requests the write-through tiers cover every chunk of the
\* requests served.
LEMMA ServedAreCovered ==
  ASSUME TypeInv, SafetyInv, RequestInv, PromptInv, EarlierCovered, phase = "idle",
         NEW m \in 1 .. served, NEW w \in DOMAIN WriteThrough, NEW i \in DOMAIN Prompt(m)
  PROVE  Covers(WriteThrough[w], Prompt(m)[i])
<1>1. served \in Nat
  BY DEF TypeInv, ControlTypeOK
<1>2. CASE m = served
  <2>1. served > 0
    BY <1>1, <1>2
  <2>2. WholePrompt = Prompt(served) /\ Len(chunks) = Len(WholePrompt)
    BY <2>1, ServedRequest DEF PromptInv, SplitInv
  <2>3. DOMAIN WholePrompt = 1 .. Len(WholePrompt)
    <3>1. /\ request.shared \in Nat /\ request.prompt \in Nat
          /\ request.shared < request.prompt
      BY <2>1, ServedRequest DEF PromptInv
    <3> QED BY <3>1, PromptShape DEF WholePrompt
  <2>4. i \in DOMAIN chunks /\ i \in DOMAIN plan
    <3>1. DOMAIN chunks = 1 .. Len(chunks)
      BY ScheduleFacts
    <3>2. DOMAIN plan = DOMAIN chunks
      BY DEF TypeInv, Bookkeeping
    <3> QED BY <1>2, <2>2, <2>3, <3>1, <3>2
  <2>5. chunks[i] = Prompt(m)[i]
    BY <1>2, <2>4, CurrentPrompt
  <2> QED BY <2>4, <2>5 DEF SafetyInv, WarmInv, WarmBy
<1>3. CASE m \in 1 .. served - 1
  BY <1>3 DEF EarlierCovered
<1> QED BY <1>1, <1>2, <1>3

\* Two chunks of the stream under one key start at the same token: both are
\* the same place of one document, or the same chunk of one request.
LEMMA SameStart ==
  ASSUME ListInv, NEW m \in 1 .. served, NEW n \in 1 .. served,
         NEW i \in DOMAIN Prompt(m), NEW j \in DOMAIN Prompt(n),
         cache_key(Prompt(m)[i]) = cache_key(Prompt(n)[j])
  PROVE  Prompt(m)[i].start = Prompt(n)[j].start
<1>1. /\ m \in 1 .. MaxRequests /\ n \in 1 .. MaxRequests
      /\ m \in Nat \ {0} /\ n \in Nat \ {0} /\ NumDocuments \in Nat
  <2>1. served \in 0 .. MaxRequests
    BY DEF ListInv
  <2>2. MaxRequests \in Nat
    BY DEF WorkloadAssumption
  <2>3. NumDocuments \in Nat
    BY DEF ChunkingAssumption
  <2> QED BY <2>1, <2>2, <2>3
<1>2. ASSUME NEW k \in 1 .. MaxRequests, NEW l \in DOMAIN Prompt(k)
      PROVE  /\ l \in Nat /\ Prompt(k)[l].idx = l - 1
             /\ \/ Prompt(k)[l].cid = requests[k].doc
                   /\ Prompt(k)[l].start = Prompt(k)[l].idx * ChunkSize
                \/ Prompt(k)[l].cid = NumDocuments + (k - 1)
             /\ requests[k].doc \in 0 .. NumDocuments - 1
  <2>1. /\ requests[k].id = k - 1 /\ requests[k].id \in Nat /\ requests[k].doc \in Documents
        /\ requests[k].shared \in Nat /\ requests[k].prompt \in Nat
        /\ requests[k].shared < requests[k].prompt
    BY StreamFacts DEF ListInv
  <2>2. l \in DOMAIN chunk_request_with_prefix_split(requests[k])
    BY DEF Prompt
  <2>3. PICK c : c = chunk_request_with_prefix_split(requests[k])[l]
    OBVIOUS
  <2>4. /\ l \in Nat /\ c.idx = l - 1
        /\ \/ c.cid = requests[k].doc /\ c.start = c.idx * ChunkSize
           \/ c.cid = NumDocuments + requests[k].id
    BY <2>1, <2>2, <2>3, PromptChunk
  <2> QED BY <2>1, <2>3, <2>4 DEF Prompt, Documents
<1>3. /\ i \in Nat /\ Prompt(m)[i].idx = i - 1
      /\ j \in Nat /\ Prompt(n)[j].idx = j - 1
      /\ \/ Prompt(m)[i].cid \in 0 .. NumDocuments - 1
            /\ Prompt(m)[i].start = Prompt(m)[i].idx * ChunkSize
         \/ Prompt(m)[i].cid = NumDocuments + (m - 1)
      /\ \/ Prompt(n)[j].cid \in 0 .. NumDocuments - 1
            /\ Prompt(n)[j].start = Prompt(n)[j].idx * ChunkSize
         \/ Prompt(n)[j].cid = NumDocuments + (n - 1)
  BY <1>1, <1>2
<1>4. Prompt(m)[i].cid = Prompt(n)[j].cid /\ Prompt(m)[i].idx = Prompt(n)[j].idx
  BY DEF cache_key
<1>5. CASE /\ Prompt(m)[i].cid = NumDocuments + (m - 1)
           /\ Prompt(n)[j].cid = NumDocuments + (n - 1)
  <2>1. m = n /\ i = j
    BY <1>1, <1>3, <1>4, <1>5
  <2> QED BY <2>1
<1>6. CASE /\ Prompt(m)[i].start = Prompt(m)[i].idx * ChunkSize
           /\ Prompt(n)[j].start = Prompt(n)[j].idx * ChunkSize
  BY <1>4, <1>6
<1> QED BY <1>2, <1>3, <1>4, <1>5, <1>6

\* Whatever the policy and the scheduler, the write-through tiers of a scenario
\* hold between two requests, of every key that was asked for, the longest
\* version that was, and nothing else.
THEOREM DiskHoldsLongest == ScenarioSpec => []DiskIsDetermined
<1>1. PrefillFacts /\ PromptInv /\ OriginInv /\ ColdDictionaries => DiskIsDetermined
  <2> SUFFICES ASSUME PrefillFacts, PromptInv, OriginInv, ColdDictionaries, phase = "idle",
                      NEW w \in DOMAIN WriteThrough
               PROVE  tiers[WriteThrough[w]] = LongestPerKey
    BY DEF DiskIsDetermined
  <2> DEFINE d == tiers[WriteThrough[w]]
  <2>1. /\ TypeInv /\ SafetyInv /\ RequestInv /\ ListInv /\ EarlierCovered
        /\ WriteThrough[w] \in ColdTiers /\ WriteThrough[w] \in Tiers
    BY WriteThroughFacts DEF PrefillFacts, AlignInv, PromptInv, OriginInv
  <2>2. IsDict(d, Extent)
    BY <2>1 DEF TypeInv, CacheInv, CacheTypeOK
  <2>3. \A c : c \in ServedChunks <=>
                 \E m \in 1 .. served : \E i \in DOMAIN Prompt(m) : c = Prompt(m)[i]
    <3>1. \A n : Range(Prompt(n)) = { Prompt(n)[i] : i \in DOMAIN Prompt(n) }
      BY Zenon DEF Range
    <3>2. ServedChunks = UNION { Range(Prompt(n)) : n \in 1 .. served }
      BY DEF ServedChunks
    <3>3. \A c : c \in ServedChunks <=> \E n \in 1 .. served : c \in Range(Prompt(n))
      BY ONLY <3>2, Zenon
    <3>4. \A n : \A c : c \in Range(Prompt(n)) <=>
                          \E i \in DOMAIN Prompt(n) : c = Prompt(n)[i]
      BY ONLY <3>1, Zenon
    <3>5. ASSUME NEW c
          PROVE  (\E n \in 1 .. served : c \in Range(Prompt(n)))
                   <=> \E m \in 1 .. served : \E i \in DOMAIN Prompt(m) : c = Prompt(m)[i]
      BY <3>4
    <3> QED BY ONLY <3>3, <3>5, Zenon
  <2>4. \A c \in ServedChunks : c \in Chunk /\ coverage(d, cache_key(c)) >= c.end
    <3> SUFFICES ASSUME NEW m \in 1 .. served, NEW i \in DOMAIN Prompt(m)
                 PROVE  /\ Prompt(m)[i] \in Chunk
                        /\ coverage(d, cache_key(Prompt(m)[i])) >= Prompt(m)[i].end
      BY <2>3
    <3> QED BY <2>1, ServedAreCovered, NewChunksFinite DEF Covers
  <2>5. \A key \in DOMAIN d : \E c \in ServedChunks : key = cache_key(c) /\ d[key] = extent(c)
    <3> SUFFICES ASSUME NEW key \in DOMAIN d
                 PROVE  \E c \in ServedChunks : key = cache_key(c) /\ d[key] = extent(c)
      OBVIOUS
    <3>1. Known(key, d[key])
      BY <2>1 DEF OriginInv, EntriesKnown
    <3>2. PICK m \in 1 .. served : \E j \in DOMAIN Prompt(m) :
            key = cache_key(Prompt(m)[j]) /\ d[key] = extent(Prompt(m)[j])
      BY <3>1 DEF Known
    <3>3. PICK j \in DOMAIN Prompt(m) :
            key = cache_key(Prompt(m)[j]) /\ d[key] = extent(Prompt(m)[j])
      BY <3>2
    <3> QED BY <2>3, <3>3
  <2>6. \A b, c \in ServedChunks : cache_key(b) = cache_key(c) => b.start = c.start
    <3> SUFFICES ASSUME NEW m \in 1 .. served, NEW i \in DOMAIN Prompt(m),
                        NEW n \in 1 .. served, NEW j \in DOMAIN Prompt(n),
                        cache_key(Prompt(m)[i]) = cache_key(Prompt(n)[j])
                 PROVE  Prompt(m)[i].start = Prompt(n)[j].start
      BY <2>3
    <3> QED BY <2>1, SameStart
  <2>7. \A c \in ServedChunks : cache_key(c) \in DOMAIN d
    <3> SUFFICES ASSUME NEW c \in ServedChunks PROVE cache_key(c) \in DOMAIN d
      OBVIOUS
    <3>1. coverage(d, cache_key(c)) >= c.end /\ c.end \in Nat /\ c.end > 0
      BY <2>4 DEF Chunk
    <3> QED BY <3>1 DEF coverage
  <2>8. DOMAIN d = { cache_key(c) : c \in ServedChunks }
    BY <2>5, <2>7
  <2>9. ASSUME NEW key \in DOMAIN d
        PROVE  LET versions == { c \in ServedChunks : cache_key(c) = key }
               IN  d[key] = extent(CHOOSE c \in versions : \A b \in versions : b.end <= c.end)
    <3> DEFINE versions == { c \in ServedChunks : cache_key(c) = key }
               longest == CHOOSE c \in versions : \A b \in versions : b.end <= c.end
    <3>1. PICK e \in versions : d[key] = extent(e)
      BY <2>5, <2>9
    <3>2. coverage(d, key) = e.end
      BY <2>9, <3>1 DEF coverage, extent
    <3>3. \A b \in versions : b.end <= e.end /\ b.end \in Nat /\ b.start = e.start
      BY <2>4, <2>6, <3>1, <3>2, ChunkFields
    <3>4. longest \in versions /\ \A b \in versions : b.end <= longest.end
      BY <3>1, <3>3
    <3>5. longest.end = e.end /\ longest.start = e.start
      BY <3>1, <3>3, <3>4
    <3> QED BY <3>1, <3>5 DEF extent
  <2>10. d = [key \in DOMAIN d |-> d[key]]
    BY <2>1 DEF ColdDictionaries, IsDictionary
  <2>11. d = [key \in { cache_key(c) : c \in ServedChunks } |->
                LET versions == { c \in ServedChunks : cache_key(c) = key }
                IN  extent(CHOOSE c \in versions : \A b \in versions : b.end <= c.end)]
    BY <2>8, <2>9, <2>10
  <2> QED BY <2>11 DEF LongestPerKey
<1> QED BY <1>1, ScenarioFacts, ScenarioOrigin, ScenarioRuns, SpecDictionaries, PTL

=============================================================================
