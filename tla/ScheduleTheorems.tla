-------------------------- MODULE ScheduleTheorems --------------------------
(***************************************************************************)
(* Lemmas about the split of a prompt into chunks and about the steps of   *)
(* the Cake scheduler, wherever these run.                                 *)
(***************************************************************************)
EXTENDS CakeScheduler, TierTheorems

USE ChunkingAssumption, TierAssumption, WorkloadAssumption, CostAssumption

\* The plan has one operation per chunk, and the I/O front stays within the
\* prompt.
ScheduleShape ==
  /\ ScheduleTypeOK
  /\ phase # "split" => DOMAIN plan = DOMAIN chunks
  /\ phase = "scan" => loadIndex <= Len(chunks)

\* The chunk that an iteration of a splitting loop appends.
LEMMA NextChunkFacts ==
  ASSUME ScheduleTypeOK, NEW cid \in Nat, NEW limit \in Nat, pos < limit
  PROVE  /\ NextChunk(cid, limit) \in Chunk
         /\ NextChunk(cid, limit).idx = Len(chunks)
         /\ NextChunk(cid, limit).start = pos
         /\ NextChunk(cid, limit).end \in pos + 1 .. limit
  BY DEF ScheduleTypeOK, NextChunk, Chunk, MinOf, ChunkingAssumption

\* The chunks under the two fronts and under the sweep exist.
LEMMA PlanFacts ==
  ASSUME ScheduleShape
  PROVE  /\ chunks \in Seq(Chunk) /\ plan \in Seq(Decision)
         /\ DOMAIN chunks = 1 .. Len(chunks) /\ Len(chunks) \in Nat
         /\ phase # "split" => DOMAIN plan = 1 .. Len(chunks)
         /\ Scanning => /\ loadIndex \in DOMAIN chunks /\ computeIndex \in DOMAIN chunks
                        /\ loadIndex \in DOMAIN plan /\ computeIndex \in DOMAIN plan
                        /\ chunks[loadIndex] \in Chunk /\ chunks[computeIndex] \in Chunk
  BY DEF ScheduleShape, ScheduleTypeOK, Scanning

\* A plan keeps its length and its type when one entry is committed.
LEMMA CommitPlan ==
  ASSUME ScheduleShape, NEW i \in DOMAIN plan, NEW d \in Decision,
         plan' = [plan EXCEPT ![i] = d]
  PROVE  /\ plan' \in Seq(Decision) /\ DOMAIN plan' = DOMAIN plan
         /\ plan'[i] = d
         /\ \A j \in DOMAIN plan : j # i => plan'[j] = plan[j]
<1>1. plan \in Seq(Decision) /\ DOMAIN plan = 1 .. Len(plan)
  BY DEF ScheduleShape, ScheduleTypeOK
<1> QED BY <1>1, ExceptSeq

LEMMA DecisionFacts ==
  /\ Unscheduled \in Decision /\ Recompute \in Decision
  /\ \A t \in Tiers : Load(t) \in Decision
  BY DEF Decision

\* Choosing for a chunk on its own (choose_for_chunk).
LEMMA ChooseFacts ==
  ASSUME NEW c \in Chunk
  PROVE  /\ choose_for_chunk(c) \in Decision \ {Unscheduled}
         /\ choose_for_chunk(c).action = "load" =>
              /\ choose_for_chunk(c).source \in Tiers
              /\ Covers(choose_for_chunk(c).source, c)
<1>1. CASE find_cached(c) # NoTier
  <2>1. find_cached(c) \in Tiers /\ Covers(find_cached(c), c)
    BY <1>1, FindCachedFacts
  <2>2. choose_for_chunk(c) \in {Load(find_cached(c)), Recompute}
    BY DEF choose_for_chunk
  <2> QED BY <2>1, <2>2, DecisionFacts DEF Load, Recompute, Unscheduled
<1>2. CASE find_cached(c) = NoTier
  BY <1>2, DecisionFacts DEF choose_for_chunk, Recompute, Unscheduled
<1> QED BY <1>1, <1>2

LEMMA CakeShape ==
  ASSUME ScheduleShape, CakeStep, UNCHANGED <<request, pos, chunks>>
  PROVE  /\ ScheduleTypeOK'
         /\ phase' \in {"scan", "sweep", "scheduled"}
         /\ phase # "split"
         /\ DOMAIN plan' = DOMAIN plan
         /\ phase' = "scan" => loadIndex' <= Len(chunks)
         /\ phase \in {"scan", "sweep"}
<1>1. /\ chunks \in Seq(Chunk) /\ plan \in Seq(Decision)
      /\ DOMAIN chunks = 1 .. Len(chunks) /\ Len(chunks) \in Nat
      /\ phase # "split" => DOMAIN plan = 1 .. Len(chunks)
      /\ Scanning => /\ loadIndex \in DOMAIN chunks /\ computeIndex \in DOMAIN chunks
                     /\ loadIndex \in DOMAIN plan /\ computeIndex \in DOMAIN plan
                     /\ chunks[loadIndex] \in Chunk /\ chunks[computeIndex] \in Chunk
  BY PlanFacts
<1>2. /\ computeIndex \in Nat \ {0} /\ loadIndex \in Nat /\ sweepIndex \in Nat \ {0}
      /\ computeTime \in Nat /\ loadTime \in Nat
      /\ request \in Request /\ pos \in Nat
      /\ phase = "scan" => loadIndex <= Len(chunks)
  BY DEF ScheduleShape, ScheduleTypeOK
<1>3. CASE SkipUncached
  BY <1>1, <1>2, <1>3 DEF SkipUncached, Scanning, ScheduleTypeOK
<1>4. CASE ClaimLoad
  <2> DEFINE t == find_cached(chunks[loadIndex])
  <2>1. t \in Tiers
    BY <1>1, <1>4, FindCachedFacts DEF ClaimLoad
  <2>2. LoadNext \in Nat
    <3>1. estimate_load_time(chunks[loadIndex], t) \in Nat
      BY <1>1, <1>4, <2>1, EstimatesAreNat DEF ClaimLoad
    <3> QED BY <1>2, <3>1 DEF LoadNext
  <2>3. plan' \in Seq(Decision) /\ DOMAIN plan' = DOMAIN plan
    BY <1>1, <1>4, <2>1, CommitPlan, DecisionFacts DEF ClaimLoad
  <2> QED BY <1>1, <1>2, <1>4, <2>2, <2>3 DEF ClaimLoad, Scanning, ScheduleTypeOK
<1>5. CASE ClaimCompute
  <2>1. ComputeNext \in Nat
    BY SMTT(30), <1>1, <1>2, <1>5, EstimatesAreNat DEF ComputeNext, ClaimCompute
  <2>2. plan' \in Seq(Decision) /\ DOMAIN plan' = DOMAIN plan
    BY <1>1, <1>5, CommitPlan, DecisionFacts DEF ClaimCompute
  <2> QED BY <1>1, <1>2, <1>5, <2>1, <2>2 DEF ClaimCompute, Scanning, ScheduleTypeOK
<1>6. CASE FrontsCross
  BY <1>1, <1>2, <1>6 DEF FrontsCross, frontVars, ScheduleTypeOK
<1>7. CASE SweepChunk
  <2>1. sweepIndex \in DOMAIN chunks /\ chunks[sweepIndex] \in Chunk
    BY <1>1, <1>2, <1>7 DEF SweepChunk
  <2>2. computeTime + estimate_compute_time(chunks[sweepIndex]) \in Nat
    BY <1>2, <2>1, EstimatesAreNat
  <2>3. plan' \in Seq(Decision) /\ DOMAIN plan' = DOMAIN plan
    <3>1. CASE plan' = plan
      BY <1>1, <3>1
    <3>2. CASE plan' = [plan EXCEPT ![sweepIndex] = Recompute]
      <4>1. sweepIndex \in DOMAIN plan
        BY <1>1, <1>7, <2>1 DEF SweepChunk
      <4> QED BY <3>2, <4>1, CommitPlan, DecisionFacts
    <3> QED BY <1>7, <3>1, <3>2 DEF SweepChunk
  <2> QED BY <1>1, <1>2, <1>7, <2>2, <2>3 DEF SweepChunk, ScheduleTypeOK
<1>8. CASE SweepDone
  BY <1>1, <1>2, <1>8 DEF SweepDone, frontVars, ScheduleTypeOK
<1> QED BY <1>3, <1>4, <1>5, <1>6, <1>7, <1>8 DEF CakeStep

-----------------------------------------------------------------------------
(* The split.                                                              *)

\* What the next iteration of the splitting loops needs to know of the chunks
\* so far: they end where it continues, and the shared prefix is being cut on
\* the grid of ChunkSize.
Tiling ==
  /\ request.doc \in Documents
  /\ request.shared <= request.prompt
  /\ \A i \in DOMAIN chunks :
       /\ chunks[i].idx = i - 1
       /\ chunks[i].start = IF i = 1 THEN 0 ELSE chunks[i - 1].end
       /\ token_count(chunks[i]) <= ChunkSize
       /\ token_count(chunks[i]) < ChunkSize =>
            chunks[i].end \in {request.shared, request.prompt}
       /\ \/ /\ chunks[i].end <= request.shared
             /\ chunks[i].cid = request.doc
             /\ chunks[i].start = chunks[i].idx * ChunkSize
          \/ /\ chunks[i].start >= request.shared
             /\ chunks[i].cid = private_cache_id(request)
  /\ pos = IF chunks = <<>> THEN 0 ELSE chunks[Len(chunks)].end
  /\ pos <= request.prompt
  /\ pos < request.shared => pos = Len(chunks) * ChunkSize
  /\ phase # "split" => pos = request.prompt

LEMMA NextProduct ==
  ASSUME NEW n \in Nat
  PROVE  (n + 1) * ChunkSize = n * ChunkSize + ChunkSize /\ n * ChunkSize \in Nat
<1>1. ChunkSize \in Nat
  BY DEF ChunkingAssumption
<1> QED BY <1>1

\* An iteration of either loop.
LEMMA SplitTiles ==
  ASSUME ScheduleTypeOK, Tiling, SplitStep
  PROVE  Tiling'
<1>1. /\ request.doc \in Nat /\ request.shared \in Nat /\ request.prompt \in Nat
      /\ private_cache_id(request) \in Nat /\ pos \in Nat
      /\ chunks \in Seq(Chunk) /\ Len(chunks) \in Nat /\ DOMAIN chunks = 1 .. Len(chunks)
      /\ ChunkSize \in Nat \ {0}
  BY SMTT(30) DEF ScheduleTypeOK, Request, private_cache_id, ChunkingAssumption
<1>2. phase = "split" /\ phase' = phase /\ request' = request
  BY DEF SplitStep, SplitShared, SplitPrivate
<1>3. PICK cid \in Nat, limit \in Nat :
        /\ AppendChunk(NextChunk(cid, limit))
        /\ \/ pos < request.shared /\ cid = request.doc /\ limit = request.shared
           \/ /\ pos >= request.shared /\ pos < request.prompt
              /\ cid = private_cache_id(request) /\ limit = request.prompt
  BY <1>1 DEF SplitStep, SplitShared, SplitPrivate
<1> DEFINE c == NextChunk(cid, limit)
<1>4. pos < limit /\ limit <= request.prompt
  BY <1>1, <1>3 DEF Tiling
<1>5. /\ c \in Chunk /\ c.idx = Len(chunks) /\ c.start = pos /\ c.end \in pos + 1 .. limit
      /\ c.cid = cid /\ c.end = MinOf(pos + ChunkSize, limit)
  BY <1>4, NextChunkFacts DEF NextChunk
<1>6. /\ token_count(c) <= ChunkSize
      /\ token_count(c) < ChunkSize => c.end = limit
      /\ c.end < limit => c.end = pos + ChunkSize
  <2> HIDE DEF c
  <2>1. token_count(c) = c.end - pos /\ c.end \in Nat
    BY <1>1, <1>5 DEF token_count
  <2>2. CASE pos + ChunkSize <= limit
    <3>1. c.end = pos + ChunkSize
      BY <1>5, <2>2 DEF MinOf
    <3> QED BY SMTT(30), <1>1, <1>5, <2>1, <2>2, <3>1
  <2>3. CASE ~(pos + ChunkSize <= limit)
    <3>1. c.end = limit
      BY <1>5, <2>3 DEF MinOf
    <3> QED BY SMTT(30), <1>1, <1>5, <2>1, <2>3, <3>1
  <2> QED BY <2>2, <2>3
<1> HIDE DEF c
<1>7. /\ chunks' = Append(chunks, c) /\ pos' = c.end
      /\ Len(chunks') = Len(chunks) + 1 /\ DOMAIN chunks' = 1 .. Len(chunks) + 1
      /\ \A i \in 1 .. Len(chunks) : chunks'[i] = chunks[i]
      /\ chunks'[Len(chunks) + 1] = c /\ chunks' # <<>>
  <2>1. chunks' = Append(chunks, c) /\ pos' = c.end
    BY <1>3 DEF AppendChunk, c
  <2>2. /\ Len(Append(chunks, c)) = Len(chunks) + 1
        /\ \A i \in 1 .. Len(chunks) : Append(chunks, c)[i] = chunks[i]
        /\ Append(chunks, c)[Len(chunks) + 1] = c
        /\ Append(chunks, c) \in Seq(Chunk)
    BY <1>1, <1>5, AppendProperties
  <2>3. DOMAIN Append(chunks, c) = 1 .. Len(chunks) + 1 /\ Append(chunks, c) # <<>>
    <3> DEFINE s == Append(chunks, c)
    <3>1. s \in Seq(Chunk) /\ Len(s) = Len(chunks) + 1
      BY <2>2
    <3> HIDE DEF s
    <3>2. DOMAIN s = 1 .. Len(s) /\ (s = <<>> => Len(s) = 0)
      BY <3>1, LenProperties
    <3> QED BY <1>1, <3>1, <3>2 DEF s
  <2> QED BY <2>1, <2>2, <2>3
<1>8. chunks # <<>> => Len(chunks) \in DOMAIN chunks /\ pos = chunks[Len(chunks)].end
  BY <1>1 DEF Tiling
<1>9. chunks = <<>> => Len(chunks) = 0 /\ pos = 0
  BY <1>1 DEF Tiling
<1>10. ASSUME NEW i \in DOMAIN chunks'
       PROVE  /\ chunks'[i].idx = i - 1
              /\ chunks'[i].start = IF i = 1 THEN 0 ELSE chunks'[i - 1].end
              /\ token_count(chunks'[i]) <= ChunkSize
              /\ token_count(chunks'[i]) < ChunkSize =>
                   chunks'[i].end \in {request.shared, request.prompt}
              /\ \/ /\ chunks'[i].end <= request.shared
                    /\ chunks'[i].cid = request.doc
                    /\ chunks'[i].start = chunks'[i].idx * ChunkSize
                 \/ /\ chunks'[i].start >= request.shared
                    /\ chunks'[i].cid = private_cache_id(request)
  <2>1. CASE i \in 1 .. Len(chunks)
    <3>1. chunks'[i] = chunks[i] /\ (i # 1 => chunks'[i - 1] = chunks[i - 1])
      BY <1>1, <1>7, <2>1
    <3> QED BY <1>1, <2>1, <3>1 DEF Tiling
  <2>2. CASE i = Len(chunks) + 1
    <3>1. chunks'[i] = c /\ (i # 1 => chunks'[i - 1] = chunks[Len(chunks)])
      <4>1. i - 1 = Len(chunks) /\ (i # 1 => i - 1 \in 1 .. Len(chunks))
        BY <1>1, <2>2
      <4> QED BY <1>7, <2>2, <4>1
    <3>2. c.idx = i - 1 /\ c.start = IF i = 1 THEN 0 ELSE chunks'[i - 1].end
      BY <1>1, <1>5, <1>8, <1>9, <2>2, <3>1
    <3>3. \/ /\ c.end <= request.shared /\ c.cid = request.doc
             /\ c.start = c.idx * ChunkSize /\ limit = request.shared
          \/ /\ c.start >= request.shared /\ c.cid = private_cache_id(request)
             /\ limit = request.prompt
      BY <1>1, <1>3, <1>5 DEF Tiling
    <3> QED BY <1>6, <3>1, <3>2, <3>3
  <2> QED BY SMTT(30), <1>1, <1>7, <2>1, <2>2
<1>11. pos' = IF chunks' = <<>> THEN 0 ELSE chunks'[Len(chunks')].end
  BY <1>7
<1>12. pos' <= request.prompt
  BY <1>1, <1>4, <1>5, <1>7
<1>13. ASSUME pos' < request.shared PROVE pos' = Len(chunks') * ChunkSize
  <2>1. pos < request.shared /\ limit = request.shared /\ c.end < limit
    BY <1>1, <1>3, <1>4, <1>5, <1>7, <1>13
  <2>2. pos' = Len(chunks) * ChunkSize + ChunkSize
    BY <1>1, <1>6, <1>7, <2>1 DEF Tiling
  <2> QED BY <1>1, <1>7, <2>2, NextProduct
<1>14. request'.doc \in Documents /\ request'.shared <= request'.prompt
  BY <1>2 DEF Tiling
<1>15. private_cache_id(request)' = private_cache_id(request)
  BY <1>2 DEF private_cache_id
<1> QED BY <1>2, <1>10, <1>11, <1>12, <1>13, <1>14, <1>15 DEF Tiling, private_cache_id

\* The end of the split, and every later step of the same prefill.
LEMMA SplitDoneTiles ==
  ASSUME ScheduleTypeOK, Tiling, SplitDone
  PROVE  Tiling'
<1>1. pos \in Nat /\ request.prompt \in Nat
  BY DEF ScheduleTypeOK, Request
<1>2. pos = request.prompt
  BY <1>1 DEF Tiling, SplitDone
<1> QED BY <1>2 DEF Tiling, SplitDone, private_cache_id

LEMMA SameTiling ==
  ASSUME Tiling, UNCHANGED <<request, pos, chunks>>, phase # "split" \/ phase' = phase
  PROVE  Tiling'
  BY DEF Tiling, private_cache_id

=============================================================================
