---------------------------- MODULE PrefillProofs ---------------------------
(***************************************************************************)
(* The stream of prefills: its types; scheduled loads never fail and the   *)
(* write-through tiers cover whatever any tier covers; capacities are kept *)
(* and equal keys start at the same token, so that hits hold full ranges;  *)
(* what LRU keeps of a prompt; that prefills run out, and do not fail.     *)
(***************************************************************************)
EXTENDS PrefixRefinement, CacheTheorems, ScheduleTheorems

ControlTypeOK ==
  /\ phase \in Phases
  /\ served \in Nat /\ cursor \in Nat \ {0} /\ wtCursor \in Nat \ {0}
  /\ evictionCount \in Nat /\ coverageMisses \in Nat
  /\ error \in Errors

\* What type correctness rests on: the plan has one operation per chunk, the
\* I/O front stays within the prompt, only the two storing phases leave a
\* store unfinished, and a chunk is being stored or written through for the
\* chunk under the cursor.
Bookkeeping ==
  /\ phase # "split" => DOMAIN plan = DOMAIN chunks
  /\ phase = "scan" => loadIndex <= Len(chunks)
  /\ Idle \/ phase \in {"coldLoads", "recompute"}
  /\ ~Idle \/ phase = "writeThrough" => cursor \in DOMAIN chunks

TypeInv == CacheInv /\ ScheduleTypeOK /\ ControlTypeOK /\ Bookkeeping

LEMMA TypeInvImpliesTypeOK == TypeInv => TypeOK
  BY DEF TypeInv, CacheInv, ControlTypeOK, TypeOK

\* The constants' assumptions that the steps use.
USE ChunkingAssumption, TierAssumption, WorkloadAssumption, CostAssumption,
    WriteThroughAssumption

LEMMA InitTypes == Init => TypeInv
<1> SUFFICES ASSUME Init PROVE TypeInv
  OBVIOUS
<1> USE DEF Init
<1>1. CacheInv
  <2>1. /\ DOMAIN tiers = Tiers
        /\ \A t \in Tiers : tiers[t] = EmptyDict
        /\ GPU \in Tiers
    BY DEF Tiers
  <2>2. IsDict(EmptyDict, Extent) /\ DOMAIN EmptyDict = {}
    BY DEF EmptyDict, IsDict
  <2>3. PolicyTypeOK /\ order \in Seq(CacheKey) /\ evicted \in Seq(CacheKey)
        /\ pending = NoChunk
    BY DEF CacheInit, PolicyInit, PolicyTypeOK, IsDict
  <2> QED BY <2>1, <2>2, <2>3
          DEF CacheInv, CacheTypeOK, PolicyTypeOK, OrderListsTier
<1>2. ScheduleTypeOK
  BY DEF ScheduleTypeOK, Request
<1>3. ControlTypeOK
  BY DEF ControlTypeOK, Phases, Errors
<1>4. Bookkeeping
  BY DEF Bookkeeping, CacheInit, Idle
<1> QED BY <1>1, <1>2, <1>3, <1>4 DEF TypeInv

\* Steps that touch neither the tiers nor the manager.
LEMMA SameCache ==
  ASSUME CacheInv, UNCHANGED <<tiers, managerVars>>
  PROVE  CacheInv' /\ pending' = pending
  BY DEF CacheInv, CacheTypeOK, OrderListsTier, managerVars

LEMMA ArriveTypes == TypeInv /\ Arrive => TypeInv'
<1> SUFFICES ASSUME TypeInv, Arrive PROVE TypeInv'
  OBVIOUS
<1>1. CacheInv' /\ pending' = pending
  BY SameCache DEF TypeInv, Arrive
<1>2. ScheduleTypeOK'
  <2>1. request' \in RequestsOf(served)
    BY DEF Arrive
  <2>2. DocumentsFor(served) \subseteq Nat
    BY DEF DocumentsFor, Documents, ChunkingAssumption, TypeInv, ControlTypeOK
  <2>3. request' \in Request
    BY SMTT(30), <2>1, <2>2 DEF RequestsOf, Request, WorkloadAssumption, TypeInv, ControlTypeOK
  <2> QED BY <2>3 DEF ScheduleTypeOK, Arrive, FrontsReset
<1>3. ControlTypeOK'
  BY DEF TypeInv, ControlTypeOK, Phases, Arrive
<1>4. Bookkeeping'
  BY <1>1 DEF TypeInv, Bookkeeping, Idle, Arrive, FrontsReset
<1> QED BY <1>1, <1>2, <1>3, <1>4 DEF TypeInv

LEMMA SplitTypes == TypeInv /\ Split => TypeInv'
<1> SUFFICES ASSUME TypeInv, Split PROVE TypeInv'
  OBVIOUS
<1>1. CacheInv' /\ pending' = pending
  BY SameCache DEF TypeInv, Split
<1>2. PICK cid \in Nat, limit \in Nat :
        pos < limit /\ AppendChunk(NextChunk(cid, limit))
  <2>1. /\ request.doc \in Nat /\ request.shared \in Nat /\ request.prompt \in Nat
        /\ private_cache_id(request) \in Nat
    BY SMTT(30) DEF TypeInv, ScheduleTypeOK, Request, private_cache_id, ChunkingAssumption
  <2>2. CASE SplitShared
    BY <2>1, <2>2 DEF SplitShared
  <2>3. CASE SplitPrivate
    BY <2>1, <2>3 DEF SplitPrivate
  <2> QED BY <2>2, <2>3 DEF Split, SplitStep
<1>3. phase = "split" /\ phase' = phase /\ request' = request
  BY DEF Split, SplitStep, SplitShared, SplitPrivate
<1>4. ScheduleTypeOK'
  <2>1. chunks' \in Seq(Chunk) /\ pos' \in Nat
    BY <1>2, NextChunkFacts, ChunkFields DEF AppendChunk, TypeInv, ScheduleTypeOK
  <2> QED BY <1>3, <2>1 DEF TypeInv, ScheduleTypeOK, Split, frontVars
<1>5. ControlTypeOK'
  BY <1>3 DEF TypeInv, ControlTypeOK, Split, countVars
<1>6. Bookkeeping'
  BY <1>1, <1>3 DEF TypeInv, Bookkeeping, Idle
<1> QED BY <1>1, <1>4, <1>5, <1>6 DEF TypeInv

\* The chunks and the plan of the current prompt, as ScheduleTheorems has them.
LEMMA TypeInvShape == TypeInv => ScheduleShape
  BY DEF TypeInv, ScheduleShape, Bookkeeping

LEMMA ScheduleFacts ==
  ASSUME TypeInv
  PROVE  /\ chunks \in Seq(Chunk) /\ plan \in Seq(Decision)
         /\ DOMAIN chunks = 1 .. Len(chunks) /\ Len(chunks) \in Nat
         /\ phase # "split" => DOMAIN plan = 1 .. Len(chunks)
         /\ Scanning => /\ loadIndex \in DOMAIN chunks /\ computeIndex \in DOMAIN chunks
                        /\ loadIndex \in DOMAIN plan /\ computeIndex \in DOMAIN plan
                        /\ chunks[loadIndex] \in Chunk /\ chunks[computeIndex] \in Chunk
  BY TypeInvShape, PlanFacts

LEMMA CommitFacts ==
  ASSUME TypeInv, NEW i \in DOMAIN plan, NEW d \in Decision,
         plan' = [plan EXCEPT ![i] = d]
  PROVE  /\ plan' \in Seq(Decision) /\ DOMAIN plan' = DOMAIN plan
         /\ plan'[i] = d
         /\ \A j \in DOMAIN plan : j # i => plan'[j] = plan[j]
  BY TypeInvShape, CommitPlan

LEMMA CakeTypes ==
  ASSUME TypeInv, CakeStep, UNCHANGED <<request, pos, chunks>>
  PROVE  /\ ScheduleTypeOK'
         /\ phase' \in {"scan", "sweep", "scheduled"}
         /\ phase # "split"
         /\ DOMAIN plan' = DOMAIN plan
         /\ phase' = "scan" => loadIndex' <= Len(chunks)
         /\ phase \in {"scan", "sweep"}
  BY TypeInvShape, CakeShape

LEMMA ScheduleTypes == TypeInv /\ Schedule => TypeInv'
<1> SUFFICES ASSUME TypeInv, Schedule PROVE TypeInv'
  OBVIOUS
<1>1. CacheInv' /\ pending' = pending
  BY SameCache DEF TypeInv, Schedule
<1>2. /\ chunks \in Seq(Chunk) /\ DOMAIN chunks = 1 .. Len(chunks) /\ Len(chunks) \in Nat
      /\ chunks' = chunks
      /\ \A i \in DOMAIN chunks : chunks[i] \in Chunk
  BY ScheduleFacts DEF Schedule, StartScan, SplitDone
<1>3. phase \in {"split", "scan", "sweep"}
  BY CakeTypes DEF Schedule, StartScan, SplitDone
<1>4. /\ ScheduleTypeOK'
      /\ phase' \in {"scan", "sweep", "scheduled"}
      /\ DOMAIN plan' = DOMAIN chunks
      /\ phase' = "scan" => loadIndex' <= Len(chunks)
  <2>1. CASE StartScan
    <3>1. plan' \in Seq(Decision) /\ DOMAIN plan' = DOMAIN chunks
      BY <1>2, <2>1, DecisionFacts DEF StartScan
    <3> QED BY <1>2, <2>1, <3>1 DEF StartScan, SplitDone, TypeInv, ScheduleTypeOK, Phases
  <2>2. CASE UseCake /\ CakeStep /\ UNCHANGED <<request, pos, chunks>>
    BY <2>2, CakeTypes DEF TypeInv, Bookkeeping
  <2>3. CASE /\ ~UseCake
             /\ phase = "scan"
             /\ plan' = [i \in DOMAIN chunks |-> choose_for_chunk(chunks[i])]
             /\ phase' = "scheduled"
             /\ UNCHANGED <<request, pos, chunks, frontVars>>
    <3>1. \A i \in DOMAIN chunks : choose_for_chunk(chunks[i]) \in Decision
      BY <1>2, ChooseFacts
    <3>2. plan' \in Seq(Decision) /\ DOMAIN plan' = DOMAIN chunks
      BY <1>2, <2>3, <3>1
    <3> QED BY <1>2, <2>3, <3>2 DEF TypeInv, ScheduleTypeOK, frontVars, Phases
  <2> QED BY <2>1, <2>2, <2>3 DEF Schedule
<1>5. ControlTypeOK'
  BY <1>4 DEF TypeInv, ControlTypeOK, Schedule, countVars, Phases
<1>6. Bookkeeping'
  BY <1>1, <1>2, <1>3, <1>4 DEF TypeInv, Bookkeeping, Idle
<1> QED BY <1>1, <1>4, <1>5, <1>6 DEF TypeInv

\* Steps that carry the schedule out do not change it.
LEMMA SameSchedule ==
  ASSUME ScheduleTypeOK, UNCHANGED scheduleVars
  PROVE  /\ ScheduleTypeOK'
         /\ chunks' = chunks /\ plan' = plan /\ served' = served /\ request' = request
  BY DEF ScheduleTypeOK, scheduleVars, frontVars

\* The chunk under the cursor, and where a planned load takes it from.
LEMMA CursorFacts ==
  ASSUME TypeInv, NEW p, At(p), p # "split"
  PROVE  /\ cursor \in DOMAIN chunks /\ cursor \in DOMAIN plan
         /\ chunks[cursor] \in Chunk /\ plan[cursor] \in Decision
         /\ Loads(cursor) => plan[cursor].source \in Tiers
<1>1. cursor \in DOMAIN chunks /\ cursor \in DOMAIN plan
  BY ScheduleFacts DEF At, TypeInv, ControlTypeOK
<1>2. chunks[cursor] \in Chunk /\ plan[cursor] \in Decision
  BY <1>1, ScheduleFacts
<1>3. Loads(cursor) => plan[cursor].source \in Tiers
  BY <1>2 DEF Loads, Decision, Load, Recompute, Unscheduled
<1> QED BY <1>1, <1>2, <1>3

\* The chunk that a cold load brings in is the one its tier stores.
LEMMA StoredSourceFacts ==
  ASSUME TypeInv, NEW i \in DOMAIN chunks, Loads(i),
         plan[i].source \in Tiers, Present(plan[i].source, Key(i))
  PROVE  /\ StoredSource(i) \in Chunk
         /\ cache_key(StoredSource(i)) = Key(i)
         /\ StoredSource(i).start = tiers[plan[i].source][Key(i)].start
         /\ StoredSource(i).end = coverage(tiers[plan[i].source], Key(i))
<1>1. chunks[i] \in Chunk
  BY ScheduleFacts
<1>2. tiers[plan[i].source][Key(i)] \in Extent
  BY DEF TypeInv, CacheInv, CacheTypeOK, IsDict, Present
<1> QED BY <1>1, <1>2 DEF StoredSource, Chunk, Extent, cache_key, Key, coverage, Present

LEMMA ControlStepTypes ==
  ASSUME TypeInv, CacheInv', UNCHANGED scheduleVars,
         pending' = NoChunk \/ phase' \in {"coldLoads", "recompute"},
         phase \notin {"split", "scan"}, phase' \in Phases \ {"split", "scan"},
         pending' # NoChunk \/ phase' = "writeThrough" => cursor' \in DOMAIN chunks,
         cursor' \in Nat \ {0}, wtCursor' \in Nat \ {0},
         evictionCount' \in Nat, coverageMisses' \in Nat, error' \in Errors
  PROVE  TypeInv'
<1>1. ScheduleTypeOK' /\ chunks' = chunks /\ plan' = plan /\ served' = served
  BY SameSchedule DEF TypeInv
<1>2. ControlTypeOK'
  BY <1>1 DEF TypeInv, ControlTypeOK
<1>3. Bookkeeping'
  BY <1>1 DEF TypeInv, Bookkeeping, Idle
<1> QED BY <1>1, <1>2, <1>3 DEF TypeInv

LEMMA MaterialiseTypes == TypeInv /\ Materialise => TypeInv'
<1> SUFFICES ASSUME TypeInv, Materialise PROVE TypeInv'
  OBVIOUS
<1>1. /\ CacheInv /\ phase \in Phases
      /\ cursor \in Nat \ {0} /\ cursor + 1 \in Nat \ {0}
      /\ wtCursor \in Nat \ {0} /\ wtCursor + 1 \in Nat \ {0}
      /\ evictionCount \in Nat /\ coverageMisses \in Nat /\ error \in Errors
      /\ Idle \/ phase \in {"coldLoads", "recompute"}
      /\ ~Idle \/ phase = "writeThrough" => cursor \in DOMAIN chunks
  BY DEF TypeInv, ControlTypeOK, Bookkeeping
<1>2. CASE BeginMaterialise
  <2>1. CacheInv' /\ pending' = pending
    BY <1>1, <1>2, SameCache DEF BeginMaterialise
  <2>2. phase = "scheduled" /\ phase' = "gpuLoads" /\ cursor' = 1
    BY <1>2 DEF BeginMaterialise, GoTo, PhaseAfter
  <2> QED BY <1>1, <1>2, <2>1, <2>2, ControlStepTypes
          DEF BeginMaterialise, countVars, Phases, Idle
<1>3. CASE EndOfPhase
  <2>1. CacheInv' /\ pending' = pending
    BY <1>1, <1>3, SameCache DEF EndOfPhase
  <2>2. /\ phase \in {"gpuLoads", "coldLoads", "recompute"} /\ cursor' = 1
        /\ phase' \in {"coldLoads", "recompute", "idle"}
    BY <1>3 DEF EndOfPhase, GoTo, PhaseAfter
  <2> QED BY <1>1, <1>3, <2>1, <2>2, ControlStepTypes
          DEF EndOfPhase, countVars, Phases, Idle
<1>4. CASE SkipOther
  <2>1. CacheInv' /\ pending' = pending
    BY <1>1, <1>4, SameCache DEF SkipOther
  <2>2. /\ phase \in {"gpuLoads", "coldLoads", "recompute"} /\ phase' = phase
        /\ cursor' = cursor + 1 /\ Idle
    BY <1>4 DEF SkipOther, At, Advance
  <2> QED BY <1>1, <1>4, <2>1, <2>2, ControlStepTypes
          DEF SkipOther, countVars, Phases, Idle
<1>5. CASE GpuLoad
  <2>1. CacheInv' /\ pending' = pending
    BY <1>1, <1>5, AccessFacts DEF GpuLoad
  <2>2. /\ phase = "gpuLoads" /\ phase' \in {"gpuLoads", "failed"}
        /\ cursor' \in {cursor, cursor + 1} /\ error' \in {error, "missing"} /\ Idle
    BY <1>5 DEF GpuLoad, At, Advance, Raise
  <2> QED BY <1>1, <1>5, <2>1, <2>2, ControlStepTypes
          DEF GpuLoad, countVars, Phases, Idle, Errors
<1>6. CASE ColdLoad
  <2>1. /\ phase = "coldLoads" /\ phase' \in {"coldLoads", "failed"}
        /\ cursor' \in {cursor, cursor + 1} /\ Idle
        /\ error' \in {error, "missing", "oversized"}
    BY <1>6 DEF ColdLoad, At, StoreLoaded, Fail, Raise, Advance
  <2>2. CacheInv' /\ (pending' = NoChunk \/ phase' = "coldLoads")
    <3>1. CASE UNCHANGED <<tiers, managerVars>>
      BY <1>1, <2>1, <3>1, SameCache DEF Idle
    <3>2. CASE store(StoredSource(cursor)) /\ Present(plan[cursor].source, Key(cursor))
               /\ phase' = phase
      <4>1. StoredSource(cursor) \in Chunk
        BY <1>6, <3>2, CursorFacts, StoredSourceFacts DEF ColdLoad
      <4> QED BY <1>1, <2>1, <3>2, <4>1, StoreFacts
    <3> QED BY <1>6, <3>1, <3>2 DEF ColdLoad, StoreLoaded, Fail, Advance
  <2>3. cursor \in DOMAIN chunks /\ (pending' # NoChunk => cursor' = cursor)
    <3>1. cursor \in DOMAIN chunks
      BY <1>6, CursorFacts DEF ColdLoad
    <3>2. CASE cursor' # cursor
      <4>1. Present(GPU, cache_key(StoredSource(cursor))) /\ store(StoredSource(cursor))
        BY <1>1, <1>6, <3>2 DEF ColdLoad, StoreLoaded, Fail, Raise
      <4>2. pending' = NoChunk
        BY <2>1, <4>1 DEF store, KeepResident, Idle
      <4> QED BY <3>1, <4>2
    <3> QED BY <3>1, <3>2
  <2> QED BY <1>1, <1>6, <2>1, <2>2, <2>3, ControlStepTypes
          DEF ColdLoad, countVars, Phases, Errors
<1>7. CASE Recomputes
  <2>1. /\ phase = "recompute" /\ phase' \in {"recompute", "writeThrough", "failed"}
        /\ cursor' = cursor /\ wtCursor' \in {wtCursor, 1}
        /\ error' \in {error, "oversized"} /\ Idle
        /\ coverageMisses' \in {coverageMisses, coverageMisses + 1}
        /\ evictionCount' = evictionCount
    BY <1>1, <1>7 DEF Recomputes, At, BeginWriteThrough, Fail, Raise
  <2>2. CacheInv' /\ (pending' = NoChunk \/ phase' = "recompute")
    <3>1. CASE UNCHANGED <<tiers, managerVars>>
      BY <1>1, <2>1, <3>1, SameCache DEF Idle
    <3>2. CASE /\ store_replacing(chunks[cursor])
               /\ pending' = NoChunk \/ phase' = phase
      <4>1. chunks[cursor] \in Chunk
        BY <1>7, CursorFacts DEF Recomputes
      <4> QED BY <1>1, <2>1, <3>2, <4>1, StoreFacts
    <3> QED BY <1>7, <3>1, <3>2 DEF Recomputes, Fail
  <2>3. UNCHANGED scheduleVars /\ cursor \in DOMAIN chunks
    BY <1>7, CursorFacts DEF Recomputes
  <2>4. phase \notin {"split", "scan"} /\ phase' \in Phases \ {"split", "scan"}
        /\ error' \in Errors
    BY <1>1, <2>1 DEF Phases, Errors
  <2>5. cursor' \in Nat \ {0} /\ wtCursor' \in Nat \ {0} /\ evictionCount' \in Nat
        /\ coverageMisses' \in Nat
    BY <1>1, <2>1
  <2>6. pending' = NoChunk \/ phase' \in {"coldLoads", "recompute"}
    BY <2>2
  <2>7. cursor' \in DOMAIN chunks
    BY <2>1, <2>3
  <2> QED BY <2>2, <2>3, <2>4, <2>5, <2>6, <2>7, ControlStepTypes
<1>8. CASE MakeRoom
  <2>1. CacheInv' /\ pending' = pending
    BY <1>1, <1>8, EvictVictimFacts DEF MakeRoom
  <2>2. /\ phase \in {"coldLoads", "recompute"} /\ phase' = phase
        /\ cursor \in DOMAIN chunks
    BY <1>1, <1>8 DEF MakeRoom, EvictVictim
  <2> QED BY <1>1, <1>8, <2>1, <2>2, ControlStepTypes DEF MakeRoom, countVars, Phases
<1>9. CASE FinishStore
  <2>1. CacheInv' /\ pending' = NoChunk
    BY <1>1, <1>9, InsertPendingFacts DEF FinishStore
  <2>2. /\ phase \in {"coldLoads", "recompute"}
        /\ phase' \in {"coldLoads", "writeThrough"}
        /\ cursor' \in {cursor, cursor + 1} /\ wtCursor' \in {wtCursor, 1}
        /\ phase' = "writeThrough" => cursor' = cursor /\ cursor \in DOMAIN chunks
    BY <1>1, <1>9 DEF FinishStore, InsertPending, Advance, BeginWriteThrough
  <2>3. evictionCount' \in Nat
    BY <1>1, <1>9 DEF FinishStore, CacheInv, CacheTypeOK
  <2> QED BY SMTT(30), <1>1, <1>9, <2>1, <2>2, <2>3, ControlStepTypes DEF FinishStore, Phases
<1>10. CASE WriteThroughOne
  <2> DEFINE t == WriteThrough[wtCursor]
  <2>1. t \in Tiers /\ t # GPU /\ chunks[cursor] \in Chunk
    <3>1. phase = "writeThrough" /\ wtCursor \in 1 .. Len(WriteThrough)
      <4>1. phase = "writeThrough" /\ wtCursor <= Len(WriteThrough)
        BY <1>10 DEF WriteThroughOne
      <4>2. Len(WriteThrough) \in Nat
        BY LenProperties DEF WriteThroughAssumption
      <4> QED BY <1>1, <4>1, <4>2
    <3>2. t \in ColdTiers
      BY <3>1 DEF WriteThroughAssumption
    <3>3. chunks[cursor] \in Chunk
      BY <1>1, <3>1, ScheduleFacts
    <3> QED BY <3>2, <3>3 DEF Tiers, TierAssumption
  <2>2. IsDict(upsert(t, tiers[t], chunks[cursor]), Extent)
    BY <1>1, <2>1, UpsertFacts DEF CacheInv, CacheTypeOK
  <2>3. /\ tiers' = [tiers EXCEPT ![t] = upsert(t, tiers[t], chunks[cursor])]
        /\ UNCHANGED managerVars
    BY <1>10 DEF WriteThroughOne
  <2>4. CacheInv'
    BY <1>1, <2>1, <2>2, <2>3
       DEF CacheInv, CacheTypeOK, OrderListsTier, managerVars, Tiers
  <2>5. /\ phase = "writeThrough" /\ phase' \in {phase, "failed"} /\ cursor' = cursor
        /\ wtCursor' \in {wtCursor, wtCursor + 1}
        /\ error' \in {error, "exceeds capacity"} /\ UNCHANGED <<scheduleVars, countVars>>
    BY <1>10 DEF WriteThroughOne, Raise
  <2>6. pending' = NoChunk
    BY <1>1, <2>3, <2>5 DEF Idle, managerVars
  <2> QED BY <1>1, <2>4, <2>5, <2>6, ControlStepTypes DEF countVars, Phases, Errors
<1>11. CASE WriteThroughDone
  <2>1. CacheInv' /\ pending' = pending
    BY <1>1, <1>11, SameCache DEF WriteThroughDone
  <2>2. phase = "writeThrough" /\ phase' = "recompute" /\ cursor' = cursor + 1 /\ Idle
    BY <1>1, <1>11 DEF WriteThroughDone
  <2> QED BY <1>1, <1>11, <2>1, <2>2, ControlStepTypes
          DEF WriteThroughDone, countVars, Phases, Idle
<1> QED BY <1>2, <1>3, <1>4, <1>5, <1>6, <1>7, <1>8, <1>9, <1>10, <1>11 DEF Materialise

LEMMA TypeStep == TypeInv /\ [Next]_vars => TypeInv'
<1>1. TypeInv /\ UNCHANGED vars => TypeInv'
  <2> SUFFICES ASSUME TypeInv, UNCHANGED vars PROVE TypeInv'
    OBVIOUS
  <2>1. CacheInv' /\ pending' = pending
    BY SameCache DEF vars, TypeInv
  <2>2. ScheduleTypeOK' /\ chunks' = chunks /\ plan' = plan
    BY SameSchedule DEF vars, TypeInv, scheduleVars, chunkingVars
  <2> QED BY <2>1, <2>2
          DEF vars, TypeInv, ControlTypeOK, Bookkeeping, Idle, chunkingVars,
              frontVars, countVars
<1> QED BY <1>1, ArriveTypes, SplitTypes, ScheduleTypes, MaterialiseTypes
        DEF Next, Prefill

\* Every reachable state is well typed.
THEOREM TypeCorrect == Spec => []TypeOK
<1>1. Init => TypeInv
  BY InitTypes
<1>2. TypeInv /\ [Next]_vars => TypeInv'
  BY TypeStep
<1>3. TypeInv => TypeOK
  BY TypeInvImpliesTypeOK
<1> QED BY <1>1, <1>2, <1>3, PTL DEF Spec

-----------------------------------------------------------------------------
(* Planned loads and write-through.                                        *)

\* From the end of the sweep on every chunk is loaded or recomputed.
PlanInv ==
  /\ phase = "split" => plan = <<>>
  /\ phase \in {"split", "scan"} => sweepIndex = 1
  /\ phase = "sweep" => \A i \in DOMAIN plan : i < sweepIndex => Scheduled(i)
  /\ phase \in {"scheduled", "gpuLoads", "coldLoads", "recompute", "writeThrough", "idle"} =>
       \A i \in DOMAIN plan : Scheduled(i)

\* A load that is still to come finds its tier covering the chunk.
LoadsInv ==
  /\ \A i \in DOMAIN plan : LoadPending(i) => Covers(plan[i].source, chunks[i])
  /\ error # "missing"

WrittenBy(j) == tiers[WriteThrough[j]]

\* What a write-through tier covers less than another tier is about to be
\* written to it.
DominanceInv ==
  phase # "failed" =>
    \A t \in Tiers, j \in DOMAIN WriteThrough : \A key \in DOMAIN tiers[t] :
      \/ coverage(tiers[t], key) <= coverage(WrittenBy(j), key)
      \/ /\ BeingWritten(key) /\ wtCursor <= j
         /\ coverage(tiers[t], key) <= chunks[cursor].end

\* The chunk of an unfinished store: one that the write-through tiers cover
\* already, or the one they are about to be given.
PendingInv ==
  ~Idle =>
    /\ phase = "coldLoads" =>
         \A j \in DOMAIN WriteThrough :
           pending.end <= coverage(WrittenBy(j), cache_key(pending))
    /\ phase = "recompute" => pending = chunks[cursor]

\* Write-through tier j covers chunk i by now.
WarmBy(i, j) ==
  \/ Loads(i)
  \/ phase = "idle"
  \/ phase \in {"recompute", "writeThrough"} /\ i < cursor
  \/ phase = "writeThrough" /\ i = cursor /\ j < wtCursor

WarmInv ==
  phase # "failed" =>
    \A i \in DOMAIN plan, j \in DOMAIN WriteThrough :
      WarmBy(i, j) => Covers(WriteThrough[j], chunks[i])

SafetyInv == PlanInv /\ LoadsInv /\ DominanceInv /\ PendingInv /\ WarmInv

LEMMA WriteThroughFacts ==
  ASSUME NEW j \in DOMAIN WriteThrough
  PROVE  WriteThrough[j] \in ColdTiers /\ WriteThrough[j] \in Tiers
  BY DEF WriteThroughAssumption, Tiers

\* No write-through is under way, or all its tiers have been written.
Settled ==
  /\ phase # "failed"
  /\ phase = "writeThrough" => wtCursor > Len(WriteThrough)

\* Then the write-through tiers cover what any tier covers.
LEMMA StrictDominance ==
  ASSUME TypeInv, DominanceInv, Settled,
         NEW t \in Tiers, NEW j \in DOMAIN WriteThrough, NEW key
  PROVE  coverage(tiers[t], key) <= coverage(WrittenBy(j), key)
<1>1. IsDict(tiers[t], Extent) /\ IsDict(WrittenBy(j), Extent)
  BY WriteThroughFacts DEF TypeInv, CacheInv, CacheTypeOK, WrittenBy
<1>2. CASE key \in DOMAIN tiers[t]
  <2>1. wtCursor <= j => phase # "writeThrough"
    BY LenProperties DEF Settled, WriteThroughAssumption, TypeInv, ControlTypeOK
  <2> QED BY <1>2, <2>1 DEF DominanceInv, BeingWritten, Settled
<1>3. CASE key \notin DOMAIN tiers[t]
  BY SMTT(30), <1>1, <1>3, CoverageFacts DEF coverage
<1> QED BY <1>2, <1>3

\* It stays so while only the GPU changes, and covers less.
LEMMA ShrinkDominance ==
  ASSUME TypeInv, DominanceInv, Settled,
         \A t \in ColdTiers : tiers'[t] = tiers[t],
         \A k : coverage(tiers'[GPU], k) <= coverage(tiers[GPU], k),
         TypeInv'
  PROVE  DominanceInv'
<1> SUFFICES ASSUME NEW t \in Tiers, NEW j \in DOMAIN WriteThrough,
                    NEW key \in DOMAIN tiers'[t]
             PROVE  coverage(tiers'[t], key) <= coverage(WrittenBy(j), key)'
  BY DEF DominanceInv
<1>1. coverage(tiers[t], key) <= coverage(WrittenBy(j), key)
  BY StrictDominance
<1>2. WrittenBy(j)' = WrittenBy(j)
  BY WriteThroughFacts DEF WrittenBy
<1>3. /\ coverage(tiers'[t], key) \in Nat /\ coverage(tiers[t], key) \in Nat
      /\ coverage(WrittenBy(j), key) \in Nat
  BY CoverageFacts, WriteThroughFacts DEF TypeInv, CacheInv, CacheTypeOK, WrittenBy
<1>4. coverage(tiers'[t], key) <= coverage(tiers[t], key)
  <2>1. CASE t = GPU
    BY <2>1
  <2>2. CASE t \in ColdTiers
    <3>1. coverage(tiers'[t], key) = coverage(tiers[t], key)
      BY <2>2
    <3> QED BY <1>3, <3>1
  <2> QED BY <2>1, <2>2 DEF Tiers
<1> QED BY <1>1, <1>2, <1>3, <1>4

\* What is warm stays warm while the cold tiers do not change.
LEMMA WarmFrame ==
  ASSUME TypeInv, WarmInv, phase # "failed", plan' = plan, chunks' = chunks,
         \A t \in ColdTiers : tiers'[t] = tiers[t],
         \A i \in DOMAIN plan, j \in DOMAIN WriteThrough : WarmBy(i, j)' => WarmBy(i, j)
  PROVE  WarmInv'
<1> SUFFICES ASSUME NEW i \in DOMAIN plan, NEW j \in DOMAIN WriteThrough, WarmBy(i, j)'
             PROVE  Covers(WriteThrough[j], chunks[i])'
  BY DEF WarmInv
<1>1. Covers(WriteThrough[j], chunks[i])
  BY DEF WarmInv
<1> QED BY <1>1, WriteThroughFacts DEF Covers

LEMMA InitSafety == Init => SafetyInv
<1> SUFFICES ASSUME Init PROVE SafetyInv
  OBVIOUS
<1>1. /\ phase = "idle" /\ plan = <<>> /\ error = "none" /\ Idle
      /\ \A t \in Tiers : DOMAIN tiers[t] = {}
  BY DEF Init, CacheInit, Idle, EmptyDict
<1> QED BY SMTT(30), <1>1 DEF SafetyInv, PlanInv, LoadsInv, DominanceInv, PendingInv, WarmInv

LEMMA ArriveSafety == TypeInv /\ SafetyInv /\ TypeInv' /\ Arrive => SafetyInv'
<1> SUFFICES ASSUME TypeInv, SafetyInv, TypeInv', Arrive PROVE SafetyInv'
  OBVIOUS
<1>1. /\ phase = "idle" /\ phase' = "split" /\ plan' = <<>> /\ sweepIndex' = 1
      /\ tiers' = tiers /\ pending' = pending /\ error' = error
  BY DEF Arrive, FrontsReset, managerVars
<1>2. DominanceInv'
  <2>1. \A k : coverage(tiers'[GPU], k) <= coverage(tiers[GPU], k)
    BY <1>1, CoverageFacts DEF TypeInv, CacheInv, CacheTypeOK, Tiers
  <2> QED BY <1>1, <2>1, ShrinkDominance DEF SafetyInv, Settled
<1>3. PlanInv' /\ LoadsInv' /\ WarmInv'
  BY <1>1 DEF SafetyInv, PlanInv, LoadsInv, WarmInv
<1>4. PendingInv'
  BY <1>1 DEF TypeInv, Bookkeeping, PendingInv, Idle
<1> QED BY <1>2, <1>3, <1>4 DEF SafetyInv

LEMMA SplitSafety == TypeInv /\ SafetyInv /\ TypeInv' /\ Split => SafetyInv'
<1> SUFFICES ASSUME TypeInv, SafetyInv, TypeInv', Split PROVE SafetyInv'
  OBVIOUS
<1>1. /\ phase = "split" /\ phase' = "split" /\ plan = <<>> /\ plan' = <<>>
      /\ sweepIndex' = sweepIndex
      /\ tiers' = tiers /\ pending' = pending /\ error' = error
  BY DEF Split, SplitStep, SplitShared, SplitPrivate, managerVars, frontVars,
         SafetyInv, PlanInv
<1>2. DominanceInv'
  <2>1. \A k : coverage(tiers'[GPU], k) <= coverage(tiers[GPU], k)
    BY <1>1, CoverageFacts DEF TypeInv, CacheInv, CacheTypeOK, Tiers
  <2> QED BY <1>1, <2>1, ShrinkDominance DEF SafetyInv, Settled
<1>3. PlanInv' /\ LoadsInv' /\ WarmInv'
  BY <1>1 DEF SafetyInv, PlanInv, LoadsInv, WarmInv
<1>4. PendingInv'
  BY <1>1 DEF TypeInv, Bookkeeping, PendingInv, Idle
<1> QED BY <1>2, <1>3, <1>4 DEF SafetyInv

\* A decision to load names a tier.
LEMMA LoadSource ==
  ASSUME NEW d \in Decision, d.action = "load"
  PROVE  d.source \in Tiers /\ d # Unscheduled
  BY DEF Decision, Load, Recompute, Unscheduled

\* Scheduling steps neither read nor write what carrying out a plan changes.
LEMMA ScheduleFrame ==
  ASSUME TypeInv, Schedule
  PROVE  /\ tiers' = tiers /\ pending' = pending /\ error' = error /\ chunks' = chunks
         /\ phase \in {"split", "scan", "sweep"}
         /\ phase' \in {"scan", "sweep", "scheduled"}
  BY CakeTypes DEF Schedule, StartScan, SplitDone, managerVars

\* A load in the plan was there before, or it is one from where the lookup
\* finds the chunk.
LEMMA PlannedSource ==
  ASSUME TypeInv, Schedule,
         NEW i \in DOMAIN plan', plan'[i].action = "load"
  PROVE  \/ i \in DOMAIN plan /\ plan'[i] = plan[i] /\ phase \in {"scan", "sweep"}
         \/ /\ chunks[i] \in Chunk /\ find_cached(chunks[i]) # NoTier
            /\ plan'[i].source = find_cached(chunks[i])
<1>1. CASE StartScan
  BY <1>1 DEF StartScan, Unscheduled
<1>2. CASE UseCake /\ CakeStep /\ UNCHANGED <<request, pos, chunks>>
  <2>1. DOMAIN plan' = DOMAIN plan /\ phase \in {"scan", "sweep"}
    BY <1>2, CakeTypes
  <2>2. CASE ClaimLoad
    <3> DEFINE t == find_cached(chunks[loadIndex])
    <3>1. /\ loadIndex \in DOMAIN plan /\ chunks[loadIndex] \in Chunk /\ t # NoTier
          /\ plan' = [plan EXCEPT ![loadIndex] = Load(t)]
      BY <2>2, ScheduleFacts DEF ClaimLoad
    <3>2. t \in Tiers
      BY <3>1, FindCachedFacts
    <3>3. plan'[loadIndex] = Load(t) /\ (i # loadIndex => plan'[i] = plan[i])
      BY <2>1, <3>1, <3>2, DecisionFacts, CommitFacts
    <3> QED BY <2>1, <3>1, <3>3 DEF Load
  <2>3. CASE ~ClaimLoad
    <3>1. plan'[i] = plan[i] \/ plan'[i] = Recompute
      <4>1. CASE plan' = plan
        BY <4>1
      <4>2. CASE \E k \in DOMAIN plan : plan' = [plan EXCEPT ![k] = Recompute]
        BY <2>1, <4>2, DecisionFacts, CommitFacts
      <4>3. CASE ClaimCompute
        <5>1. computeIndex \in DOMAIN plan
          BY <4>3, ScheduleFacts DEF ClaimCompute
        <5> QED BY <4>2, <4>3, <5>1 DEF ClaimCompute
      <4>4. CASE SweepChunk
        <5>1. sweepIndex \in DOMAIN plan
          BY <4>4, ScheduleFacts DEF SweepChunk, TypeInv, ScheduleTypeOK
        <5> QED BY <4>1, <4>2, <4>4, <5>1 DEF SweepChunk
      <4> QED BY <1>2, <2>3, <4>1, <4>3, <4>4
              DEF CakeStep, SkipUncached, FrontsCross, SweepDone, frontVars
    <3> QED BY <2>1, <3>1 DEF Recompute
  <2> QED BY <2>2, <2>3
<1>3. CASE plan' = [k \in DOMAIN chunks |-> choose_for_chunk(chunks[k])]
  <2>1. i \in DOMAIN chunks /\ plan'[i] = choose_for_chunk(chunks[i])
    BY <1>3
  <2>2. chunks[i] \in Chunk
    BY <2>1, ScheduleFacts
  <2> QED BY <2>1, <2>2 DEF choose_for_chunk, Load, Recompute
<1> QED BY <1>1, <1>2, <1>3 DEF Schedule

\* A load is planned only from a tier that covers the chunk.
LEMMA PlannedLoads ==
  ASSUME TypeInv, LoadsInv, Schedule,
         NEW i \in DOMAIN plan', plan'[i].action = "load"
  PROVE  Covers(plan'[i].source, chunks[i])
<1>1. CASE i \in DOMAIN plan /\ plan'[i] = plan[i] /\ phase \in {"scan", "sweep"}
  BY <1>1 DEF LoadsInv, LoadPending, Loads
<1>2. CASE /\ chunks[i] \in Chunk /\ find_cached(chunks[i]) # NoTier
           /\ plan'[i].source = find_cached(chunks[i])
  BY <1>2, FindCachedFacts
<1> QED BY <1>1, <1>2, PlannedSource

\* The sweep leaves no chunk unscheduled.
LEMMA SchedulePlan == TypeInv /\ PlanInv /\ Schedule => PlanInv'
<1> SUFFICES ASSUME TypeInv, PlanInv, Schedule PROVE PlanInv'
  OBVIOUS
<1>1. /\ phase \in {"split", "scan", "sweep"} /\ phase' \in {"scan", "sweep", "scheduled"}
      /\ sweepIndex \in Nat \ {0} /\ Len(chunks) \in Nat
      /\ phase # "split" => DOMAIN plan = 1 .. Len(chunks)
      /\ \A i \in DOMAIN chunks : chunks[i] \in Chunk
  BY ScheduleFrame, ScheduleFacts DEF TypeInv, ScheduleTypeOK
<1>2. CASE StartScan
  BY <1>2 DEF StartScan, SplitDone, PlanInv
<1>3. CASE SkipUncached \/ ClaimLoad \/ ClaimCompute
  <2>1. phase = "scan" /\ phase' = "scan" /\ sweepIndex' = sweepIndex
    BY <1>3 DEF SkipUncached, ClaimLoad, ClaimCompute, Scanning
  <2> QED BY <2>1 DEF PlanInv
<1>4. CASE FrontsCross
  BY <1>1, <1>4 DEF FrontsCross, frontVars, PlanInv
<1>5. CASE SweepChunk
  <2>1. /\ phase = "sweep" /\ phase' = "sweep" /\ sweepIndex' = sweepIndex + 1
        /\ sweepIndex \in DOMAIN plan
    BY <1>1, <1>5 DEF SweepChunk
  <2>2. /\ DOMAIN plan' = DOMAIN plan /\ plan'[sweepIndex] # Unscheduled
        /\ \A i \in DOMAIN plan : i # sweepIndex => plan'[i] = plan[i]
    <3>1. CASE plan' = plan /\ Scheduled(sweepIndex)
      BY <3>1 DEF Scheduled
    <3>2. CASE plan' = [plan EXCEPT ![sweepIndex] = Recompute]
      BY <2>1, <3>2, CommitFacts, DecisionFacts DEF Recompute, Unscheduled
    <3> QED BY <1>5, <3>1, <3>2 DEF SweepChunk
  <2>3. ASSUME NEW i \in DOMAIN plan, i < sweepIndex + 1
        PROVE  plan'[i] # Unscheduled
    <3>1. i < sweepIndex => plan[i] # Unscheduled
      BY <2>1 DEF PlanInv, Scheduled
    <3>2. i < sweepIndex \/ i = sweepIndex
      BY <1>1, <2>1, <2>3
    <3> QED BY <2>2, <3>1, <3>2
  <2> QED BY <2>1, <2>2, <2>3 DEF PlanInv, Scheduled
<1>6. CASE SweepDone
  <2>1. /\ phase = "sweep" /\ phase' = "scheduled" /\ plan' = plan
        /\ \A i \in DOMAIN plan : i < sweepIndex
    BY <1>1, <1>6 DEF SweepDone
  <2> QED BY <2>1 DEF PlanInv, Scheduled
<1>7. CASE /\ plan' = [k \in DOMAIN chunks |-> choose_for_chunk(chunks[k])]
           /\ phase' = "scheduled"
  <2>1. \A i \in DOMAIN plan' : plan'[i] # Unscheduled
    BY <1>1, <1>7, ChooseFacts
  <2> QED BY <1>7, <2>1 DEF PlanInv, Scheduled
<1> QED BY <1>2, <1>3, <1>4, <1>5, <1>6, <1>7 DEF Schedule, CakeStep

LEMMA ScheduleSafety == TypeInv /\ SafetyInv /\ TypeInv' /\ Schedule => SafetyInv'
<1> SUFFICES ASSUME TypeInv, SafetyInv, TypeInv', Schedule PROVE SafetyInv'
  OBVIOUS
<1>1. /\ tiers' = tiers /\ pending' = pending /\ error' = error /\ chunks' = chunks
      /\ phase \in {"split", "scan", "sweep"}
      /\ phase' \in {"scan", "sweep", "scheduled"}
  BY ScheduleFrame
<1>2. DominanceInv'
  <2>1. \A k : coverage(tiers'[GPU], k) <= coverage(tiers[GPU], k)
    BY <1>1, CoverageFacts DEF TypeInv, CacheInv, CacheTypeOK, Tiers
  <2> QED BY <1>1, <2>1, ShrinkDominance DEF SafetyInv, Settled
<1>3. PlanInv'
  BY SchedulePlan DEF SafetyInv
<1>4. LoadsInv'
  <2>1. \A i \in DOMAIN plan' :
          plan'[i].action = "load" => Covers(plan'[i].source, chunks[i])
    BY PlannedLoads DEF SafetyInv
  <2> QED BY <1>1, <2>1 DEF SafetyInv, LoadsInv, LoadPending, Loads, Covers
<1>5. PendingInv'
  BY <1>1 DEF TypeInv, Bookkeeping, PendingInv, Idle
<1>6. WarmInv'
  <2> SUFFICES ASSUME NEW i \in DOMAIN plan', NEW j \in DOMAIN WriteThrough,
                      WarmBy(i, j)'
               PROVE  Covers(WriteThrough[j], chunks[i])'
    BY DEF WarmInv
  <2> DEFINE t == plan'[i].source
             key == cache_key(chunks[i])
  <2>1. plan'[i].action = "load"
    BY <1>1 DEF WarmBy, Loads
  <2>2. Covers(t, chunks[i])
    BY <2>1, PlannedLoads DEF SafetyInv
  <2>3. t \in Tiers /\ chunks[i] \in Chunk
    <3>1. plan'[i] \in Decision /\ i \in DOMAIN chunks
      BY <1>1 DEF TypeInv, ScheduleTypeOK, Bookkeeping
    <3> QED BY <2>1, <3>1, LoadSource, ScheduleFacts
  <2>4. coverage(tiers[t], key) <= coverage(WrittenBy(j), key)
    BY <1>1, <2>3, StrictDominance DEF SafetyInv, Settled
  <2>5. /\ coverage(tiers[t], key) \in Nat /\ coverage(WrittenBy(j), key) \in Nat
        /\ chunks[i].end \in Nat
    BY <2>3, ChunkFields, CoverageFacts, WriteThroughFacts
       DEF TypeInv, CacheInv, CacheTypeOK, WrittenBy
  <2> QED BY <1>1, <2>2, <2>4, <2>5 DEF Covers, WrittenBy
<1> QED BY <1>2, <1>3, <1>4, <1>5, <1>6 DEF SafetyInv

\* A step that carries the plan out, adds no coverage to the GPU, leaves the
\* cold tiers alone, and starts no load and no guarantee of its own.
LEMMA FrameSafety ==
  ASSUME TypeInv, SafetyInv, TypeInv', Settled, UNCHANGED scheduleVars,
         \A t \in ColdTiers : tiers'[t] = tiers[t],
         \A k : coverage(tiers'[GPU], k) <= coverage(tiers[GPU], k),
         error' = error, PendingInv',
         phase \notin {"idle", "split", "scan", "sweep"},
         phase' \notin {"split", "scan", "sweep", "scheduled"},
         \A i \in DOMAIN plan :
           LoadPending(i)' => /\ LoadPending(i)
                              /\ tiers' = tiers \/ plan[i].source # GPU,
         \A i \in DOMAIN plan, j \in DOMAIN WriteThrough : WarmBy(i, j)' => WarmBy(i, j)
  PROVE  SafetyInv'
<1>1. plan' = plan /\ chunks' = chunks
  BY SameSchedule DEF TypeInv
<1>2. PlanInv'
  <2>1. \A i \in DOMAIN plan : Scheduled(i)
    BY DEF SafetyInv, PlanInv, TypeInv, ControlTypeOK, Phases, Settled
  <2> QED BY <1>1, <2>1 DEF PlanInv, Scheduled
<1>3. LoadsInv'
  <2> SUFFICES ASSUME NEW i \in DOMAIN plan, LoadPending(i)'
               PROVE  Covers(plan[i].source, chunks[i])'
    BY <1>1 DEF LoadsInv, SafetyInv
  <2>1. LoadPending(i) /\ Covers(plan[i].source, chunks[i])
    BY DEF SafetyInv, LoadsInv
  <2>2. tiers'[plan[i].source] = tiers[plan[i].source]
    <3>1. plan[i].source \in Tiers
      BY <2>1, LoadSource DEF LoadPending, Loads, TypeInv, ScheduleTypeOK
    <3> QED BY <3>1 DEF Tiers
  <2> QED BY <1>1, <2>1, <2>2 DEF Covers
<1>4. DominanceInv' /\ WarmInv'
  BY <1>1, ShrinkDominance, WarmFrame DEF SafetyInv, Settled
<1> QED BY <1>2, <1>3, <1>4 DEF SafetyInv

\* A run that fails, but not on a missing chunk.
LEMMA FailSafety ==
  ASSUME phase' = "failed", error' # "missing"
  PROVE  SafetyInv'
  BY DEF SafetyInv, PlanInv, LoadsInv, LoadPending, DominanceInv, PendingInv, WarmInv

\* The chunk a load is about to read is there.
LEMMA LoadFinds ==
  ASSUME TypeInv, SafetyInv, At("gpuLoads") \/ At("coldLoads"), Loads(cursor),
         phase = "gpuLoads" <=> plan[cursor].source = GPU
  PROVE  /\ plan[cursor].source \in Tiers
         /\ cursor \in DOMAIN plan /\ chunks[cursor] \in Chunk
         /\ Present(plan[cursor].source, Key(cursor))
<1>1. /\ cursor \in DOMAIN plan /\ chunks[cursor] \in Chunk
      /\ plan[cursor].source \in Tiers
  BY CursorFacts
<1>2. LoadPending(cursor)
  BY DEF At, LoadPending, TypeInv, ControlTypeOK
<1>3. Covers(plan[cursor].source, chunks[cursor])
  BY <1>1, <1>2 DEF SafetyInv, LoadsInv
<1>4. coverage(tiers[plan[cursor].source], Key(cursor)) > 0
  <2>1. coverage(tiers[plan[cursor].source], Key(cursor)) \in Nat
    BY <1>1, CoverageFacts DEF TypeInv, CacheInv, CacheTypeOK
  <2>2. chunks[cursor].start \in Nat /\ chunks[cursor].end \in Nat
        /\ chunks[cursor].start < chunks[cursor].end
    BY <1>1, ChunkFields
  <2>3. coverage(tiers[plan[cursor].source], Key(cursor)) >= chunks[cursor].end
    BY <1>3 DEF Covers, Key
  <2> QED BY <2>1, <2>2, <2>3
<1>5. Present(plan[cursor].source, Key(cursor))
  BY <1>1, <1>4, CoverageFacts DEF TypeInv, CacheInv, CacheTypeOK, Present
<1> QED BY <1>1, <1>5

\* Tiers that do not change keep what they cover.
LEMMA SameTiers ==
  ASSUME TypeInv, tiers' = tiers
  PROVE  /\ \A t \in ColdTiers : tiers'[t] = tiers[t]
         /\ \A k : coverage(tiers'[GPU], k) <= coverage(tiers[GPU], k)
  BY CoverageFacts DEF TypeInv, CacheInv, CacheTypeOK, Tiers

LEMMA ControlSafety ==
  ASSUME TypeInv, SafetyInv, TypeInv',
         BeginMaterialise \/ EndOfPhase \/ SkipOther \/ WriteThroughDone
  PROVE  SafetyInv'
<1>1. /\ cursor \in Nat \ {0} /\ wtCursor \in Nat \ {0} /\ Len(WriteThrough) \in Nat
      /\ DOMAIN WriteThrough = 1 .. Len(WriteThrough)
  BY LenProperties DEF TypeInv, ControlTypeOK, WriteThroughAssumption
<1>2. /\ UNCHANGED scheduleVars /\ tiers' = tiers /\ error' = error
      /\ pending' = pending /\ plan' = plan /\ chunks' = chunks
  BY DEF BeginMaterialise, EndOfPhase, SkipOther, WriteThroughDone, managerVars,
         scheduleVars
<1>3. /\ phase \in {"scheduled", "gpuLoads", "coldLoads", "recompute", "writeThrough"}
      /\ phase' \in {"gpuLoads", "coldLoads", "recompute", "idle"}
      /\ Settled /\ Idle
  BY DEF BeginMaterialise, EndOfPhase, SkipOther, WriteThroughDone, GoTo, PhaseAfter,
         At, Advance, Settled, TypeInv, Bookkeeping
<1>4. PendingInv'
  BY <1>2, <1>3 DEF PendingInv, Idle
<1>5. /\ phase # "split" /\ DOMAIN plan = 1 .. Len(chunks) /\ Len(chunks) \in Nat
      /\ \A i \in DOMAIN plan : plan[i] \in Decision /\ Scheduled(i)
  BY <1>3, ScheduleFacts DEF SafetyInv, PlanInv
<1>6. ASSUME NEW i \in DOMAIN plan
      PROVE  LoadPending(i)' => LoadPending(i)
  <2>1. CASE BeginMaterialise
    BY <1>2, <2>1 DEF BeginMaterialise, LoadPending, Loads
  <2>2. CASE EndOfPhase
    BY <1>2, <2>2 DEF EndOfPhase, GoTo, PhaseAfter, LoadPending, Loads
  <2>3. CASE SkipOther
    BY <1>1, <1>2, <1>5, <2>3 DEF SkipOther, At, Advance, LoadPending, Loads
  <2>4. CASE WriteThroughDone
    BY <1>2, <2>4 DEF WriteThroughDone, LoadPending
  <2> QED BY <2>1, <2>2, <2>3, <2>4
<1>7. ASSUME NEW i \in DOMAIN plan, NEW j \in DOMAIN WriteThrough, WarmBy(i, j)'
      PROVE  WarmBy(i, j)
  <2>1. CASE BeginMaterialise
    BY <1>2, <1>7, <2>1 DEF BeginMaterialise, GoTo, PhaseAfter, WarmBy, Loads
  <2>2. CASE EndOfPhase
    <3>1. phase = "recompute" => i < cursor
      BY <1>1, <1>5, <2>2 DEF EndOfPhase
    <3>2. phase' = "idle" => phase = "recompute"
      BY <2>2 DEF EndOfPhase, GoTo, PhaseAfter
    <3>3. ~(i < 1)
      BY <1>5
    <3> QED BY <1>2, <1>3, <1>7, <2>2, <3>1, <3>2, <3>3
            DEF EndOfPhase, GoTo, WarmBy, Loads
  <2>3. CASE SkipOther
    <3>1. phase' = phase /\ cursor' = cursor + 1
      BY <2>3 DEF SkipOther, Advance
    <3>2. phase = "recompute" /\ i = cursor => Loads(i)
      BY <1>5, <2>3 DEF SkipOther, At, Loads, Scheduled, Decision, Load, Recompute
    <3>3. i < cursor + 1 => i < cursor \/ i = cursor
      BY <1>1, <1>5
    <3> QED BY <1>2, <1>3, <1>7, <3>1, <3>2, <3>3 DEF WarmBy, Loads
  <2>4. CASE WriteThroughDone
    <3>1. /\ phase = "writeThrough" /\ phase' = "recompute" /\ cursor' = cursor + 1
          /\ j < wtCursor
      BY <1>1, <2>4 DEF WriteThroughDone
    <3>2. i < cursor + 1 => i < cursor \/ i = cursor
      BY <1>1, <1>5
    <3> QED BY <1>2, <1>7, <3>1, <3>2 DEF WarmBy, Loads
  <2> QED BY <2>1, <2>2, <2>3, <2>4
<1> QED BY <1>2, <1>3, <1>4, <1>6, <1>7, SameTiers, FrameSafety

\* Phase 1 finds its chunk in the GPU and changes no tier.
LEMMA GpuLoadSafety ==
  ASSUME TypeInv, SafetyInv, TypeInv', GpuLoad
  PROVE  SafetyInv'
<1>1. /\ phase = "gpuLoads" /\ Idle /\ At("gpuLoads") /\ Loads(cursor)
      /\ plan[cursor].source = GPU /\ UNCHANGED scheduleVars
      /\ plan' = plan /\ chunks' = chunks
  BY DEF GpuLoad, At, scheduleVars
<1>2. tiers' = tiers /\ pending' = pending
  BY AccessFacts DEF GpuLoad, TypeInv
<1>3. phase' = phase /\ cursor' = cursor + 1 /\ error' = error
  BY <1>1, LoadFinds DEF GpuLoad, Advance
<1>4. ASSUME NEW i \in DOMAIN plan
      PROVE  LoadPending(i)' => LoadPending(i)
  <2>1. cursor \in Nat /\ i \in Nat
    BY <1>1, ScheduleFacts DEF TypeInv, ControlTypeOK
  <2> QED BY <1>1, <1>3, <2>1 DEF LoadPending, Loads
<1>5. \A i \in DOMAIN plan, j \in DOMAIN WriteThrough : WarmBy(i, j)' => WarmBy(i, j)
  BY <1>1, <1>3 DEF WarmBy, Loads
<1>6. PendingInv' /\ Settled
  BY <1>1, <1>2, <1>3 DEF PendingInv, Idle, Settled
<1> QED BY <1>1, <1>2, <1>3, <1>4, <1>5, <1>6, SameTiers, FrameSafety

\* Phase 2 finds its chunk in the cold tier; what it starts to store there is
\* covered by the write-through tiers.
LEMMA ColdLoadSafety ==
  ASSUME TypeInv, SafetyInv, TypeInv', ColdLoad
  PROVE  SafetyInv'
<1> DEFINE c == StoredSource(cursor)
           t == plan[cursor].source
<1>1. /\ phase = "coldLoads" /\ Idle /\ At("coldLoads") /\ Loads(cursor)
      /\ t # GPU /\ UNCHANGED scheduleVars
      /\ plan' = plan /\ chunks' = chunks /\ Settled
  BY DEF ColdLoad, At, scheduleVars, Settled
<1>2. /\ t \in Tiers /\ Present(t, Key(cursor)) /\ cursor \in DOMAIN plan
      /\ cursor \in DOMAIN chunks
  BY <1>1, LoadFinds, CursorFacts
<1>3. StoreLoaded(c)
  BY <1>2 DEF ColdLoad
<1>4. CASE Oversized(c)
  BY <1>3, <1>4, FailSafety DEF StoreLoaded, Fail, Raise
<1>5. CASE ~Oversized(c)
  <2>1. /\ store(c) /\ error' = error /\ phase' = phase
        /\ cursor' = cursor \/ cursor' = cursor + 1
    BY <1>3, <1>5 DEF StoreLoaded, Advance
  <2>2. c \in Chunk /\ c.end = coverage(tiers[t], cache_key(c))
    BY <1>1, <1>2, StoredSourceFacts
  <2>3. /\ \A u \in ColdTiers : tiers'[u] = tiers[u]
        /\ \A k : coverage(tiers'[GPU], k) <= coverage(tiers[GPU], k)
        /\ pending' \in {c, NoChunk}
    BY <2>1, <2>2, StoreFacts DEF TypeInv
  <2>4. PendingInv'
    <3> SUFFICES ASSUME NEW j \in DOMAIN WriteThrough
                 PROVE  c.end <= coverage(WrittenBy(j)', cache_key(c))
      BY <1>1, <2>1, <2>3 DEF PendingInv, Idle
    <3>1. WrittenBy(j)' = WrittenBy(j)
      BY <2>3, WriteThroughFacts DEF WrittenBy
    <3>2. coverage(tiers[t], cache_key(c)) <= coverage(WrittenBy(j), cache_key(c))
      BY <1>1, <1>2, StrictDominance DEF SafetyInv
    <3> QED BY <2>2, <3>1, <3>2
  <2>5. ASSUME NEW i \in DOMAIN plan, LoadPending(i)'
        PROVE  LoadPending(i) /\ plan[i].source # GPU
    <3>1. cursor \in Nat /\ i \in Nat
      BY <1>1, ScheduleFacts DEF TypeInv, ControlTypeOK
    <3> QED BY <1>1, <2>1, <2>5, <3>1 DEF LoadPending, Loads
  <2>6. \A i \in DOMAIN plan, j \in DOMAIN WriteThrough : WarmBy(i, j)' => WarmBy(i, j)
    BY <1>1, <2>1 DEF WarmBy, Loads
  <2> QED BY <1>1, <2>1, <2>3, <2>4, <2>5, <2>6, FrameSafety
<1> QED BY <1>4, <1>5

\* Phase 3 starts to store the chunk, or keeps a resident that covers it.
LEMMA RecomputeSafety ==
  ASSUME TypeInv, SafetyInv, TypeInv', Recomputes
  PROVE  SafetyInv'
<1>1. /\ phase = "recompute" /\ Idle /\ UNCHANGED scheduleVars
      /\ plan' = plan /\ chunks' = chunks /\ chunks[cursor] \in Chunk /\ Settled
  BY CursorFacts DEF Recomputes, At, scheduleVars, Settled
<1>2. CASE Fail("oversized")
  BY <1>2, FailSafety DEF Fail, Raise
<1>3. CASE store_replacing(chunks[cursor]) /\ ~Fail("oversized")
  <2>1. /\ cursor' = cursor /\ error' = error
        /\ \/ pending' = NoChunk /\ phase' = "writeThrough" /\ wtCursor' = 1
           \/ pending' # NoChunk /\ phase' = phase
    BY <1>3 DEF Recomputes, BeginWriteThrough
  <2>2. /\ \A u \in ColdTiers : tiers'[u] = tiers[u]
        /\ \A k : coverage(tiers'[GPU], k) <= coverage(tiers[GPU], k)
        /\ pending' \in {chunks[cursor], NoChunk}
    BY <1>1, <1>3, StoreFacts DEF TypeInv
  <2>3. PendingInv'
    BY <1>1, <2>1, <2>2 DEF PendingInv, Idle
  <2>4. \A i \in DOMAIN plan : ~LoadPending(i)'
    BY <1>1, <2>1 DEF LoadPending
  <2>5. ASSUME NEW i \in DOMAIN plan, NEW j \in DOMAIN WriteThrough, WarmBy(i, j)'
        PROVE  WarmBy(i, j)
    <3>1. ~(j < 1)
      BY LenProperties DEF WriteThroughAssumption
    <3> QED BY <1>1, <2>1, <2>5, <3>1 DEF WarmBy, Loads
  <2> QED BY <1>1, <2>1, <2>2, <2>3, <2>4, <2>5, FrameSafety
<1> QED BY <1>2, <1>3 DEF Recomputes

\* An eviction takes from the GPU only.
LEMMA MakeRoomSafety ==
  ASSUME TypeInv, SafetyInv, TypeInv', MakeRoom
  PROVE  SafetyInv'
<1>1. /\ ~Idle /\ phase \in {"coldLoads", "recompute"} /\ UNCHANGED scheduleVars
      /\ phase' = phase /\ cursor' = cursor /\ error' = error
      /\ plan' = plan /\ chunks' = chunks /\ Settled
  BY DEF MakeRoom, EvictVictim, scheduleVars, TypeInv, Bookkeeping, Settled
<1>2. /\ \A u \in ColdTiers : tiers'[u] = tiers[u]
      /\ \A k : coverage(tiers'[GPU], k) <= coverage(tiers[GPU], k)
      /\ pending' = pending
  BY EvictVictimFacts DEF MakeRoom, TypeInv
<1>3. PendingInv'
  <2>1. \A j \in DOMAIN WriteThrough : WrittenBy(j)' = WrittenBy(j)
    BY <1>2, WriteThroughFacts DEF WrittenBy
  <2> QED BY <1>1, <1>2, <2>1 DEF SafetyInv, PendingInv, Idle
<1>4. \A i \in DOMAIN plan :
        LoadPending(i)' => LoadPending(i) /\ plan[i].source # GPU
  BY <1>1 DEF LoadPending, Loads
<1>5. \A i \in DOMAIN plan, j \in DOMAIN WriteThrough : WarmBy(i, j)' => WarmBy(i, j)
  BY <1>1 DEF WarmBy, Loads
<1> QED BY <1>1, <1>2, <1>3, <1>4, <1>5, FrameSafety

\* The store returns: a loaded chunk is covered by the write-through tiers, a
\* recomputed one is next to be written to them.
LEMMA FinishStoreSafety ==
  ASSUME TypeInv, SafetyInv, TypeInv', FinishStore
  PROVE  SafetyInv'
<1> DEFINE key == cache_key(pending)
<1>1. /\ ~Idle /\ phase \in {"coldLoads", "recompute"} /\ Settled
      /\ plan' = plan /\ chunks' = chunks /\ error' = error /\ sweepIndex' = sweepIndex
      /\ \/ phase = "coldLoads" /\ phase' = phase /\ cursor' = cursor + 1
         \/ /\ phase = "recompute" /\ phase' = "writeThrough"
            /\ cursor' = cursor /\ wtCursor' = 1
  BY DEF FinishStore, InsertPending, Advance, BeginWriteThrough, scheduleVars,
         frontVars, TypeInv, Bookkeeping, Settled
<1>2. /\ pending \in Chunk /\ pending' = NoChunk
      /\ tiers'[GPU] = put(tiers[GPU], pending)
      /\ \A u \in ColdTiers : tiers'[u] = tiers[u]
  BY InsertPendingFacts DEF FinishStore, TypeInv
<1>3. /\ coverage(tiers'[GPU], key) = pending.end
      /\ \A k : k # key => coverage(tiers'[GPU], k) = coverage(tiers[GPU], k)
  <2>1. IsDict(tiers[GPU], Extent)
    BY DEF TypeInv, CacheInv, CacheTypeOK, Tiers
  <2> DEFINE after == put(tiers[GPU], pending)
  <2>2. /\ coverage(after, key) = pending.end
        /\ \A k : k # key => coverage(after, k) = coverage(tiers[GPU], k)
    BY ZenonT(30), <1>2, <2>1, PutFacts
  <2>3. tiers'[GPU] = after
    BY <1>2
  <2> HIDE DEF after
  <2> QED BY <2>2, <2>3
<1>4. \A j \in DOMAIN WriteThrough : WrittenBy(j)' = WrittenBy(j)
  BY <1>2, WriteThroughFacts DEF WrittenBy
<1>5. DominanceInv'
  <2> SUFFICES ASSUME NEW t \in Tiers, NEW j \in DOMAIN WriteThrough,
                      NEW k \in DOMAIN tiers'[t]
               PROVE  \/ coverage(tiers'[t], k) <= coverage(WrittenBy(j)', k)
                      \/ /\ BeingWritten(k)' /\ wtCursor' <= j
                         /\ coverage(tiers'[t], k) <= chunks'[cursor'].end
    BY DEF DominanceInv
  <2>1. coverage(tiers[t], k) <= coverage(WrittenBy(j), k)
    BY <1>1, StrictDominance DEF SafetyInv
  <2>2. CASE t # GPU \/ k # key
    <3>1. coverage(tiers'[t], k) = coverage(tiers[t], k)
      BY <1>2, <1>3, <2>2 DEF Tiers
    <3> QED BY <1>4, <2>1, <3>1
  <2>3. CASE t = GPU /\ k = key /\ phase = "coldLoads"
    BY <1>1, <1>3, <1>4, <2>3 DEF SafetyInv, PendingInv
  <2>4. CASE t = GPU /\ k = key /\ phase = "recompute"
    <3>1. pending = chunks[cursor]
      BY <1>1, <2>4 DEF SafetyInv, PendingInv
    <3>2. BeingWritten(k)' /\ wtCursor' <= j
      BY <1>1, <2>4, <3>1, LenProperties DEF BeingWritten, Key, WriteThroughAssumption
    <3>3. coverage(tiers'[t], k) <= chunks'[cursor'].end
      BY <1>1, <1>2, <1>3, <2>4, <3>1, ChunkFields
    <3> QED BY <3>2, <3>3
  <2> QED BY <1>1, <2>2, <2>3, <2>4
<1>6. PlanInv'
  <2>1. \A i \in DOMAIN plan : Scheduled(i)
    BY <1>1 DEF SafetyInv, PlanInv
  <2> QED BY <1>1, <2>1 DEF PlanInv, Scheduled
<1>7. LoadsInv'
  <2> SUFFICES ASSUME NEW i \in DOMAIN plan, LoadPending(i)'
               PROVE  Covers(plan[i].source, chunks[i])'
    BY <1>1 DEF LoadsInv, SafetyInv
  <2>1. cursor \in Nat /\ i \in Nat
    BY <1>1, ScheduleFacts DEF TypeInv, ControlTypeOK
  <2>2. /\ LoadPending(i) /\ plan[i].source # GPU
    BY <1>1, <2>1 DEF LoadPending, Loads
  <2>3. Covers(plan[i].source, chunks[i])
    BY <2>2 DEF SafetyInv, LoadsInv
  <2>4. tiers'[plan[i].source] = tiers[plan[i].source]
    <3>1. plan[i].source \in Tiers
      BY <2>2, LoadSource DEF LoadPending, Loads, TypeInv, ScheduleTypeOK
    <3> QED BY <1>2, <2>2, <3>1 DEF Tiers
  <2> QED BY <1>1, <2>3, <2>4 DEF Covers
<1>8. WarmInv'
  <2>1. ASSUME NEW i \in DOMAIN plan, NEW j \in DOMAIN WriteThrough, WarmBy(i, j)'
        PROVE  WarmBy(i, j)
    <3>1. ~(j < 1)
      BY LenProperties DEF WriteThroughAssumption
    <3> QED BY <1>1, <2>1, <3>1 DEF WarmBy, Loads
  <2> QED BY <1>1, <1>2, <2>1, WarmFrame DEF SafetyInv
<1>9. PendingInv'
  BY <1>2 DEF PendingInv, Idle
<1> QED BY <1>5, <1>6, <1>7, <1>8, <1>9 DEF SafetyInv

\* Each upsert leaves its tier covering the chunk and all it covered before;
\* the tiers that are still to be written may be behind for this key only.
LEMMA WriteThroughSafety ==
  ASSUME TypeInv, SafetyInv, TypeInv', WriteThroughOne
  PROVE  SafetyInv'
<1> DEFINE w == wtCursor
           u == WriteThrough[w]
           c == chunks[cursor]
           key == Key(cursor)
<1>1. /\ phase = "writeThrough" /\ w \in DOMAIN WriteThrough /\ u \in Tiers
      /\ cursor \in DOMAIN chunks /\ cursor \in DOMAIN plan /\ c \in Chunk
      /\ cursor \in Nat /\ w \in Nat
      /\ DOMAIN WriteThrough \subseteq Nat /\ DOMAIN plan \subseteq Nat
  <2>1. phase = "writeThrough" /\ w <= Len(WriteThrough)
    BY DEF WriteThroughOne
  <2>2. w \in DOMAIN WriteThrough /\ DOMAIN WriteThrough \subseteq Nat
    BY SMTT(30), <2>1, LenProperties DEF WriteThroughAssumption, TypeInv, ControlTypeOK
  <2>3. u \in Tiers
    BY <2>2, WriteThroughFacts
  <2>4. /\ cursor \in DOMAIN chunks /\ DOMAIN plan = DOMAIN chunks
        /\ cursor \in Nat /\ w \in Nat
    BY <2>1 DEF TypeInv, ControlTypeOK, Bookkeeping
  <2>5. DOMAIN chunks \subseteq Nat /\ c \in Chunk
    BY <2>4, ScheduleFacts
  <2> QED BY <2>1, <2>2, <2>3, <2>4, <2>5
<1>2. /\ tiers' = [tiers EXCEPT ![u] = upsert(u, tiers[u], c)]
      /\ pending' = pending /\ Idle
      /\ plan' = plan /\ chunks' = chunks /\ sweepIndex' = sweepIndex
  BY <1>1 DEF WriteThroughOne, managerVars, scheduleVars, frontVars, TypeInv, Bookkeeping
<1>3. CASE upsert_raises(u, tiers[u], c)
  BY <1>3, FailSafety DEF WriteThroughOne, Raise
<1>4. CASE ~upsert_raises(u, tiers[u], c)
  <2>1. phase' = phase /\ cursor' = cursor /\ error' = error /\ wtCursor' = w + 1
    BY <1>4 DEF WriteThroughOne
  <2>2. \A t \in Tiers : IsDict(tiers[t], Extent)
    BY DEF TypeInv, CacheInv, CacheTypeOK
  <2>3. \A t \in Tiers : \A k : coverage(tiers[t], k) \in Nat
    BY <2>2, CoverageFacts
  <2>4. c.end \in Nat
    BY <1>1, ChunkFields
  <2>5. ASSUME NEW t \in Tiers, NEW k
        PROVE  coverage(tiers'[t], k) =
                 IF t = u /\ k = key THEN MaxOf(coverage(tiers[t], k), c.end)
                 ELSE coverage(tiers[t], k)
    <3>1. CASE t = u
      <4>1. tiers'[t] = upsert(u, tiers[u], c)
        BY <1>1, <1>2, <3>1 DEF TypeInv, CacheInv, CacheTypeOK
      <4> QED BY <1>1, <1>4, <2>2, <3>1, <4>1, UpsertFacts DEF Key
    <3>2. CASE t # u
      BY <1>1, <1>2, <3>2 DEF TypeInv, CacheInv, CacheTypeOK
    <3> QED BY <3>1, <3>2
  <2>6. ASSUME NEW t \in Tiers, NEW k
        PROVE  /\ coverage(tiers[t], k) <= coverage(tiers'[t], k)
               /\ coverage(tiers'[t], k) \in Nat
    <3>1. coverage(tiers[t], k) \in Nat
      BY <2>3
    <3>2. \/ coverage(tiers'[t], k) = coverage(tiers[t], k)
          \/ coverage(tiers'[t], k) = MaxOf(coverage(tiers[t], k), c.end)
      BY <2>5
    <3> QED BY <2>4, <3>1, <3>2 DEF MaxOf
  <2>7. \A t \in Tiers : \A k : k # key => coverage(tiers'[t], k) = coverage(tiers[t], k)
    BY <2>5
  <2>8. ASSUME NEW t \in Tiers
        PROVE  \/ coverage(tiers'[t], key) = coverage(tiers[t], key)
               \/ coverage(tiers'[t], key) <= c.end
    <3>1. coverage(tiers[t], key) \in Nat
      BY <2>3
    <3>2. \/ coverage(tiers'[t], key) = coverage(tiers[t], key)
          \/ coverage(tiers'[t], key) = MaxOf(coverage(tiers[t], key), c.end)
      BY <2>5
    <3> QED BY <2>4, <3>1, <3>2 DEF MaxOf
  <2>9. c.end <= coverage(tiers'[u], key)
    <3>1. coverage(tiers[u], key) \in Nat
      BY <1>1, <2>3
    <3>2. coverage(tiers'[u], key) = MaxOf(coverage(tiers[u], key), c.end)
      BY <1>1, <2>5
    <3> QED BY <2>4, <3>1, <3>2 DEF MaxOf
  <2>10. DominanceInv'
    <3> SUFFICES ASSUME NEW t \in Tiers, NEW j \in DOMAIN WriteThrough,
                        NEW k \in DOMAIN tiers'[t]
                 PROVE  \/ coverage(tiers'[t], k) <= coverage(tiers'[WriteThrough[j]], k)
                        \/ /\ BeingWritten(k)' /\ w + 1 <= j
                           /\ coverage(tiers'[t], k) <= c.end
      BY <1>2, <2>1 DEF DominanceInv, WrittenBy
    <3> DEFINE v == WriteThrough[j]
    <3>1. v \in Tiers
      BY WriteThroughFacts
    <3>2. \/ coverage(tiers[t], k) <= coverage(tiers[v], k)
          \/ k = key /\ w <= j /\ coverage(tiers[t], k) <= c.end
      <4>1. CASE k \in DOMAIN tiers[t]
        BY SMTT(30), <1>1, <4>1 DEF SafetyInv, DominanceInv, BeingWritten, WrittenBy
      <4>2. CASE k \notin DOMAIN tiers[t]
        BY SMTT(30), <2>3, <3>1, <4>2 DEF coverage
      <4> QED BY <4>1, <4>2
    <3>3. CASE k # key
      BY <2>7, <3>1, <3>2, <3>3
    <3>4. CASE k = key
      <4>1. CASE j < w
        <5>1. c.end <= coverage(tiers[v], key)
          <6>1. WarmBy(cursor, j)
            BY <1>1, <4>1 DEF WarmBy
          <6>2. Covers(v, c)
            BY <1>1, <6>1 DEF SafetyInv, WarmInv
          <6> QED BY <2>3, <2>4, <3>1, <6>2 DEF Covers, Key
        <5>2. coverage(tiers[t], key) <= coverage(tiers[v], key)
          BY <1>1, <3>2, <3>4, <4>1
        <5>3. /\ coverage(tiers[t], key) \in Nat /\ coverage(tiers[v], key) \in Nat
              /\ coverage(tiers'[t], key) \in Nat /\ coverage(tiers'[v], key) \in Nat
              /\ coverage(tiers[v], key) <= coverage(tiers'[v], key)
          BY <2>3, <2>6, <3>1
        <5>4. CASE coverage(tiers'[t], key) = coverage(tiers[t], key)
          BY <3>4, <5>2, <5>3, <5>4
        <5>5. CASE coverage(tiers'[t], key) <= c.end
          BY SMTT(30), <2>4, <3>4, <5>1, <5>3, <5>5
        <5> QED BY <2>8, <5>4, <5>5
      <4>2. CASE j = w
        <5>1. /\ coverage(tiers[t], key) \in Nat /\ coverage(tiers[u], key) \in Nat
              /\ coverage(tiers'[t], key) \in Nat /\ coverage(tiers'[u], key) \in Nat
              /\ coverage(tiers[u], key) <= coverage(tiers'[u], key)
          BY <1>1, <2>3, <2>6
        <5>2. \/ coverage(tiers[t], key) <= coverage(tiers[u], key)
              \/ coverage(tiers[t], key) <= c.end
          BY <3>2, <3>4, <4>2
        <5>3. coverage(tiers'[t], key) <= coverage(tiers'[u], key)
          <6>1. CASE coverage(tiers'[t], key) <= c.end
            BY SMTT(30), <2>4, <2>9, <5>1, <6>1
          <6>2. CASE coverage(tiers'[t], key) = coverage(tiers[t], key)
            BY SMTT(30), <2>4, <2>9, <5>1, <5>2, <6>2
          <6> QED BY <2>8, <6>1, <6>2
        <5> QED BY <3>4, <4>2, <5>3
      <4>3. CASE j > w
        <5>1. /\ coverage(tiers[t], key) \in Nat /\ coverage(tiers[v], key) \in Nat
              /\ coverage(tiers'[t], key) \in Nat /\ coverage(tiers'[v], key) \in Nat
              /\ coverage(tiers[v], key) <= coverage(tiers'[v], key)
          BY <2>3, <2>6, <3>1
        <5>2. BeingWritten(k)' /\ w + 1 <= j
          <6>1. w + 1 <= j
            BY <1>1, <4>3
          <6> QED BY <1>1, <1>2, <2>1, <3>4, <6>1 DEF BeingWritten, Key
        <5>3. CASE coverage(tiers'[t], key) <= c.end
          BY <3>4, <5>2, <5>3
        <5>4. CASE coverage(tiers'[t], key) = coverage(tiers[t], key)
          <6>1. CASE coverage(tiers[t], key) <= c.end
            BY <3>4, <5>2, <5>4, <6>1
          <6>2. CASE coverage(tiers[t], key) <= coverage(tiers[v], key)
            BY <3>4, <5>1, <5>4, <6>2
          <6> QED BY <3>2, <3>4, <6>1, <6>2
        <5> QED BY <2>8, <5>3, <5>4
      <4> QED BY <1>1, <4>1, <4>2, <4>3
    <3> QED BY <3>3, <3>4
  <2>11. WarmInv'
    <3> SUFFICES ASSUME NEW i \in DOMAIN plan, NEW j \in DOMAIN WriteThrough,
                        WarmBy(i, j)'
                 PROVE  coverage(tiers'[WriteThrough[j]], cache_key(chunks[i]))
                          >= chunks[i].end
      BY <1>2 DEF WarmInv, Covers
    <3> DEFINE v == WriteThrough[j]
               k == cache_key(chunks[i])
    <3>1. v \in Tiers /\ chunks[i] \in Chunk /\ chunks[i].end \in Nat
      BY <1>1, WriteThroughFacts, ScheduleFacts, ChunkFields
    <3>2. CASE WarmBy(i, j)
      <4>1. coverage(tiers[v], k) >= chunks[i].end
        BY <1>1, <3>2 DEF SafetyInv, WarmInv, Covers
      <4>2. /\ coverage(tiers[v], k) \in Nat /\ coverage(tiers'[v], k) \in Nat
            /\ coverage(tiers[v], k) <= coverage(tiers'[v], k)
        BY <2>3, <2>6, <3>1
      <4> QED BY SMTT(30), <3>1, <4>1, <4>2
    <3>3. CASE ~WarmBy(i, j)
      <4>1. i = cursor /\ j < w + 1 /\ ~(j < w)
        BY <1>1, <1>2, <2>1, <3>3 DEF WarmBy, Loads
      <4>2. j = w
        BY <1>1, <4>1
      <4>3. c.end <= coverage(tiers'[v], k)
        BY <2>9, <4>1, <4>2 DEF Key
      <4>4. coverage(tiers'[v], k) \in Nat
        BY <2>6, <3>1
      <4> QED BY <3>1, <4>1, <4>3, <4>4
    <3> QED BY <3>2, <3>3
  <2>12. LoadsInv'
    BY <1>1, <2>1 DEF SafetyInv, LoadsInv, LoadPending
  <2>13. PlanInv'
    BY <1>1, <1>2, <2>1 DEF SafetyInv, PlanInv, Scheduled
  <2>14. PendingInv'
    BY <1>2 DEF PendingInv, Idle
  <2> QED BY <2>10, <2>11, <2>12, <2>13, <2>14 DEF SafetyInv
<1> QED BY <1>3, <1>4

\* The invariant of the whole prefill holds throughout.
THEOREM PrefillInvariant == Spec => [](TypeInv /\ SafetyInv)
<1>1. Init => TypeInv /\ SafetyInv
  BY InitTypes, InitSafety
<1>2. TypeInv /\ SafetyInv /\ [Next]_vars => TypeInv' /\ SafetyInv'
  <2> SUFFICES ASSUME TypeInv, SafetyInv, [Next]_vars
               PROVE  TypeInv' /\ SafetyInv'
    OBVIOUS
  <2>1. TypeInv'
    BY TypeStep
  <2>2. CASE UNCHANGED vars
    <3>1. /\ tiers' = tiers /\ phase' = phase /\ plan' = plan /\ chunks' = chunks
          /\ cursor' = cursor /\ wtCursor' = wtCursor /\ error' = error
          /\ pending' = pending /\ sweepIndex' = sweepIndex
      BY <2>2 DEF vars, managerVars, chunkingVars, frontVars
    <3>2. PlanInv'
      BY <3>1 DEF SafetyInv, PlanInv, Scheduled
    <3>3. LoadsInv'
      BY <3>1 DEF SafetyInv, LoadsInv, LoadPending, Loads, Covers
    <3>4. DominanceInv'
      BY <3>1 DEF SafetyInv, DominanceInv, BeingWritten, Key, WrittenBy
    <3>5. PendingInv'
      BY <3>1 DEF SafetyInv, PendingInv, Idle, WrittenBy
    <3>6. WarmInv'
      BY <3>1 DEF SafetyInv, WarmInv, WarmBy, Loads, Covers
    <3> QED BY <2>1, <3>2, <3>3, <3>4, <3>5, <3>6 DEF SafetyInv
  <2>3. CASE Materialise
    BY <2>1, <2>3, ControlSafety, GpuLoadSafety, ColdLoadSafety, RecomputeSafety,
       MakeRoomSafety, FinishStoreSafety, WriteThroughSafety DEF Materialise
  <2> QED BY <2>1, <2>2, <2>3, ArriveSafety, SplitSafety, ScheduleSafety
          DEF Next, Prefill
<1> QED BY <1>1, <1>2, PTL DEF Spec

\* A scheduled load never finds its chunk missing: the two exceptions of
\* _materialize_schedule_entries_to_gpu are never raised.
THEOREM ScheduledLoadsNeverMiss == Spec => []ScheduledLoadsSucceed
<1>1. SafetyInv => ScheduledLoadsSucceed
  BY DEF SafetyInv, LoadsInv, ScheduledLoadsSucceed
<1> QED BY <1>1, PrefillInvariant, PTL

\* Write-through loses nothing: every write-through tier covers what any tier
\* covers, the chunk being written apart.
THEOREM WriteThroughKeepsUp == Spec => []WriteThroughDominates
<1>1. SafetyInv => WriteThroughDominates
  BY DEF SafetyInv, DominanceInv, WriteThroughDominates, WrittenBy
<1> QED BY <1>1, PrefillInvariant, PTL

-----------------------------------------------------------------------------
(* Cold tiers that never fill up.                                          *)

\* A step writes to a cold tier only by an upsert of the write-through loop.
LEMMA ColdTierSteps ==
  ASSUME TypeInv, Next, ~WriteThroughOne, NEW t \in ColdTiers
  PROVE  tiers'[t] = tiers[t]
<1>1. CacheInv /\ (At("recompute") => chunks[cursor] \in Chunk)
  BY CursorFacts DEF TypeInv
<1>2. CASE Arrive \/ Split \/ Schedule
  BY <1>2 DEF Arrive, Split, Schedule
<1>3. CASE BeginMaterialise \/ EndOfPhase \/ SkipOther \/ WriteThroughDone
  BY <1>3 DEF BeginMaterialise, EndOfPhase, SkipOther, WriteThroughDone
<1>4. CASE GpuLoad
  BY <1>1, <1>4, AccessFacts DEF GpuLoad
<1>5. CASE ColdLoad
  <2>1. CASE UNCHANGED tiers
    BY <2>1
  <2>2. CASE /\ Present(plan[cursor].source, Key(cursor))
             /\ store(StoredSource(cursor))
    <3>1. StoredSource(cursor) \in Chunk
      BY <1>5, <2>2, CursorFacts, StoredSourceFacts DEF ColdLoad
    <3> QED BY <1>1, <2>2, <3>1, StoreFacts
  <2> QED BY <1>5, <2>1, <2>2 DEF ColdLoad, StoreLoaded, Fail
<1>6. CASE Recomputes
  BY <1>1, <1>6, StoreFacts DEF Recomputes, Fail
<1>7. CASE MakeRoom
  BY <1>1, <1>7, EvictVictimFacts DEF MakeRoom
<1>8. CASE FinishStore
  BY <1>1, <1>8, InsertPendingFacts DEF FinishStore
<1> QED BY <1>2, <1>3, <1>4, <1>5, <1>6, <1>7, <1>8 DEF Next, Prefill, Materialise

\* Cold tiers with room for everything, the disk of the experiments, never
\* cover less than they did: upsert never downgrades them.
THEOREM UnboundedTiersNeverDowngrade ==
  ASSUME Unbounded = ColdTiers
  PROVE  Spec => ColdCoverageNeverShrinks
<1> DEFINE Gains == \A t \in ColdTiers : \A key \in DOMAIN tiers[t] :
                      coverage(tiers[t], key) <= coverage(tiers'[t], key)
<1>1. TypeInv /\ [Next]_vars => [Gains]_vars
  <2> SUFFICES ASSUME TypeInv, Next, NEW t \in ColdTiers, NEW key
               PROVE  coverage(tiers[t], key) <= coverage(tiers'[t], key)
    OBVIOUS
  <2>1. IsDict(tiers[t], Extent) /\ coverage(tiers[t], key) \in Nat
    BY CoverageFacts DEF TypeInv, CacheInv, CacheTypeOK, Tiers
  <2>2. CASE tiers'[t] = tiers[t]
    BY <2>1, <2>2
  <2>3. CASE WriteThroughOne /\ tiers'[t] # tiers[t]
    <3> DEFINE c == chunks[cursor]
    <3>1. tiers'[t] = upsert(t, tiers[t], c)
      <4>1. tiers' = [tiers EXCEPT ![WriteThrough[wtCursor]] =
                        upsert(WriteThrough[wtCursor], tiers[WriteThrough[wtCursor]], c)]
        BY <2>3 DEF WriteThroughOne
      <4> QED BY <2>3, <4>1 DEF TypeInv, CacheInv, CacheTypeOK, Tiers
    <3>2. c \in Chunk
      <4>1. cursor \in DOMAIN chunks
        BY <2>3 DEF WriteThroughOne, TypeInv, Bookkeeping
      <4> QED BY <4>1, ScheduleFacts
    <3>3. ~upsert_raises(t, tiers[t], c)
      BY DEF upsert_raises, can_store
    <3>4. CASE key = cache_key(c)
      <4>1. coverage(upsert(t, tiers[t], c), key)
              = MaxOf(coverage(tiers[t], key), c.end)
        BY <2>1, <3>2, <3>3, <3>4, UpsertFacts
      <4>2. c.end \in Nat
        BY <3>2, ChunkFields
      <4> QED BY <2>1, <3>1, <4>1, <4>2 DEF MaxOf
    <3>5. CASE key # cache_key(c)
      <4>1. coverage(upsert(t, tiers[t], c), key) = coverage(tiers[t], key)
        BY <2>1, <3>2, <3>5, UpsertFacts
      <4> QED BY <2>1, <3>1, <4>1
    <3> QED BY <3>4, <3>5
  <2> QED BY <2>2, <2>3, ColdTierSteps
<1>2. Spec => []TypeInv
  <2>1. Init => TypeInv
    BY InitTypes
  <2>2. TypeInv /\ [Next]_vars => TypeInv'
    BY TypeStep
  <2> QED BY <2>1, <2>2, PTL DEF Spec
<1> QED BY <1>1, <1>2, PTL DEF Spec, ColdCoverageNeverShrinks

-----------------------------------------------------------------------------
(* The request under way, and where its entries start.                     *)

\* The request under way is the last one taken from the stream.
RequestInv ==
  /\ Tiling
  /\ IF served = 0 THEN chunks = <<>> ELSE request.id = served - 1
  /\ request.shared <= DocumentLength[request.doc]
  /\ served = 0 => phase = "idle"

\* The phases in which chunks of the current request may have been stored.
Storing == phase \in {"recompute", "writeThrough", "idle", "failed"}

\* Where an entry under this key may start: on the grid for a document; where
\* its own chunk does for the private suffix of the current request; anywhere
\* for that of an earlier one, whose key no chunk has any more.
Aligned(key, start) ==
  \/ key[1] \in Documents /\ start = key[2] * ChunkSize
  \/ key[1] \in NumDocuments .. NumDocuments + served - 2
  \/ /\ Storing /\ served > 0 /\ key[1] = private_cache_id(request)
     /\ key[2] + 1 \in DOMAIN chunks /\ start = chunks[key[2] + 1].start

EntriesAligned ==
  /\ \A t \in Tiers : \A key \in DOMAIN tiers[t] : Aligned(key, tiers[t][key].start)
  /\ ~Idle => Aligned(cache_key(pending), pending.start)

AlignInv == RequestInv /\ EntriesAligned /\ PrivateSuffixNeverLoaded

-----------------------------------------------------------------------------
(* Capacity, and the policy's bookkeeping.                                 *)

\* Every step is one operation of the manager, an upsert, or leaves the tiers
\* and the policy alone.
ManagerStep ==
  \/ \E key \in CacheKey : access(key)
  \/ \E c \in Chunk : store(c) \/ store_replacing(c)
  \/ EvictVictim \/ InsertPending

LEMMA TierSteps ==
  ASSUME TypeInv, Next
  PROVE  \/ UNCHANGED <<tiers, order, policyVars>>
         \/ ManagerStep /\ \A t \in ColdTiers : tiers'[t] = tiers[t]
         \/ WriteThroughOne
<1>1. \/ WriteThroughOne
      \/ \A t \in ColdTiers : tiers'[t] = tiers[t]
  BY ColdTierSteps
<1>2. CASE Arrive \/ Split \/ Schedule
  BY <1>2 DEF Arrive, Split, Schedule, managerVars, policyVars
<1>3. CASE BeginMaterialise \/ EndOfPhase \/ SkipOther \/ WriteThroughDone
  BY <1>3 DEF BeginMaterialise, EndOfPhase, SkipOther, WriteThroughDone, managerVars,
              policyVars
<1>4. CASE GpuLoad
  <2>1. Key(cursor) \in CacheKey
    BY <1>4, CursorFacts, ChunkFields DEF GpuLoad, Key
  <2> QED BY <1>1, <1>4, <2>1 DEF GpuLoad, ManagerStep
<1>5. CASE ColdLoad
  <2>1. CASE UNCHANGED <<tiers, managerVars>>
    BY <2>1 DEF managerVars, policyVars
  <2>2. CASE /\ Present(plan[cursor].source, Key(cursor))
             /\ store(StoredSource(cursor))
    <3>1. StoredSource(cursor) \in Chunk
      BY <1>5, <2>2, CursorFacts, StoredSourceFacts DEF ColdLoad
    <3> QED BY <1>1, <2>2, <3>1 DEF ManagerStep
  <2> QED BY <1>5, <2>1, <2>2 DEF ColdLoad, StoreLoaded, Fail
<1>6. CASE Recomputes
  <2>1. CASE UNCHANGED <<tiers, managerVars>>
    BY <2>1 DEF managerVars, policyVars
  <2>2. CASE store_replacing(chunks[cursor])
    <3>1. chunks[cursor] \in Chunk
      BY <1>6, CursorFacts DEF Recomputes
    <3> QED BY <1>1, <2>2, <3>1 DEF ManagerStep
  <2> QED BY <1>6, <2>1, <2>2 DEF Recomputes, Fail
<1>7. CASE MakeRoom \/ FinishStore
  BY <1>1, <1>7 DEF MakeRoom, FinishStore, ManagerStep
<1> QED BY <1>2, <1>3, <1>4, <1>5, <1>6, <1>7 DEF Next, Prefill, Materialise

\* What an upsert of the write-through loop does to the tiers.
LEMMA UpsertStep ==
  ASSUME TypeInv, WriteThroughOne
  PROVE  /\ WriteThrough[wtCursor] \in ColdTiers
         /\ cursor \in DOMAIN chunks /\ chunks[cursor] \in Chunk
         /\ tiers'[WriteThrough[wtCursor]] =
              upsert(WriteThrough[wtCursor], tiers[WriteThrough[wtCursor]], chunks[cursor])
         /\ \A t \in Tiers : t # WriteThrough[wtCursor] => tiers'[t] = tiers[t]
         /\ phase = "writeThrough" /\ wtCursor \in DOMAIN WriteThrough
<1>1. /\ phase = "writeThrough" /\ wtCursor <= Len(WriteThrough)
      /\ wtCursor \in Nat \ {0} /\ DOMAIN tiers = Tiers
  BY DEF WriteThroughOne, TypeInv, ControlTypeOK, CacheInv, CacheTypeOK
<1>2. wtCursor \in DOMAIN WriteThrough
  BY <1>1, LenProperties DEF WriteThroughAssumption
<1>3. WriteThrough[wtCursor] \in ColdTiers /\ WriteThrough[wtCursor] \in Tiers
  BY <1>2, WriteThroughFacts
<1>4. cursor \in DOMAIN chunks /\ chunks[cursor] \in Chunk
  BY <1>1, ScheduleFacts DEF TypeInv, Bookkeeping
<1> QED BY <1>1, <1>2, <1>3, <1>4 DEF WriteThroughOne

\* Finitely many entries in each tier, and no more bytes than it has room for.
CapacityInv ==
  /\ \A t \in Tiers : IsFiniteSet(DOMAIN tiers[t])
  /\ TiersWithinCapacity

RetentionInv == CapacityInv /\ PolicyTracksTier

LEMMA InitRetention == Init => RetentionInv
<1> SUFFICES ASSUME Init PROVE RetentionInv
  OBVIOUS
<1>1. /\ \A t \in Tiers : tiers[t] = EmptyDict
      /\ order = <<>> /\ DOMAIN lastAccess = {} /\ DOMAIN accessCount = {}
      /\ DOMAIN insertOrder = {} /\ GPU \in Tiers
  BY DEF Init, CacheInit, PolicyInit, Tiers
<1>2. DOMAIN EmptyDict = {} /\ IsDict(EmptyDict, Extent) /\ IsFiniteSet(DOMAIN EmptyDict)
  BY FS_EmptySet DEF EmptyDict, IsDict
<1>3. used_bytes(EmptyDict) = 0
  BY <1>2, BytesAreNat
<1>4. CapacityInv
  BY SMTT(30), <1>1, <1>2, <1>3 DEF CapacityInv, TiersWithinCapacity, TierAssumption
<1>5. PolicyTracksTier
  BY SMTT(30), <1>1, <1>2 DEF PolicyTracksTier, ToSet, IsInjective
<1> QED BY <1>4, <1>5 DEF RetentionInv

LEMMA RetentionStep ==
  ASSUME TypeInv, RetentionInv, Next
  PROVE  RetentionInv'
<1>1. /\ CacheInv /\ GPU \in Tiers \ Unbounded /\ GPUFinite
      /\ WithinCapacity /\ PolicyTracksTier
  BY DEF TypeInv, RetentionInv, CapacityInv, GPUFinite, TiersWithinCapacity,
         WithinCapacity, Tiers, TierAssumption
<1>2. CASE UNCHANGED <<tiers, order, policyVars>>
  <2>1. PolicyTracksTier'
    BY <1>1, <1>2, SameTracks
  <2> QED BY <1>2, <2>1 DEF RetentionInv, CapacityInv, TiersWithinCapacity
<1>3. CASE ManagerStep /\ \A t \in ColdTiers : tiers'[t] = tiers[t]
  <2>1. PolicyTracksTier' /\ GPUFinite' /\ WithinCapacity'
    BY <1>1, <1>3, ManagerTracks, ManagerFits DEF ManagerStep
  <2> QED BY <1>3, <2>1
          DEF RetentionInv, CapacityInv, TiersWithinCapacity, GPUFinite,
              WithinCapacity, Tiers
<1>4. CASE WriteThroughOne
  <2> DEFINE u == WriteThrough[wtCursor]
             c == chunks[cursor]
  <2>1. /\ u \in Tiers /\ c \in Chunk /\ tiers'[u] = upsert(u, tiers[u], c)
        /\ \A t \in Tiers : t # u => tiers'[t] = tiers[t]
        /\ u # GPU
    BY <1>4, UpsertStep DEF Tiers, TierAssumption
  <2>2. IsDict(tiers[u], Extent) /\ IsFiniteSet(DOMAIN tiers[u])
    BY <2>1 DEF TypeInv, CacheInv, CacheTypeOK, RetentionInv, CapacityInv
  <2>3. IsFiniteSet(DOMAIN tiers'[u])
    BY SMTT(30), <2>1, <2>2, UpsertFinite
  <2>4. u \notin Unbounded => used_bytes(tiers'[u]) <= Capacity[u]
    <3> SUFFICES ASSUME u \notin Unbounded PROVE used_bytes(tiers'[u]) <= Capacity[u]
      OBVIOUS
    <3>1. Capacity[u] \in Nat /\ used_bytes(tiers[u]) <= Capacity[u]
      BY <2>1 DEF TierAssumption, RetentionInv, CapacityInv, TiersWithinCapacity
    <3>2. used_bytes(upsert(u, tiers[u], c)) <= Capacity[u]
      BY <2>1, <2>2, <3>1, UpsertFits
    <3> QED BY <2>1, <3>2
  <2>5. PolicyTracksTier'
    BY <1>1, <1>4, <2>1
       DEF WriteThroughOne, managerVars, PolicyTracksTier, Tiers
  <2>6. CapacityInv'
    <3> HIDE DEF u, c
    <3>1. \A t \in Tiers : IsFiniteSet(DOMAIN tiers'[t])
      BY <2>1, <2>3 DEF RetentionInv, CapacityInv
    <3>2. \A t \in Tiers \ Unbounded : used_bytes(tiers'[t]) <= Capacity[t]
      BY <2>1, <2>4 DEF RetentionInv, CapacityInv, TiersWithinCapacity
    <3> QED BY <3>1, <3>2 DEF CapacityInv, TiersWithinCapacity
  <2> QED BY <2>5, <2>6 DEF RetentionInv
<1> QED BY <1>2, <1>3, <1>4, TierSteps

LEMMA SpecRetention == Spec => []RetentionInv
<1>1. TypeInv /\ RetentionInv /\ [Next]_vars => RetentionInv'
  <2> SUFFICES ASSUME TypeInv, RetentionInv, [Next]_vars PROVE RetentionInv'
    OBVIOUS
  <2>1. CASE UNCHANGED vars
    BY <2>1 DEF vars, managerVars, RetentionInv, CapacityInv, TiersWithinCapacity,
                PolicyTracksTier
  <2> QED BY <2>1, RetentionStep
<1> QED BY <1>1, InitRetention, PrefillInvariant, PTL DEF Spec

\* No tier outgrows its capacity in a stream of prefills: not the GPU while
\* chunks are evicted for another, not a cold tier by its upserts.
THEOREM StreamWithinCapacity == Spec => []TiersWithinCapacity
<1>1. RetentionInv => TiersWithinCapacity
  BY DEF RetentionInv, CapacityInv
<1> QED BY <1>1, SpecRetention, PTL

\* The policy lists exactly what the GPU holds, whatever the three phases of a
\* prefill make of it.
THEOREM StreamPolicyTracksTier == Spec => []PolicyTracksTier
<1>1. RetentionInv => PolicyTracksTier
  BY DEF RetentionInv
<1> QED BY <1>1, SpecRetention, PTL

-----------------------------------------------------------------------------
(* What range an entry holds.                                              *)

\* The entries that a removal and a store leave.
LEMMA DropEntries ==
  ASSUME NEW d, NEW k, NEW x \in DOMAIN drop(d, k)
  PROVE  x \in DOMAIN d /\ drop(d, k)[x] = d[x]
  BY DEF drop

LEMMA PutEntries ==
  ASSUME NEW d, NEW c, NEW x \in DOMAIN put(d, c)
  PROVE  \/ x = cache_key(c) /\ put(d, c)[x] = extent(c)
         \/ x \in DOMAIN d /\ put(d, c)[x] = d[x]
  BY DEF put

LEMMA UpsertEntries ==
  ASSUME NEW t, NEW d, NEW c, NEW x \in DOMAIN upsert(t, d, c)
  PROVE  \/ x = cache_key(c) /\ upsert(t, d, c)[x] = extent(c)
         \/ x \in DOMAIN d /\ upsert(t, d, c)[x] = d[x]
<1> DEFINE freed == drop(d, cache_key(c))
<1>1. /\ \A y \in DOMAIN freed : y \in DOMAIN d /\ freed[y] = d[y]
      /\ \A y \in DOMAIN put(freed, c) :
           \/ y = cache_key(c) /\ put(freed, c)[y] = extent(c)
           \/ y \in DOMAIN freed /\ put(freed, c)[y] = freed[y]
  <2>1. \A y \in DOMAIN freed : y \in DOMAIN d /\ freed[y] = d[y]
    BY DropEntries
  <2> HIDE DEF freed
  <2> QED BY <2>1, PutEntries
<1>2. upsert(t, d, c) \in {d, freed, put(freed, c)}
  BY DEF upsert
<1> HIDE DEF freed
<1> QED BY <1>1, <1>2

\* A step of the manager adds at most the pending chunk to the GPU.
LEMMA ManagerEntries ==
  ASSUME CacheInv, ManagerStep, NEW key \in DOMAIN tiers'[GPU]
  PROVE  \/ key \in DOMAIN tiers[GPU] /\ tiers'[GPU][key] = tiers[GPU][key]
         \/ /\ InsertPending /\ key = cache_key(pending)
            /\ tiers'[GPU][key] = extent(pending) /\ pending \in Chunk
<1>1. IsDict(tiers[GPU], Extent)
  BY DEF CacheInv, CacheTypeOK, Tiers
<1>2. CASE tiers' = tiers
  BY <1>2
<1>3. ASSUME NEW k \in DOMAIN tiers[GPU], RemoveFromGPU(k)
      PROVE  key \in DOMAIN tiers[GPU] /\ tiers'[GPU][key] = tiers[GPU][key]
  <2>1. tiers'[GPU] = drop(tiers[GPU], k)
    BY <1>3, RemoveFromGPUFacts
  <2>2. \A x \in DOMAIN drop(tiers[GPU], k) :
          x \in DOMAIN tiers[GPU] /\ drop(tiers[GPU], k)[x] = tiers[GPU][x]
    BY DropEntries
  <2> QED BY <2>1, <2>2
<1>4. CASE EvictVictim
  BY <1>3, <1>4 DEF EvictVictim, Victims
<1>5. CASE InsertPending
  <2>1. pending \in Chunk /\ tiers'[GPU] = put(tiers[GPU], pending)
    BY <1>5, InsertPendingFacts
  <2>2. \A x \in DOMAIN put(tiers[GPU], pending) :
          \/ x = cache_key(pending) /\ put(tiers[GPU], pending)[x] = extent(pending)
          \/ x \in DOMAIN tiers[GPU] /\ put(tiers[GPU], pending)[x] = tiers[GPU][x]
    BY PutEntries
  <2> QED BY <1>5, <2>1, <2>2
<1>6. CASE \E k \in CacheKey : access(k)
  BY <1>2, <1>6 DEF access
<1>7. ASSUME NEW c \in Chunk, store(c) \/ store_replacing(c)
      PROVE  key \in DOMAIN tiers[GPU] /\ tiers'[GPU][key] = tiers[GPU][key]
  <2>1. \/ tiers' = tiers
        \/ cache_key(c) \in DOMAIN tiers[GPU] /\ RemoveFromGPU(cache_key(c))
    BY <1>7 DEF store, store_replacing, KeepResident, Present
  <2> QED BY <1>3, <2>1
<1> QED BY <1>4, <1>5, <1>6, <1>7 DEF ManagerStep

\* A step of the stream adds at most the chunk that a store was making room
\* for, or the chunk that is being written through.
LEMMA EntrySteps ==
  ASSUME TypeInv, Next, NEW t \in Tiers, NEW key \in DOMAIN tiers'[t]
  PROVE  \/ key \in DOMAIN tiers[t] /\ tiers'[t][key] = tiers[t][key]
         \/ /\ ~Idle /\ key = cache_key(pending) /\ pending \in Chunk
            /\ tiers'[t][key] = extent(pending)
         \/ /\ WriteThroughOne /\ key = Key(cursor) /\ chunks[cursor] \in Chunk
            /\ tiers'[t][key] = extent(chunks[cursor])
<1>1. CacheInv
  BY DEF TypeInv
<1>2. CASE UNCHANGED <<tiers, order, policyVars>>
  BY <1>2
<1>3. CASE ManagerStep /\ \A u \in ColdTiers : tiers'[u] = tiers[u]
  <2>1. CASE t = GPU
    BY <1>1, <1>3, <2>1, ManagerEntries DEF InsertPending
  <2> QED BY <1>3, <2>1 DEF Tiers
<1>4. CASE WriteThroughOne
  <2> DEFINE u == WriteThrough[wtCursor]
             c == chunks[cursor]
             d == tiers[u]
             k == cache_key(c)
  <2>1. CASE t # u
    BY <1>4, <2>1, UpsertStep
  <2>2. CASE t = u
    <3>1. /\ c \in Chunk /\ tiers'[t] = upsert(u, d, c) /\ IsDict(d, Extent)
      BY <1>4, <2>2, UpsertStep DEF TypeInv, CacheInv, CacheTypeOK, Tiers
    <3>2. \A x \in DOMAIN upsert(u, d, c) :
            \/ x = k /\ upsert(u, d, c)[x] = extent(c)
            \/ x \in DOMAIN d /\ upsert(u, d, c)[x] = d[x]
      BY UpsertEntries
    <3>3. k = Key(cursor)
      BY DEF Key
    <3> HIDE DEF d, c, k, u
    <3>4. \/ key \in DOMAIN d /\ tiers'[t][key] = d[key]
          \/ key = k /\ tiers'[t][key] = extent(c)
      BY <3>1, <3>2
    <3> QED BY <1>4, <2>2, <3>1, <3>3, <3>4 DEF d, c, u
  <2> QED BY <2>1, <2>2
<1> QED BY <1>2, <1>3, <1>4, TierSteps

\* The chunk for which a store makes room was pending before, is the one a
\* cold load found, or the one under the cursor.
LEMMA PendingSteps ==
  ASSUME TypeInv, Next, pending' # NoChunk
  PROVE  \/ ~Idle /\ pending' = pending
         \/ /\ ColdLoad /\ pending' = StoredSource(cursor)
            /\ plan[cursor].source \in Tiers /\ Key(cursor) \in DOMAIN tiers[plan[cursor].source]
            /\ cache_key(pending') = Key(cursor)
            /\ pending'.start = tiers[plan[cursor].source][Key(cursor)].start
         \/ Recomputes /\ pending' = chunks[cursor] /\ cursor \in DOMAIN chunks
<1>1. CASE pending' = pending
  BY <1>1 DEF Idle
<1>2. CASE ColdLoad /\ pending' # pending
  <2>1. /\ Present(plan[cursor].source, Key(cursor)) /\ cursor \in DOMAIN chunks
        /\ plan[cursor].source \in Tiers /\ Loads(cursor)
        /\ store(StoredSource(cursor))
    BY <1>2, CursorFacts DEF ColdLoad, StoreLoaded, Fail, managerVars
  <2>2. pending' = StoredSource(cursor)
    BY <1>2, <2>1 DEF store, KeepResident, StartStore
  <2> QED BY <1>2, <2>1, <2>2, StoredSourceFacts DEF Present
<1>3. CASE Recomputes /\ pending' # pending
  <2>1. cursor \in DOMAIN chunks /\ store_replacing(chunks[cursor])
    BY <1>3, CursorFacts DEF Recomputes, Fail, managerVars
  <2>2. pending' = chunks[cursor]
    BY <1>3, <2>1 DEF store_replacing, KeepResident, StartStore
  <2> QED BY <1>3, <2>1, <2>2
<1>4. CASE Arrive \/ Split \/ Schedule
  BY <1>1, <1>4 DEF Arrive, Split, Schedule, managerVars
<1>5. CASE BeginMaterialise \/ EndOfPhase \/ SkipOther \/ WriteThroughDone \/ WriteThroughOne
  BY <1>1, <1>5 DEF BeginMaterialise, EndOfPhase, SkipOther, WriteThroughDone,
                    WriteThroughOne, managerVars
<1>6. CASE GpuLoad \/ MakeRoom \/ FinishStore
  BY <1>1, <1>6 DEF GpuLoad, access, MakeRoom, EvictVictim, FinishStore, InsertPending
<1> QED BY <1>1, <1>2, <1>3, <1>4, <1>5, <1>6 DEF Next, Prefill, Materialise

\* Where the entry of a chunk of the current prompt may start.
LEMMA ChunkAligned ==
  ASSUME TypeInv, RequestInv, NEW i \in DOMAIN chunks
  PROVE  /\ served > 0 /\ request.id = served - 1
         /\ chunks[i].idx + 1 = i /\ chunks[i].idx \in Nat
         /\ Key(i)[1] = chunks[i].cid /\ Key(i)[2] = chunks[i].idx
         /\ \/ /\ chunks[i].cid \in Documents /\ chunks[i].cid = request.doc
               /\ chunks[i].start = chunks[i].idx * ChunkSize
            \/ /\ chunks[i].cid = private_cache_id(request)
               /\ chunks[i].cid = NumDocuments + served - 1
         /\ Storing => Aligned(Key(i), chunks[i].start)
<1>1. served \in Nat /\ chunks # <<>> /\ chunks[i] \in Chunk /\ i \in Nat \ {0}
  BY ScheduleFacts DEF TypeInv, ControlTypeOK
<1>2. served > 0 /\ request.id = served - 1
  BY <1>1 DEF RequestInv
<1>3. /\ chunks[i].idx = i - 1 /\ request.doc \in Documents
      /\ \/ /\ chunks[i].cid = request.doc
            /\ chunks[i].start = chunks[i].idx * ChunkSize
         \/ chunks[i].cid = private_cache_id(request)
  BY DEF RequestInv, Tiling
<1>4. chunks[i].idx + 1 = i /\ chunks[i].idx \in Nat
  BY SMTT(30), <1>1, <1>3
<1>5. Key(i)[1] = chunks[i].cid /\ Key(i)[2] = chunks[i].idx
  BY DEF Key, cache_key
<1>6. private_cache_id(request) = NumDocuments + served - 1
  BY <1>1, <1>2 DEF private_cache_id, ChunkingAssumption
<1>7. Storing => Aligned(Key(i), chunks[i].start)
  BY <1>2, <1>3, <1>4, <1>5 DEF Aligned
<1> QED BY <1>2, <1>3, <1>4, <1>5, <1>6, <1>7

\* Private ids are no documents, and no two requests share one.
LEMMA PrivateIds ==
  ASSUME served \in Nat
  PROVE  /\ NumDocuments + served - 1 \notin NumDocuments .. NumDocuments + served - 2
         /\ served > 0 => NumDocuments + served - 1 \notin Documents
         /\ \A d \in Documents : d \notin NumDocuments .. NumDocuments + served - 2
  BY DEF Documents, ChunkingAssumption

\* What is aligned under the key of a chunk of the current prompt starts where
\* the chunk does.
LEMMA AlignedStart ==
  ASSUME TypeInv, RequestInv, NEW i \in DOMAIN chunks, NEW start, Aligned(Key(i), start)
  PROVE  start = chunks[i].start /\ (~Storing => chunks[i].cid \in Documents)
<1> DEFINE key == Key(i)
<1>1. /\ served > 0 /\ request.id = served - 1
      /\ chunks[i].idx + 1 = i
      /\ key[1] = chunks[i].cid /\ key[2] = chunks[i].idx
      /\ \/ /\ chunks[i].cid \in Documents
            /\ chunks[i].start = chunks[i].idx * ChunkSize
         \/ /\ chunks[i].cid = private_cache_id(request)
            /\ chunks[i].cid = NumDocuments + served - 1
  BY ChunkAligned
<1>2. /\ NumDocuments + served - 1 \notin NumDocuments .. NumDocuments + served - 2
      /\ NumDocuments + served - 1 \notin Documents
      /\ \A d \in Documents : d \notin NumDocuments .. NumDocuments + served - 2
  BY <1>1, PrivateIds DEF TypeInv, ControlTypeOK
<1>3. private_cache_id(request) = NumDocuments + served - 1
  BY <1>1 DEF private_cache_id, ChunkingAssumption, TypeInv, ControlTypeOK
<1>4. Aligned(key, start)
  OBVIOUS
<1> HIDE DEF key
<1> QED BY <1>1, <1>2, <1>3, <1>4 DEF Aligned

\* An entry that covers a chunk of the current prompt starts where it does.
LEMMA CoveredIsServed ==
  ASSUME TypeInv, RequestInv, EntriesAligned,
         NEW t \in Tiers, NEW i \in DOMAIN chunks, Covers(t, chunks[i])
  PROVE  /\ RangeServed(t, chunks[i])
         /\ ~Storing => chunks[i].cid \in Documents
<1> DEFINE key == Key(i)
           entry == tiers[t][key]
<1>1. chunks[i] \in Chunk /\ key = cache_key(chunks[i])
  BY ScheduleFacts DEF Key
<1>2. key \in DOMAIN tiers[t] /\ chunks[i].end <= entry.end
  <2>1. coverage(tiers[t], key) \in Nat /\ chunks[i].end <= coverage(tiers[t], key)
    BY <1>1, CoverageFacts DEF TypeInv, CacheInv, CacheTypeOK, Covers
  <2>2. chunks[i].start \in Nat /\ chunks[i].end \in Nat /\ chunks[i].start < chunks[i].end
    BY <1>1, ChunkFields
  <2>3. key \in DOMAIN tiers[t]
    BY SMTT(30), <2>1, <2>2 DEF coverage
  <2> QED BY <2>1, <2>3 DEF coverage
<1>3. Aligned(key, entry.start)
  BY <1>2 DEF EntriesAligned
<1>4. entry.start = chunks[i].start /\ (~Storing => chunks[i].cid \in Documents)
  BY <1>3, AlignedStart
<1> QED BY <1>1, <1>2, <1>4 DEF RangeServed, Present

\* An entry that is aligned stays so through a prefill,
LEMMA AlignedKept ==
  ASSUME served' = served, request' = request,
         Storing => Storing' /\ chunks' = chunks,
         NEW key, NEW start, Aligned(key, start)
  PROVE  Aligned(key, start)'
  BY DEF Aligned, private_cache_id

\* and into the next one.
LEMMA AlignedArrive ==
  ASSUME TypeInv, RequestInv, Arrive, NEW key, NEW start, Aligned(key, start)
  PROVE  Aligned(key, start)'
<1>1. served \in Nat /\ served' = served + 1
  BY DEF TypeInv, ControlTypeOK, Arrive
<1>2. CASE key[1] \in Documents /\ start = key[2] * ChunkSize
  BY <1>2 DEF Aligned
<1>3. CASE key[1] \in NumDocuments .. NumDocuments + served - 2
  BY <1>1, <1>3 DEF Aligned, ChunkingAssumption
<1>4. CASE served > 0 /\ key[1] = private_cache_id(request)
  <2>1. key[1] = NumDocuments + served - 1
    BY <1>1, <1>4 DEF RequestInv, private_cache_id, ChunkingAssumption
  <2>2. key[1] \in NumDocuments .. NumDocuments + served' - 2
    BY <1>1, <1>4, <2>1 DEF ChunkingAssumption
  <2> QED BY <2>2 DEF Aligned
<1> QED BY <1>2, <1>3, <1>4 DEF Aligned

\* The steps of a prefill keep the request, and its chunks once it is split.
LEMMA PrefillFrame ==
  ASSUME TypeInv, Prefill
  PROVE  /\ served' = served /\ request' = request
         /\ Storing => Storing' /\ chunks' = chunks /\ plan' = plan
         /\ Materialise => chunks' = chunks /\ plan' = plan /\ pos' = pos
                             /\ phase \notin {"split", "idle"}
<1>1. ASSUME Split
      PROVE  served' = served /\ request' = request /\ ~Storing
  BY <1>1 DEF Split, SplitStep, SplitShared, SplitPrivate, Storing
<1>2. ASSUME Schedule
      PROVE  served' = served /\ request' = request /\ ~Storing
  <2>1. phase \in {"split", "scan", "sweep"}
    BY <1>2, ScheduleFrame
  <2> QED BY <1>2, <2>1 DEF Schedule, StartScan, SplitDone, Storing
<1>3. ASSUME Materialise
      PROVE  /\ UNCHANGED scheduleVars
             /\ phase \notin {"split", "idle"}
             /\ Storing => Storing'
  <2>1. UNCHANGED scheduleVars
    BY <1>3 DEF Materialise, BeginMaterialise, EndOfPhase, SkipOther, GpuLoad, ColdLoad,
                Recomputes, MakeRoom, FinishStore, WriteThroughOne, WriteThroughDone
  <2>2. phase \notin {"split", "idle"} /\ (Storing => Storing')
    BY <1>3 DEF Materialise, BeginMaterialise, EndOfPhase, SkipOther, GpuLoad, ColdLoad,
                Recomputes, MakeRoom, FinishStore, WriteThroughOne, WriteThroughDone,
                GoTo, PhaseAfter, Advance, At, Raise, Fail, StoreLoaded, Storing,
                BeginWriteThrough, TypeInv, Bookkeeping, InsertPending, EvictVictim
  <2> QED BY <2>1, <2>2
<1> QED BY <1>1, <1>2, <1>3 DEF Prefill, scheduleVars


\* The request that the stream hands over, before anything of it is split.
LEMMA ArriveRequest ==
  ASSUME TypeInv, Arrive
  PROVE  RequestInv'
<1>1. /\ request' \in RequestsOf(served) /\ served' = served + 1 /\ served \in Nat
      /\ phase' = "split" /\ pos' = 0 /\ chunks' = <<>>
  BY DEF Arrive, TypeInv, ControlTypeOK
<1>2. /\ request'.id = served /\ request'.doc \in DocumentsFor(served)
      /\ request'.shared \in PrefixLengths(request'.doc) /\ request'.shared \in Nat
      /\ request'.prompt \in Nat
      /\ request'.prompt - request'.shared \in PrivateMin .. PrivateMax
  BY <1>1 DEF RequestsOf, WorkloadAssumption
<1>3. request'.doc \in Documents
  <2>1. served % NumDocuments \in Documents
    <3>1. \A n \in Nat, m \in Nat \ {0} : n % m \in 0 .. m - 1
      OBVIOUS
    <3> QED BY <1>1, <3>1 DEF Documents, ChunkingAssumption
  <2> QED BY <1>2, <2>1 DEF DocumentsFor
<1>4. /\ request'.shared <= DocumentLength[request'.doc]
      /\ request'.shared <= request'.prompt
  <2>1. DocumentLength[request'.doc] \in Nat
    BY <1>3 DEF WorkloadAssumption
  <2>2. request'.shared <= MinOf(SharedMax, DocumentLength[request'.doc])
    BY <1>2, <2>1 DEF PrefixLengths, MinOf, WorkloadAssumption
  <2>3. \A n, a, b \in Nat : n <= MinOf(a, b) => n <= b
    BY DEF MinOf
  <2>4. request'.shared <= DocumentLength[request'.doc]
    BY <1>2, <2>1, <2>2, <2>3 DEF WorkloadAssumption
  <2>5. \A m, n, a \in Nat : n - m \in a .. PrivateMax => m <= n
    OBVIOUS
  <2>6. request'.shared <= request'.prompt
    BY <1>2, <2>5 DEF WorkloadAssumption
  <2> QED BY <2>4, <2>6
<1>5. pos' < request'.shared => pos' = Len(chunks') * ChunkSize
  BY <1>1 DEF ChunkingAssumption
<1>6. Tiling'
  BY <1>1, <1>2, <1>3, <1>4, <1>5 DEF Tiling
<1>7. served' # 0 /\ request'.id = served' - 1
  BY <1>1, <1>2
<1> QED BY <1>4, <1>6, <1>7 DEF RequestInv

LEMMA RequestStep ==
  ASSUME TypeInv, RequestInv, Next
  PROVE  RequestInv'
<1>1. CASE Arrive
  BY <1>1, ArriveRequest
<1>2. CASE Prefill
  <2>1. /\ served' = served /\ request' = request
        /\ Materialise => chunks' = chunks /\ pos' = pos /\ phase \notin {"split", "idle"}
    BY <1>2, PrefillFrame
  <2>2. ScheduleTypeOK /\ Tiling
    BY DEF TypeInv, RequestInv
  <2>3. Tiling'
    <3>1. CASE Split
      BY <2>2, <3>1, SplitTiles DEF Split
    <3>2. CASE Schedule /\ SplitDone
      BY <2>2, <3>2, SplitDoneTiles
    <3>3. CASE Schedule /\ ~SplitDone
      <4>1. UNCHANGED <<request, pos, chunks>>
        BY <3>3 DEF Schedule, StartScan
      <4>2. phase # "split"
        BY <3>3, CakeTypes DEF Schedule, StartScan
      <4> QED BY <2>2, <4>1, <4>2, SameTiling
    <3>4. CASE Materialise
      BY <2>1, <2>2, <3>4, SameTiling
    <3> QED BY <1>2, <3>1, <3>2, <3>3, <3>4 DEF Prefill
  <2>4. served > 0
    <3>1. phase # "idle"
      <4>1. CASE Split
        BY <4>1 DEF Split, SplitStep, SplitShared, SplitPrivate
      <4>2. CASE Schedule
        BY <4>2, ScheduleFrame
      <4> QED BY <1>2, <2>1, <4>1, <4>2 DEF Prefill
    <3> QED BY <3>1 DEF RequestInv, TypeInv, ControlTypeOK
  <2> QED BY <2>1, <2>3, <2>4 DEF RequestInv
<1> QED BY <1>1, <1>2 DEF Next

\* Whatever a step adds to a tier or makes pending is aligned.
LEMMA EntriesStep ==
  ASSUME TypeInv, SafetyInv, RequestInv, EntriesAligned, Next, TypeInv'
  PROVE  EntriesAligned'
<1>1. ASSUME NEW key, NEW start, Aligned(key, start)
      PROVE  Aligned(key, start)'
  BY <1>1, AlignedArrive, AlignedKept, PrefillFrame DEF Next
<1>2. ASSUME NEW t \in Tiers, NEW key \in DOMAIN tiers'[t],
             NEW start, start = tiers'[t][key].start
      PROVE  Aligned(key, start)'
  <2>1. Aligned(key, start)
    <3>1. CASE key \in DOMAIN tiers[t] /\ tiers'[t][key] = tiers[t][key]
      BY <1>2, <3>1 DEF EntriesAligned
    <3>2. CASE /\ ~Idle /\ key = cache_key(pending) /\ pending \in Chunk
               /\ tiers'[t][key] = extent(pending)
      BY <1>2, <3>2, ChunkFields DEF EntriesAligned
    <3>3. CASE /\ WriteThroughOne /\ key = Key(cursor) /\ chunks[cursor] \in Chunk
               /\ tiers'[t][key] = extent(chunks[cursor])
      <4>1. Storing /\ cursor \in DOMAIN chunks /\ start = chunks[cursor].start
        BY <1>2, <3>3, UpsertStep, ChunkFields DEF Storing
      <4> QED BY <3>3, <4>1, ChunkAligned
    <3> QED BY <3>1, <3>2, <3>3, EntrySteps
  <2> QED BY <1>1, <2>1
<1>3. ASSUME pending' # NoChunk, NEW key, key = cache_key(pending'),
             NEW start, start = pending'.start
      PROVE  Aligned(key, start)'
  <2>1. Aligned(key, start)
    <3>1. CASE ~Idle /\ pending' = pending
      BY <1>3, <3>1 DEF EntriesAligned
    <3>2. CASE /\ ColdLoad
               /\ plan[cursor].source \in Tiers
               /\ Key(cursor) \in DOMAIN tiers[plan[cursor].source]
               /\ cache_key(pending') = Key(cursor)
               /\ pending'.start = tiers[plan[cursor].source][Key(cursor)].start
      BY <1>3, <3>2 DEF EntriesAligned
    <3>3. CASE Recomputes /\ pending' = chunks[cursor] /\ cursor \in DOMAIN chunks
      <4>1. Storing
        BY <3>3 DEF Recomputes, At, Storing
      <4> QED BY <1>3, <3>3, <4>1, ChunkAligned DEF Key
    <3> QED BY <1>3, <3>1, <3>2, <3>3, PendingSteps
  <2> QED BY <1>1, <2>1
<1>4. (\A t \in Tiers : \A key \in DOMAIN tiers[t] : Aligned(key, tiers[t][key].start))'
  <2> SUFFICES ASSUME NEW t \in Tiers, NEW key \in DOMAIN tiers'[t]
               PROVE  Aligned(key, tiers[t][key].start)'
    OBVIOUS
  <2>1. PICK start : start = tiers'[t][key].start
    OBVIOUS
  <2>2. Aligned(key, start)'
    BY <1>2, <2>1
  <2> QED BY <2>1, <2>2 DEF Aligned
<1>5. (~Idle => Aligned(cache_key(pending), pending.start))'
  <2> SUFFICES ASSUME pending' # NoChunk
               PROVE  Aligned(cache_key(pending), pending.start)'
    BY DEF Idle
  <2>1. PICK key, start : key = cache_key(pending') /\ start = pending'.start
    OBVIOUS
  <2>2. Aligned(key, start)'
    BY <1>3, <2>1
  <2> QED BY <2>1, <2>2 DEF Aligned
<1> QED BY <1>4, <1>5 DEF EntriesAligned


\* No private chunk is planned to be loaded: an entry under its key would be
\* of this request, which has not stored anything yet.
LEMMA PrivateStep ==
  ASSUME TypeInv, SafetyInv, AlignInv, Next, TypeInv'
  PROVE  PrivateSuffixNeverLoaded'
<1>1. CASE Arrive
  BY <1>1 DEF Arrive, FrontsReset, PrivateSuffixNeverLoaded
<1>2. CASE Split
  <2>1. phase = "split" /\ plan' = plan
    BY <1>2 DEF Split, SplitStep, SplitShared, SplitPrivate
  <2> QED BY <2>1 DEF SafetyInv, PlanInv, PrivateSuffixNeverLoaded
<1>3. CASE Schedule
  <2> SUFFICES ASSUME NEW i \in DOMAIN plan', plan'[i].action = "load"
               PROVE  chunks[i].cid \in Documents
    BY <1>3, ScheduleFrame DEF PrivateSuffixNeverLoaded, Loads
  <2>1. Covers(plan'[i].source, chunks[i])
    BY <1>3, PlannedLoads DEF SafetyInv
  <2>2. /\ chunks' = chunks /\ phase' \in {"scan", "sweep", "scheduled"}
        /\ phase \in {"split", "scan", "sweep"}
    BY <1>3, ScheduleFrame
  <2>3. i \in DOMAIN chunks /\ plan'[i] \in Decision
    BY <2>2 DEF TypeInv, ScheduleTypeOK, Bookkeeping
  <2>4. plan'[i].source \in Tiers
    BY <2>3, LoadSource
  <2> QED BY <2>1, <2>2, <2>3, <2>4, CoveredIsServed DEF AlignInv, Storing
<1>4. CASE Materialise
  <2>1. plan' = plan /\ chunks' = chunks
    BY <1>4, PrefillFrame DEF Prefill
  <2> QED BY <2>1 DEF AlignInv, PrivateSuffixNeverLoaded, Loads
<1> QED BY <1>1, <1>2, <1>3, <1>4 DEF Next, Prefill

LEMMA InitAligned == Init => AlignInv
<1> SUFFICES ASSUME Init PROVE AlignInv
  OBVIOUS
<1>1. /\ phase = "idle" /\ plan = <<>> /\ chunks = <<>> /\ pos = 0 /\ served = 0 /\ Idle
      /\ request = [id |-> 0, doc |-> 0, shared |-> 0, prompt |-> 0]
      /\ \A t \in Tiers : DOMAIN tiers[t] = {}
  BY DEF Init, CacheInit, Idle, EmptyDict
<1>2. request.doc \in Documents /\ request.shared <= DocumentLength[request.doc]
  BY <1>1 DEF Documents, WorkloadAssumption, ChunkingAssumption
<1>3. RequestInv
  BY <1>1, <1>2 DEF RequestInv, Tiling
<1> QED BY <1>1, <1>3 DEF AlignInv, EntriesAligned, PrivateSuffixNeverLoaded

LEMMA AlignStep ==
  ASSUME TypeInv, SafetyInv, AlignInv, [Next]_vars, TypeInv'
  PROVE  AlignInv'
<1>1. CASE UNCHANGED vars
  <2>1. /\ tiers' = tiers /\ phase' = phase /\ plan' = plan /\ chunks' = chunks
        /\ pending' = pending /\ request' = request /\ pos' = pos /\ served' = served
    BY <1>1 DEF vars, managerVars, chunkingVars
  <2>2. RequestInv'
    BY <2>1, SameTiling DEF AlignInv, RequestInv
  <2>3. EntriesAligned'
    BY <2>1 DEF AlignInv, EntriesAligned, Aligned, Idle, Storing, private_cache_id
  <2> QED BY <2>1, <2>2, <2>3 DEF AlignInv, PrivateSuffixNeverLoaded, Loads
<1>2. CASE Next
  BY <1>2, RequestStep, EntriesStep, PrivateStep DEF AlignInv
<1> QED BY <1>1, <1>2

LEMMA SpecAligned == Spec => []AlignInv
  BY InitAligned, AlignStep, PrefillInvariant, PTL DEF Spec

\* A private suffix is never loaded, so a request never takes another one's
\* private tokens for its own.
THEOREM PrivateNeverLoaded == Spec => []PrivateSuffixNeverLoaded
<1>1. AlignInv => PrivateSuffixNeverLoaded
  BY DEF AlignInv
<1> QED BY <1>1, SpecAligned, PTL

\* A planned load finds, when its turn comes, the whole token range of its
\* chunk where the scheduler found it: no earlier load, store or eviction of
\* the same prefill takes it away or replaces it by a shifted one.
THEOREM PlannedLoadsServed == Spec => []PendingLoadsServed
<1>1. TypeInv /\ SafetyInv /\ AlignInv => PendingLoadsServed
  <2> SUFFICES ASSUME TypeInv, SafetyInv, AlignInv,
                      NEW i \in DOMAIN plan, LoadPending(i)
               PROVE  RangeServed(plan[i].source, chunks[i])
    BY DEF PendingLoadsServed
  <2>1. Covers(plan[i].source, chunks[i])
    BY DEF SafetyInv, LoadsInv
  <2>2. plan[i].source \in Tiers
    BY LoadSource DEF LoadPending, Loads, TypeInv, ScheduleTypeOK
  <2>3. i \in DOMAIN chunks
    BY DEF LoadPending, TypeInv, Bookkeeping
  <2> QED BY <2>1, <2>2, <2>3, CoveredIsServed DEF AlignInv
<1> QED BY <1>1, PrefillInvariant, SpecAligned, PTL

\* After a prefill each write-through tier holds the whole token range of each
\* chunk of its prompt.
THEOREM ServedPromptsAreWarm == Spec => []ServedPromptIsWarm
<1>1. TypeInv /\ SafetyInv /\ AlignInv => ServedPromptIsWarm
  <2> SUFFICES ASSUME TypeInv, SafetyInv, AlignInv, phase = "idle",
                      NEW i \in DOMAIN chunks, NEW j \in DOMAIN WriteThrough
               PROVE  RangeServed(WriteThrough[j], chunks[i])
    BY DEF ServedPromptIsWarm
  <2>1. i \in DOMAIN plan
    BY DEF TypeInv, Bookkeeping
  <2>2. Covers(WriteThrough[j], chunks[i])
    BY <2>1 DEF SafetyInv, WarmInv, WarmBy
  <2> QED BY <2>2, WriteThroughFacts, CoveredIsServed DEF AlignInv
<1> QED BY <1>1, PrefillInvariant, SpecAligned, PTL

-----------------------------------------------------------------------------
(* A prompt that fits stays in the GPU.                                    *)

\* A chunk that is to be loaded from a cold tier is not in the GPU.
ColdLoadsAbsent ==
  \A i \in DOMAIN plan :
    LoadPending(i) /\ plan[i].source # GPU => ~Present(GPU, Key(i))

\* The store under way is that of the chunk under the cursor.
StoreInv ==
  ~Idle =>
    /\ cache_key(pending) = Key(cursor) /\ ~Present(GPU, Key(cursor))
    /\ chunks[cursor].end <= pending.end
    /\ \/ phase = "coldLoads" /\ Loads(cursor) /\ plan[cursor].source # GPU
       \/ phase = "recompute" /\ plan[cursor].action = "recompute"

\* No recency stamp is ahead of the clock.
StampInv == \A key \in DOMAIN lastAccess : lastAccess[key] <= clock

RecencyInv == ColdLoadsAbsent /\ StoreInv /\ (Policy = "lru" => StampInv)

\* The keys of a prompt are distinct.
LEMMA KeysDiffer ==
  ASSUME TypeInv, RequestInv, NEW i \in DOMAIN chunks, NEW j \in DOMAIN chunks,
         Key(i) = Key(j)
  PROVE  i = j
<1>1. \A n \in DOMAIN chunks : Key(n)[2] + 1 = n
  BY ChunkAligned
<1> QED BY <1>1

\* While a store is under way, the next step is one of its own.
LEMMA StoreStepsOnly ==
  ASSUME TypeInv, Next, ~Idle
  PROVE  MakeRoom \/ FinishStore
<1>1. phase \in {"coldLoads", "recompute"}
  BY DEF TypeInv, Bookkeeping
<1>2. ~Arrive /\ ~Split /\ ~Schedule
  BY <1>1, ScheduleFrame DEF Arrive, Split, SplitStep, SplitShared, SplitPrivate
<1> QED BY <1>1, <1>2
        DEF Next, Prefill, Materialise, BeginMaterialise, EndOfPhase, SkipOther, At,
            GpuLoad, ColdLoad, Recomputes, WriteThroughOne, WriteThroughDone

\* Carrying the plan out makes no load pending that was not.
LEMMA PendingLoadsShrink ==
  ASSUME TypeInv, Materialise, NEW i \in DOMAIN plan, LoadPending(i)'
  PROVE  LoadPending(i)
<1>1. /\ plan' = plan /\ i \in Nat /\ cursor \in Nat /\ phase \notin {"split", "idle"}
  BY PrefillFrame, ScheduleFacts DEF Prefill, TypeInv, ControlTypeOK
<1>2. CASE BeginMaterialise
  BY <1>1, <1>2 DEF BeginMaterialise, LoadPending, Loads
<1>3. CASE EndOfPhase
  BY <1>1, <1>3 DEF EndOfPhase, GoTo, PhaseAfter, LoadPending, Loads
<1>4. CASE SkipOther \/ GpuLoad \/ ColdLoad
  <2>1. /\ phase \in {"gpuLoads", "coldLoads", "recompute"}
        /\ phase' \in {phase, "failed"} /\ cursor' \in {cursor, cursor + 1}
    BY <1>4 DEF SkipOther, GpuLoad, ColdLoad, At, Advance, Raise, StoreLoaded, Fail
  <2> QED BY <1>1, <2>1 DEF LoadPending, Loads
<1>5. CASE MakeRoom \/ FinishStore
  <2>1. /\ phase \in {"coldLoads", "recompute"}
        /\ phase' \in {phase, "writeThrough"} /\ cursor' \in {cursor, cursor + 1}
    BY <1>5 DEF MakeRoom, FinishStore, EvictVictim, InsertPending, Advance,
                BeginWriteThrough, TypeInv, Bookkeeping
  <2> QED BY <1>1, <2>1 DEF LoadPending, Loads
<1>6. CASE Recomputes \/ WriteThroughOne \/ WriteThroughDone
  <2>1. phase' \in {"recompute", "writeThrough", "failed"}
    BY <1>6 DEF Recomputes, At, BeginWriteThrough, Fail, Raise, WriteThroughOne,
                WriteThroughDone
  <2> QED BY <2>1 DEF LoadPending
<1> QED BY <1>2, <1>3, <1>4, <1>5, <1>6 DEF Materialise

\* A store neither in progress nor finishing adds nothing to the GPU.
LEMMA GPUSteps ==
  ASSUME TypeInv, Next, NEW key \in DOMAIN tiers'[GPU]
  PROVE  \/ key \in DOMAIN tiers[GPU] /\ tiers'[GPU][key] = tiers[GPU][key]
         \/ FinishStore /\ key = cache_key(pending)
<1>1. GPU \in Tiers /\ GPU \notin ColdTiers
  BY DEF Tiers, TierAssumption
<1>2. CASE WriteThroughOne
  BY <1>1, <1>2, UpsertStep
<1>3. CASE ~WriteThroughOne
  <2>1. \/ key \in DOMAIN tiers[GPU] /\ tiers'[GPU][key] = tiers[GPU][key]
        \/ ~Idle /\ key = cache_key(pending)
    BY <1>1, <1>3, EntrySteps
  <2>2. CASE MakeRoom
    <3>1. PICK k \in DOMAIN tiers[GPU] : RemoveFromGPU(k)
      BY <2>2 DEF MakeRoom, EvictVictim, Victims
    <3>2. tiers'[GPU] = drop(tiers[GPU], k)
      BY <3>1, RemoveFromGPUFacts DEF TypeInv
    <3> QED BY <3>2, DropEntries
  <2> QED BY <2>1, <2>2, StoreStepsOnly
<1> QED BY <1>2, <1>3

LEMMA AbsentStep ==
  ASSUME TypeInv, SafetyInv, RequestInv, ColdLoadsAbsent, StoreInv, Next, TypeInv'
  PROVE  ColdLoadsAbsent'
<1> SUFFICES ASSUME NEW i \in DOMAIN plan', LoadPending(i)', plan'[i].source # GPU
             PROVE  ~Present(GPU, Key(i))'
  BY DEF ColdLoadsAbsent
<1>1. CASE Arrive
  BY <1>1 DEF Arrive, FrontsReset
<1>2. CASE Split
  BY <1>2 DEF Split, SplitStep, SplitShared, SplitPrivate, SafetyInv, PlanInv
<1>3. CASE Schedule
  <2>1. /\ tiers' = tiers /\ chunks' = chunks /\ plan'[i].action = "load"
        /\ phase \in {"split", "scan", "sweep"}
    BY <1>3, ScheduleFrame DEF LoadPending, Loads
  <2>2. CASE i \in DOMAIN plan /\ plan'[i] = plan[i] /\ phase \in {"scan", "sweep"}
    BY <2>1, <2>2 DEF ColdLoadsAbsent, LoadPending, Loads, Present, Key
  <2>3. CASE find_cached(chunks[i]) # NoTier /\ plan'[i].source = find_cached(chunks[i])
    BY <2>1, <2>3, FindCachedFirst DEF Present, Key
  <2> QED BY <1>3, <2>1, <2>2, <2>3, PlannedSource
<1>4. CASE Materialise
  <2>1. /\ chunks' = chunks /\ plan' = plan /\ phase # "split"
    BY <1>4, PrefillFrame DEF Prefill
  <2>2. i \in DOMAIN plan /\ i \in DOMAIN chunks /\ i \in Nat /\ cursor \in Nat
    BY <2>1, ScheduleFacts DEF TypeInv, Bookkeeping, ControlTypeOK
  <2>3. ~Present(GPU, Key(i))
    BY <1>4, <2>1, <2>2, PendingLoadsShrink DEF ColdLoadsAbsent
  <2>4. ~(FinishStore /\ Key(i) = cache_key(pending))
    <3> SUFFICES ASSUME FinishStore PROVE Key(i) # cache_key(pending)
      OBVIOUS
    <3>1. /\ ~Idle /\ \/ phase = "coldLoads" /\ phase' = phase /\ cursor' = cursor + 1
                      \/ phase' = "writeThrough"
      BY DEF FinishStore, InsertPending, Advance, BeginWriteThrough
    <3>2. cursor \in DOMAIN chunks /\ cache_key(pending) = Key(cursor)
      BY <3>1 DEF StoreInv, TypeInv, Bookkeeping
    <3>3. i # cursor
      BY <2>1, <2>2, <3>1 DEF LoadPending
    <3> QED BY <2>2, <3>2, <3>3, KeysDiffer
  <2>5. Key(i)' = Key(i)
    BY <2>1 DEF Key
  <2> QED BY <2>3, <2>4, <2>5, GPUSteps DEF Present
<1> QED BY <1>1, <1>2, <1>3, <1>4 DEF Next, Prefill

LEMMA StoreStep ==
  ASSUME TypeInv, SafetyInv, ColdLoadsAbsent, StoreInv, Next
  PROVE  StoreInv'
<1> SUFFICES ASSUME pending' # NoChunk PROVE StoreInv'
  BY DEF StoreInv, Idle
<1>1. CASE ~Idle /\ pending' = pending
  <2>1. MakeRoom
    BY <1>1, StoreStepsOnly DEF FinishStore, InsertPending
  <2>2. /\ phase' = phase /\ cursor' = cursor /\ plan' = plan /\ chunks' = chunks
    BY <2>1 DEF MakeRoom, scheduleVars
  <2>3. ~FinishStore
    BY <1>1 DEF FinishStore, InsertPending
  <2>4. ~Present(GPU, Key(cursor))'
    BY <1>1, <2>2, <2>3, GPUSteps DEF StoreInv, Present, Key
  <2> QED BY <1>1, <2>2, <2>4 DEF StoreInv, Idle, Key, Loads
<1>2. CASE ColdLoad /\ pending' = StoredSource(cursor)
  <2>1. /\ At("coldLoads") /\ phase = "coldLoads" /\ Loads(cursor) /\ Idle
        /\ plan[cursor].source # GPU
        /\ plan' = plan /\ chunks' = chunks
    BY <1>2 DEF ColdLoad, At, scheduleVars
  <2>2. /\ plan[cursor].source \in Tiers /\ cursor \in DOMAIN plan
        /\ cursor \in DOMAIN chunks /\ Present(plan[cursor].source, Key(cursor))
    BY <2>1, LoadFinds, CursorFacts
  <2>3. /\ store(StoredSource(cursor)) /\ StoreLoaded(StoredSource(cursor))
        /\ ~Oversized(StoredSource(cursor))
    BY <1>2, <2>1, <2>2 DEF ColdLoad, StoreLoaded, Fail, managerVars, Idle
  <2>4. /\ cache_key(StoredSource(cursor)) = Key(cursor)
        /\ StoredSource(cursor).end = coverage(tiers[plan[cursor].source], Key(cursor))
    BY <2>1, <2>2, StoredSourceFacts
  <2>5. ~Present(GPU, Key(cursor)) /\ tiers' = tiers
    BY <2>1, <2>3, <2>4 DEF store, KeepResident, Idle
  <2>6. phase' = phase /\ cursor' = cursor
    BY <2>3, <2>4, <2>5 DEF StoreLoaded
  <2>7. chunks[cursor].end <= StoredSource(cursor).end
    <3>1. LoadPending(cursor)
      BY <2>1, <2>2, ScheduleFacts DEF LoadPending
    <3>2. coverage(tiers[plan[cursor].source], Key(cursor)) >= chunks[cursor].end
      BY <2>2, <3>1 DEF SafetyInv, LoadsInv, Covers, Key
    <3> QED BY <2>4, <3>2
  <2> QED BY <1>2, <2>1, <2>4, <2>5, <2>6, <2>7 DEF StoreInv, Present, Key, Loads
<1>3. CASE Recomputes /\ pending' = chunks[cursor] /\ cursor \in DOMAIN chunks
  <2>1. /\ phase = "recompute" /\ plan[cursor].action = "recompute" /\ Idle
        /\ plan' = plan /\ chunks' = chunks
        /\ store_replacing(chunks[cursor]) /\ phase' = phase /\ cursor' = cursor
    BY <1>3 DEF Recomputes, At, scheduleVars, Fail, managerVars, Idle
  <2>2. ~Present(GPU, Key(cursor))'
    <3>1. CASE RemoveFromGPU(Key(cursor)) /\ Present(GPU, Key(cursor))
      <4>1. tiers'[GPU] = drop(tiers[GPU], Key(cursor))
        BY <3>1, RemoveFromGPUFacts DEF TypeInv, Present
      <4> QED BY <2>1, <4>1 DEF drop, Present, Key
    <3>2. CASE tiers' = tiers /\ ~Present(GPU, Key(cursor))
      BY <2>1, <3>2 DEF Present, Key
    <3> QED BY <2>1, <3>1, <3>2 DEF store_replacing, KeepResident, Idle, Key
  <2>3. chunks[cursor].end \in Nat
    BY <1>3, ScheduleFacts, ChunkFields
  <2> QED BY <1>3, <2>1, <2>2, <2>3 DEF StoreInv, Key, Loads
<1> QED BY <1>1, <1>2, <1>3, PendingSteps

\* The three operations of the policy keep the stamps behind the clock.
LEMMA RecordStamps ==
  ASSUME CacheInv, StampInv, Policy = "lru", NEW key,
         record_access(key) \/ record_store(key) \/ record_remove(key)
  PROVE  StampInv'
<1>1. clock \in Nat /\ IsDict(lastAccess, Nat)
  BY DEF CacheInv, CacheTypeOK
<1>2. \/ clock' = clock + 1 /\ lastAccess' = set(lastAccess, key, clock + 1)
      \/ clock' = clock /\ lastAccess' = pop(lastAccess, key)
  BY DEF record_access, record_store, record_remove
<1>3. \A k \in DOMAIN lastAccess : lastAccess[k] \in Nat
  BY <1>1 DEF IsDict
<1>4. \A k \in DOMAIN lastAccess' :
        \/ lastAccess'[k] = clock'
        \/ k \in DOMAIN lastAccess /\ lastAccess'[k] = lastAccess[k]
  BY <1>2 DEF set, pop
<1>5. clock' \in Nat /\ clock <= clock'
  BY <1>1, <1>2
<1> SUFFICES ASSUME NEW k \in DOMAIN lastAccess' PROVE lastAccess'[k] <= clock'
  BY DEF StampInv
<1>6. CASE lastAccess'[k] = clock'
  BY <1>5, <1>6
<1>7. CASE k \in DOMAIN lastAccess /\ lastAccess'[k] = lastAccess[k]
  BY <1>1, <1>3, <1>5, <1>7 DEF StampInv
<1> QED BY <1>4, <1>6, <1>7

LEMMA StampStep ==
  ASSUME TypeInv, StampInv, Policy = "lru", Next
  PROVE  StampInv'
<1>1. CacheInv
  BY DEF TypeInv
<1>2. CASE UNCHANGED policyVars
  BY <1>2 DEF StampInv, policyVars
<1>3. CASE ManagerStep
  <2>1. ASSUME NEW key, access(key) PROVE StampInv'
    BY <1>1, <1>2, <2>1, RecordStamps DEF access
  <2>2. ASSUME NEW c, store(c) \/ store_replacing(c) PROVE StampInv'
    BY <1>1, <1>2, <2>2, RecordStamps DEF store, store_replacing, KeepResident, RemoveFromGPU
  <2>3. CASE EvictVictim
    BY <1>1, <2>3, RecordStamps DEF EvictVictim, RemoveFromGPU
  <2>4. CASE InsertPending
    BY <1>1, <2>4, RecordStamps DEF InsertPending
  <2> QED BY <1>3, <2>1, <2>2, <2>3, <2>4 DEF ManagerStep
<1>4. CASE WriteThroughOne
  BY <1>2, <1>4 DEF WriteThroughOne, managerVars, policyVars
<1> QED BY <1>2, <1>3, <1>4, TierSteps

LEMMA SpecRecency == Spec => []RecencyInv
<1>1. Init => RecencyInv
  BY DEF Init, CacheInit, PolicyInit, RecencyInv, ColdLoadsAbsent, StoreInv, StampInv, Idle
<1>2. TypeInv /\ SafetyInv /\ AlignInv /\ RecencyInv /\ [Next]_vars /\ TypeInv' => RecencyInv'
  <2> SUFFICES ASSUME TypeInv, SafetyInv, AlignInv, RecencyInv, [Next]_vars, TypeInv'
               PROVE  RecencyInv'
    OBVIOUS
  <2>1. CASE UNCHANGED vars
    <3>1. /\ tiers' = tiers /\ phase' = phase /\ plan' = plan /\ chunks' = chunks
          /\ cursor' = cursor /\ pending' = pending
          /\ lastAccess' = lastAccess /\ clock' = clock
      BY <2>1 DEF vars, managerVars, chunkingVars
    <3> QED BY <3>1 DEF RecencyInv, ColdLoadsAbsent, StoreInv, StampInv, LoadPending, Loads,
                        Present, Key, Idle
  <2>2. CASE Next
    BY <2>2, AbsentStep, StoreStep, StampStep DEF RecencyInv, AlignInv
  <2> QED BY <2>1, <2>2
<1> QED BY <1>1, <1>2, PrefillInvariant, SpecAligned, PTL DEF Spec

-----------------------------------------------------------------------------
(* What the current prompt needs of the GPU.                               *)

\* The most that a tier holds of chunk i once its prefill is over: what the
\* first write-through tier covers, which is at least the chunk by then.
Need(i) ==
  MaxOf(coverage(tiers[Home], Key(i)), chunks[i].end) - chunks[i].start

Needs == [i \in DOMAIN chunks |-> Need(i)]

PromptFits == BytesPerToken * SumFunction(Needs) <= Capacity[GPU]

LEMMA FirstWriteThrough ==
  ASSUME WriteThrough # <<>>
  PROVE  1 \in DOMAIN WriteThrough /\ Home \in ColdTiers /\ Home \in Tiers /\ Home # GPU
<1>1. 1 \in DOMAIN WriteThrough
  BY EmptySeq, LenProperties DEF WriteThroughAssumption
<1> QED BY <1>1, WriteThroughFacts DEF Home, TierAssumption

LEMMA NeedFacts ==
  ASSUME TypeInv, WriteThrough # <<>>, NEW i \in DOMAIN chunks
  PROVE  /\ Need(i) \in Nat
         /\ coverage(tiers[Home], Key(i)) - chunks[i].start <= Need(i)
         /\ chunks[i].end - chunks[i].start <= Need(i)
<1>1. chunks[i].start \in Nat /\ chunks[i].end \in Nat /\ chunks[i].start < chunks[i].end
  BY ScheduleFacts, ChunkFields
<1>2. coverage(tiers[Home], Key(i)) \in Nat
  BY FirstWriteThrough, CoverageFacts DEF TypeInv, CacheInv, CacheTypeOK
<1> QED BY <1>1, <1>2 DEF Need, MaxOf

\* Carrying the plan out does not change the need: the write-through of a chunk
\* raises the coverage to what was counted already.
LEMMA NeedsStay ==
  ASSUME TypeInv, RequestInv, WriteThrough # <<>>, Materialise, phase' # "failed"
  PROVE  Needs' = Needs
<1>1. chunks' = chunks
  BY PrefillFrame DEF Prefill
<1>2. ASSUME NEW i \in DOMAIN chunks
      PROVE  Need(i)' = Need(i)
  <2> DEFINE key == Key(i)
  <2>1. Key(i)' = key
    BY <1>1 DEF Key
  <2>2. CASE coverage(tiers'[Home], key) = coverage(tiers[Home], key)
    BY <1>1, <2>1, <2>2 DEF Need, Home
  <2>3. CASE tiers'[Home] # tiers[Home] /\ key = Key(cursor)
    <3> DEFINE c == chunks[cursor]
    <3>1. WriteThroughOne
      BY <2>3, FirstWriteThrough, ColdTierSteps DEF Next, Prefill
    <3>2. /\ cursor \in DOMAIN chunks /\ c \in Chunk
          /\ Home = WriteThrough[wtCursor]
          /\ tiers'[Home] = upsert(Home, tiers[Home], c)
      BY <2>3, <3>1, FirstWriteThrough, UpsertStep
    <3>3. ~upsert_raises(Home, tiers[Home], c)
      BY <3>1, <3>2 DEF WriteThroughOne, Raise
    <3>4. /\ coverage(tiers'[Home], key) = MaxOf(coverage(tiers[Home], key), c.end)
          /\ coverage(tiers[Home], key) \in Nat
      BY <2>3, <3>2, <3>3, FirstWriteThrough, UpsertFacts, CoverageFacts
         DEF TypeInv, CacheInv, CacheTypeOK, Key
    <3>5. c.end \in Nat /\ chunks[i].end = c.end
      BY <1>2, <2>3, <3>2, ChunkFields, KeysDiffer
    <3> QED BY <1>1, <2>1, <3>4, <3>5 DEF Need, MaxOf, Home
  <2>4. CASE tiers'[Home] # tiers[Home] /\ key # Key(cursor)
    <3>1. WriteThroughOne
      BY <2>4, FirstWriteThrough, ColdTierSteps DEF Next, Prefill
    <3>2. /\ chunks[cursor] \in Chunk
          /\ tiers'[Home] = upsert(Home, tiers[Home], chunks[cursor])
      BY <2>4, <3>1, FirstWriteThrough, UpsertStep
    <3>3. coverage(tiers'[Home], key) = coverage(tiers[Home], key)
      BY <2>4, <3>2, FirstWriteThrough, UpsertFacts
         DEF TypeInv, CacheInv, CacheTypeOK, Key
    <3> QED BY <2>2, <3>3
  <2> QED BY <2>2, <2>3, <2>4
<1> QED BY <1>1, <1>2 DEF Needs

\* An entry no longer than n tokens.
LEMMA SizeWithin ==
  ASSUME NEW x \in Extent, NEW n \in Nat, x.end - x.start <= n
  PROVE  size_bytes(x) <= BytesPerToken * n
<1>1. x.end - x.start \in Nat /\ BytesPerToken \in Nat
  BY DEF Extent, ChunkingAssumption
<1>2. \A a, b, m \in Nat : a <= m => a * b <= b * m
  OBVIOUS
<1> QED BY <1>1, <1>2 DEF size_bytes

\* What the GPU holds of the prompt, and what a store is about to add, is no
\* more than the prompt needs.
LEMMA EntryWithinNeed ==
  ASSUME TypeInv, SafetyInv, AlignInv, WriteThrough # <<>>, Settled,
         NEW i \in DOMAIN chunks, Key(i) \in DOMAIN tiers[GPU]
  PROVE  size_bytes(tiers[GPU][Key(i)]) <= BytesPerToken * Need(i)
<1> DEFINE x == tiers[GPU][Key(i)]
<1>1. x \in Extent /\ GPU \in Tiers
  BY DEF TypeInv, CacheInv, CacheTypeOK, IsDict, Tiers
<1>2. x.start = chunks[i].start
  BY <1>1, AlignedStart DEF AlignInv, EntriesAligned
<1>3. x.end <= coverage(tiers[Home], Key(i))
  <2>1. coverage(tiers[GPU], Key(i)) <= coverage(WrittenBy(1), Key(i))
    BY <1>1, FirstWriteThrough, StrictDominance DEF SafetyInv
  <2> QED BY <2>1 DEF coverage, WrittenBy, Home
<1>4. coverage(tiers[Home], Key(i)) \in Nat /\ x.end \in Nat /\ x.start \in Nat
  BY <1>1, FirstWriteThrough, CoverageFacts DEF TypeInv, CacheInv, CacheTypeOK, Extent
<1>5. x.end - x.start <= Need(i)
  BY <1>2, <1>3, <1>4, NeedFacts
<1> QED BY <1>1, <1>5, NeedFacts, SizeWithin

LEMMA PendingWithinNeed ==
  ASSUME TypeInv, SafetyInv, AlignInv, StoreInv, WriteThrough # <<>>, ~Idle
  PROVE  /\ cursor \in DOMAIN chunks /\ pending \in Chunk
         /\ cache_key(pending) = Key(cursor)
         /\ size_bytes(extent(pending)) <= BytesPerToken * Need(cursor)
<1>1. /\ cursor \in DOMAIN chunks /\ pending \in Chunk /\ cache_key(pending) = Key(cursor)
      /\ phase \in {"coldLoads", "recompute"}
  BY DEF StoreInv, TypeInv, Bookkeeping, CacheInv, CacheTypeOK, Idle
<1>2. /\ extent(pending) \in Extent
      /\ extent(pending).start = pending.start /\ extent(pending).end = pending.end
      /\ pending.start \in Nat /\ pending.end \in Nat
  BY <1>1, ChunkFields
<1>3. pending.start = chunks[cursor].start
  BY <1>1, AlignedStart DEF AlignInv, EntriesAligned
<1>4. coverage(tiers[Home], Key(cursor)) \in Nat
  BY FirstWriteThrough, CoverageFacts DEF TypeInv, CacheInv, CacheTypeOK
<1>5. pending.end - pending.start <= Need(cursor)
  <2>1. CASE phase = "coldLoads"
    <3>1. pending.end <= coverage(tiers[Home], Key(cursor))
      BY <1>1, <2>1, FirstWriteThrough DEF SafetyInv, PendingInv, WrittenBy, Home
    <3> QED BY <1>1, <1>2, <1>3, <1>4, <3>1, NeedFacts
  <2>2. CASE phase = "recompute"
    <3>1. pending = chunks[cursor]
      BY <2>2 DEF SafetyInv, PendingInv
    <3> QED BY <1>1, <3>1, NeedFacts
  <2> QED BY <1>1, <2>1, <2>2
<1> QED BY <1>1, <1>2, <1>5, NeedFacts, SizeWithin

\* With nothing but the prompt in the GPU there is room for the rest of it.
LEMMA PendingFits ==
  ASSUME TypeInv, SafetyInv, AlignInv, StoreInv, RetentionInv, WriteThrough # <<>>,
         ~Idle, PromptFits,
         \A key \in DOMAIN tiers[GPU] : \E i \in DOMAIN chunks : Key(i) = key
  PROVE  can_store(GPU, tiers[GPU], pending)
<1> DEFINE d == tiers[GPU]
           key == cache_key(pending)
           e == put(d, pending)
           h == [i \in DOMAIN chunks |-> Key(i)]
<1>1. /\ cursor \in DOMAIN chunks /\ pending \in Chunk /\ key = Key(cursor)
      /\ size_bytes(extent(pending)) <= BytesPerToken * Need(cursor)
  BY PendingWithinNeed
<1>2. IsDict(d, Extent) /\ IsFiniteSet(DOMAIN d) /\ key \notin DOMAIN d
  BY <1>1 DEF TypeInv, CacheInv, CacheTypeOK, Tiers, RetentionInv, CapacityInv, StoreInv,
              Present
<1>3. Settled
  BY DEF Settled, TypeInv, Bookkeeping
<1>4. /\ IsDict(e, Extent) /\ IsFiniteSet(DOMAIN e) /\ size_bytes(pending) \in Nat
      /\ used_bytes(e) = used_bytes(drop(d, key)) + size_bytes(pending)
      /\ used_bytes(d) = used_bytes(drop(d, key)) /\ used_bytes(d) \in Nat
  <2>1. /\ IsFiniteSet(DOMAIN e) /\ size_bytes(pending) \in Nat
        /\ used_bytes(e) = used_bytes(drop(d, key)) + size_bytes(pending)
    BY <1>1, <1>2, PutBytes
  <2>2. /\ IsDict(drop(d, key), Extent) /\ IsFiniteSet(DOMAIN drop(d, key))
        /\ used_bytes(d) = used_bytes(drop(d, key))
                             + IF key \in DOMAIN d THEN size_bytes(d[key]) ELSE 0
    BY <1>2, DropBytes, DropFacts
  <2>3. used_bytes(d) \in Nat /\ used_bytes(drop(d, key)) \in Nat
    BY <1>2, <2>2, BytesAreNat
  <2>4. used_bytes(d) = used_bytes(drop(d, key))
    BY <1>2, <2>2, <2>3
  <2>5. IsDict(e, Extent)
    BY <1>1, <1>2, PutFacts
  <2> QED BY <2>1, <2>3, <2>4, <2>5
<1>5. /\ IsFiniteSet(DOMAIN chunks)
      /\ \A i \in DOMAIN chunks : Needs[i] \in Nat
  BY ScheduleFacts, FS_Interval, NeedFacts DEF Needs
<1>6. ASSUME NEW k \in DOMAIN e
      PROVE  \E i \in DOMAIN chunks :
               h[i] = k /\ size_bytes(e[k]) <= BytesPerToken * Needs[i]
  <2>1. CASE k = key /\ e[k] = extent(pending)
    BY <1>1, <2>1 DEF Needs
  <2>2. CASE k \in DOMAIN d /\ e[k] = d[k]
    <3>1. PICK i \in DOMAIN chunks : Key(i) = k
      BY <2>2
    <3>2. size_bytes(d[k]) <= BytesPerToken * Need(i)
      BY <1>3, <2>2, <3>1, EntryWithinNeed
    <3> QED BY <2>2, <3>1, <3>2 DEF Needs
  <2> QED BY <2>1, <2>2, PutEntries
<1>7. used_bytes(e) <= BytesPerToken * SumFunctionOnSet(Needs, DOMAIN chunks)
  <2> HIDE DEF e, h
  <2> QED BY <1>4, <1>5, <1>6, BytesBound
<1>8. SumFunction(Needs) = SumFunctionOnSet(Needs, DOMAIN chunks)
  BY DEF SumFunction, Needs
<1>9. /\ BytesPerToken * SumFunctionOnSet(Needs, DOMAIN chunks) \in Nat
      /\ Capacity[GPU] \in Nat
  <2>1. SumFunctionOnSet(Needs, DOMAIN chunks) \in Nat
    BY <1>5, SumType
  <2> QED BY <2>1, NatProduct DEF ChunkingAssumption, TierAssumption, Tiers
<1> DEFINE used == used_bytes(d)
           size == size_bytes(pending)
           most == BytesPerToken * SumFunctionOnSet(Needs, DOMAIN chunks)
<1>10. /\ used \in Nat /\ size \in Nat /\ most \in Nat /\ Capacity[GPU] \in Nat
       /\ used + size <= most /\ most <= Capacity[GPU]
  BY <1>4, <1>7, <1>8, <1>9 DEF PromptFits
<1>11. size <= Capacity[GPU] - used
  <2> HIDE DEF used, size, most
  <2> QED BY <1>10
<1> QED BY <1>11 DEF can_store

-----------------------------------------------------------------------------
(* What the prefill has touched so far.                                    *)

\* The operation planned for chunk i has been carried out in the GPU.
Touched(i) ==
  \/ /\ Loads(i)
     /\ \/ phase \in {"recompute", "writeThrough", "idle"}
        \/ phase = "coldLoads" /\ (plan[i].source = GPU \/ i < cursor)
        \/ phase = "gpuLoads" /\ plan[i].source = GPU /\ i < cursor
  \/ /\ plan[i].action = "recompute"
     /\ \/ phase = "idle"
        \/ phase \in {"recompute", "writeThrough"} /\ i < cursor
        \/ phase = "writeThrough" /\ i = cursor

TouchedChunks == { i \in DOMAIN chunks : Touched(i) }

TouchedKeys == { Key(i) : i \in TouchedChunks }

\* Chunk i is in the GPU, and more recent than all that is not of its prompt
\* or not yet touched.
Resident(i) ==
  /\ Covers(GPU, chunks[i])
  /\ \A key \in DOMAIN tiers[GPU] \ TouchedKeys : lastAccess[key] < lastAccess[Key(i)]

ResidentInv ==
  phase \in {"gpuLoads", "coldLoads", "recompute", "writeThrough", "idle"} /\ PromptFits =>
    \A i \in TouchedChunks : Resident(i)

\* Three ways in which a step bears on what has been touched: not at all,
\* by a removal, by touching the chunk under the cursor.
StaysSame ==
  TouchedChunks' = TouchedChunks /\ tiers'[GPU] = tiers[GPU] /\ lastAccess' = lastAccess

Removes(key) ==
  /\ TouchedChunks' = TouchedChunks
  /\ key \in DOMAIN tiers[GPU] /\ RemoveFromGPU(key)
  /\ \/ ~Idle /\ ~can_store(GPU, tiers[GPU], pending) /\ key \in Victims
     \/ cursor \in DOMAIN chunks \ TouchedChunks /\ key = Key(cursor)

Touches(i) ==
  /\ i \in DOMAIN chunks
  /\ TouchedChunks' = TouchedChunks \cup {i}
  /\ coverage(tiers'[GPU], Key(i)) >= chunks[i].end
  /\ \A key : key # Key(i) => coverage(tiers'[GPU], key) = coverage(tiers[GPU], key)
  /\ DOMAIN tiers'[GPU] \subseteq DOMAIN tiers[GPU] \cup {Key(i)}
  /\ Policy = "lru" => lastAccess' = set(lastAccess, Key(i), clock + 1)

LEMMA MaterialiseFrame ==
  ASSUME TypeInv, SafetyInv, Materialise
  PROVE  /\ chunks' = chunks /\ plan' = plan /\ cursor \in Nat
         /\ DOMAIN plan = DOMAIN chunks
         /\ phase \in {"scheduled", "gpuLoads", "coldLoads", "recompute", "writeThrough"}
         /\ \A i \in DOMAIN chunks :
              /\ i \in Nat \ {0} /\ chunks[i] \in Chunk
              /\ plan[i].action \in {"load", "recompute"}
<1>1. /\ chunks' = chunks /\ plan' = plan /\ phase \notin {"split", "idle"}
  BY PrefillFrame DEF Prefill
<1>2. phase \in {"scheduled", "gpuLoads", "coldLoads", "recompute", "writeThrough"}
  BY DEF Materialise, BeginMaterialise, EndOfPhase, SkipOther, At, GpuLoad, ColdLoad,
         Recomputes, MakeRoom, EvictVictim, FinishStore, InsertPending, WriteThroughOne,
         WriteThroughDone, TypeInv, Bookkeeping
<1>3. DOMAIN plan = DOMAIN chunks /\ cursor \in Nat
  BY <1>1 DEF TypeInv, Bookkeeping, ControlTypeOK
<1>4. ASSUME NEW i \in DOMAIN chunks
      PROVE  /\ i \in Nat \ {0} /\ chunks[i] \in Chunk
             /\ plan[i].action \in {"load", "recompute"}
  <2>1. Scheduled(i) /\ plan[i] \in Decision
    BY <1>2, <1>3, ScheduleFacts DEF SafetyInv, PlanInv
  <2> QED BY <2>1, ScheduleFacts DEF Scheduled, Decision, Load, Recompute
<1> QED BY <1>1, <1>2, <1>3, <1>4

\* Steps between the operations on the GPU.
LEMMA ControlTouches ==
  ASSUME TypeInv, SafetyInv, phase' # "failed",
         EndOfPhase \/ SkipOther \/ WriteThroughOne \/ WriteThroughDone
  PROVE  StaysSame
<1>1. Materialise
  BY DEF Materialise
<1>2. /\ chunks' = chunks /\ plan' = plan /\ cursor \in Nat /\ Len(chunks) \in Nat
      /\ DOMAIN chunks = 1 .. Len(chunks)
      /\ \A i \in DOMAIN chunks : i \in Nat \ {0} /\ plan[i].action \in {"load", "recompute"}
  BY <1>1, MaterialiseFrame, ScheduleFacts
<1>3. tiers'[GPU] = tiers[GPU] /\ lastAccess' = lastAccess
  <2>1. WriteThroughOne => tiers'[GPU] = tiers[GPU]
    BY UpsertStep DEF TierAssumption, Tiers
  <2> QED BY <2>1 DEF EndOfPhase, SkipOther, WriteThroughOne, WriteThroughDone, managerVars
<1>4. ASSUME NEW i \in DOMAIN chunks
      PROVE  Touched(i)' <=> Touched(i)
  <2>1. CASE EndOfPhase
    <3>1. i < cursor /\ ~(i < 1)
      BY <1>2, <2>1 DEF EndOfPhase
    <3> QED BY <1>2, <2>1, <3>1 DEF EndOfPhase, GoTo, PhaseAfter, Touched, Loads
  <2>2. CASE SkipOther
    <3>1. i < cursor + 1 <=> i < cursor \/ i = cursor
      BY <1>2
    <3>2. /\ phase' = phase /\ cursor' = cursor + 1
          /\ \/ phase = "gpuLoads" /\ ~(Loads(cursor) /\ plan[cursor].source = GPU)
             \/ phase = "coldLoads" /\ ~(Loads(cursor) /\ plan[cursor].source # GPU)
             \/ phase = "recompute" /\ plan[cursor].action # "recompute"
      BY <2>2 DEF SkipOther, Advance, At
    <3> QED BY <1>2, <3>1, <3>2 DEF Touched, Loads
  <2>3. CASE WriteThroughOne
    <3>1. phase' = phase /\ cursor' = cursor
      BY <2>3 DEF WriteThroughOne, Raise
    <3> QED BY <1>2, <3>1 DEF Touched, Loads
  <2>4. CASE WriteThroughDone
    <3>1. i < cursor + 1 <=> i < cursor \/ i = cursor
      BY <1>2
    <3>2. phase = "writeThrough" /\ phase' = "recompute" /\ cursor' = cursor + 1
      BY <2>4 DEF WriteThroughDone
    <3> QED BY <1>2, <3>1, <3>2 DEF Touched, Loads
  <2> QED BY <2>1, <2>2, <2>3, <2>4
<1> QED BY <1>2, <1>3, <1>4 DEF StaysSame, TouchedChunks

LEMMA GpuLoadTouches ==
  ASSUME TypeInv, SafetyInv, GpuLoad, phase' # "failed"
  PROVE  Touches(cursor)
<1>1. /\ At("gpuLoads") /\ phase = "gpuLoads" /\ Loads(cursor) /\ plan[cursor].source = GPU
      /\ access(Key(cursor)) /\ phase' = phase /\ cursor' = cursor + 1
  BY DEF GpuLoad, At, Advance, Raise
<1>2. /\ chunks' = chunks /\ plan' = plan /\ cursor \in Nat
      /\ \A i \in DOMAIN chunks : i \in Nat \ {0}
  BY MaterialiseFrame DEF Materialise
<1>3. Present(GPU, Key(cursor)) /\ cursor \in DOMAIN plan /\ cursor \in DOMAIN chunks
  BY <1>1, LoadFinds, CursorFacts
<1>4. /\ tiers' = tiers
      /\ Policy = "lru" => lastAccess' = set(lastAccess, Key(cursor), clock + 1)
  BY <1>1, <1>3 DEF access, record_access
<1>5. coverage(tiers[GPU], Key(cursor)) >= chunks[cursor].end
  <2>1. LoadPending(cursor)
    BY <1>1, <1>2 DEF LoadPending
  <2> QED BY <1>1, <1>3, <2>1 DEF SafetyInv, LoadsInv, Covers, Key
<1>6. ASSUME NEW i \in DOMAIN chunks
      PROVE  Touched(i)' <=> Touched(i) \/ i = cursor
  <2>1. i < cursor + 1 <=> i < cursor \/ i = cursor
    BY <1>2
  <2> QED BY <1>1, <1>2, <2>1 DEF Touched, Loads
<1>7. TouchedChunks' = TouchedChunks \cup {cursor}
  BY <1>2, <1>3, <1>6 DEF TouchedChunks
<1> QED BY <1>3, <1>4, <1>5, <1>7 DEF Touches

\* A cold load only begins a store: its chunk is not in the GPU.
LEMMA ColdLoadTouches ==
  ASSUME TypeInv, SafetyInv, RecencyInv, ColdLoad, phase' # "failed"
  PROVE  StaysSame
<1>1. /\ At("coldLoads") /\ phase = "coldLoads" /\ Loads(cursor) /\ plan[cursor].source # GPU
  BY DEF ColdLoad, At
<1>2. /\ chunks' = chunks /\ plan' = plan
  BY MaterialiseFrame DEF Materialise
<1>3. /\ Present(plan[cursor].source, Key(cursor)) /\ cursor \in DOMAIN plan
      /\ cursor \in DOMAIN chunks /\ plan[cursor].source \in Tiers
  BY <1>1, LoadFinds, CursorFacts
<1>4. store(StoredSource(cursor)) /\ StoreLoaded(StoredSource(cursor))
  BY <1>3 DEF ColdLoad, StoreLoaded, Fail, Raise
<1>5. ~Present(GPU, cache_key(StoredSource(cursor)))
  <2>1. LoadPending(cursor)
    BY <1>1, <1>3, ScheduleFacts DEF LoadPending
  <2>2. ~Present(GPU, Key(cursor))
    BY <1>1, <1>3, <2>1 DEF RecencyInv, ColdLoadsAbsent
  <2>3. cache_key(StoredSource(cursor)) = Key(cursor)
    BY <1>1, <1>3, StoredSourceFacts
  <2> QED BY <2>2, <2>3
<1>6. UNCHANGED <<tiers, order, policyVars, phase, cursor>>
  BY <1>4, <1>5 DEF store, StoreLoaded, Fail, Raise
<1>7. \A i \in DOMAIN chunks : Touched(i)' <=> Touched(i)
  BY <1>2, <1>6 DEF Touched, Loads
<1> QED BY <1>2, <1>6, <1>7 DEF StaysSame, TouchedChunks, policyVars

\* A recomputation begins a store, or keeps and touches a resident that covers
\* the chunk.
LEMMA RecomputeTouches ==
  ASSUME TypeInv, SafetyInv, AlignInv, Recomputes, phase' # "failed"
  PROVE  StaysSame \/ Removes(Key(cursor)) \/ Touches(cursor)
<1>1. /\ At("recompute") /\ phase = "recompute" /\ plan[cursor].action = "recompute"
      /\ store_replacing(chunks[cursor]) /\ cursor' = cursor /\ Idle
      /\ IF pending' = NoChunk THEN phase' = "writeThrough" ELSE phase' = phase
  BY DEF Recomputes, At, Fail, Raise, BeginWriteThrough
<1>2. /\ chunks' = chunks /\ plan' = plan /\ cursor \in Nat
      /\ \A i \in DOMAIN chunks : i \in Nat \ {0}
  BY MaterialiseFrame DEF Materialise
<1>3. cursor \in DOMAIN chunks /\ chunks[cursor] \in Chunk
      /\ cache_key(chunks[cursor]) = Key(cursor) /\ chunks[cursor] # NoChunk
  <2>1. cursor \in DOMAIN chunks /\ chunks[cursor] \in Chunk
    BY <1>1, CursorFacts
  <2>2. NoChunk \notin Chunk
    BY DEF NoChunk, Chunk
  <2> QED BY <2>1, <2>2 DEF Key
<1>4. CASE KeepResident(Key(cursor)) /\ coverage(tiers[GPU], Key(cursor)) >= chunks[cursor].end
  <2>1. /\ phase' = "writeThrough" /\ tiers' = tiers
        /\ Policy = "lru" => lastAccess' = set(lastAccess, Key(cursor), clock + 1)
    BY <1>1, <1>4 DEF KeepResident, Idle, record_access
  <2>2. \A i \in DOMAIN chunks : Touched(i)' <=> Touched(i) \/ i = cursor
    BY <1>1, <1>2, <2>1 DEF Touched, Loads
  <2>3. TouchedChunks' = TouchedChunks \cup {cursor}
    BY <1>2, <1>3, <2>2 DEF TouchedChunks
  <2> QED BY <1>3, <1>4, <2>1, <2>3 DEF Touches
<1>5. CASE StartStore(chunks[cursor])
  <2>1. phase' = phase
    BY <1>1, <1>3, <1>5 DEF StartStore
  <2>2. \A i \in DOMAIN chunks : Touched(i)' <=> Touched(i)
    BY <1>1, <1>2, <2>1 DEF Touched, Loads
  <2>3. TouchedChunks' = TouchedChunks
    BY <1>2, <2>2 DEF TouchedChunks
  <2>4. cursor \notin TouchedChunks
    BY <1>1, <1>2 DEF TouchedChunks, Touched, Loads
  <2>5. CASE UNCHANGED <<tiers, order, policyVars>>
    BY <2>3, <2>5 DEF StaysSame, policyVars
  <2>6. CASE Present(GPU, Key(cursor)) /\ RemoveFromGPU(Key(cursor))
    BY <1>3, <2>3, <2>4, <2>6 DEF Removes, Present
  <2> QED BY <1>1, <1>3, <1>5, <2>5, <2>6 DEF store_replacing, KeepResident, StartStore, Idle
<1> QED BY <1>1, <1>3, <1>4, <1>5 DEF store_replacing

LEMMA MakeRoomTouches ==
  ASSUME TypeInv, SafetyInv, MakeRoom
  PROVE  \E key \in DOMAIN tiers[GPU] : Removes(key)
<1>1. /\ chunks' = chunks /\ plan' = plan /\ phase' = phase /\ cursor' = cursor
      /\ ~Idle /\ ~can_store(GPU, tiers[GPU], pending)
  BY MaterialiseFrame DEF Materialise, MakeRoom, EvictVictim
<1>2. PICK key \in Victims : RemoveFromGPU(key)
  BY DEF MakeRoom, EvictVictim
<1>3. key \in DOMAIN tiers[GPU]
  BY DEF Victims
<1>4. TouchedChunks' = TouchedChunks
  BY <1>1 DEF TouchedChunks, Touched, Loads
<1> QED BY <1>1, <1>2, <1>3, <1>4 DEF Removes

LEMMA FinishStoreTouches ==
  ASSUME TypeInv, SafetyInv, RecencyInv, FinishStore
  PROVE  Touches(cursor)
<1>1. /\ chunks' = chunks /\ plan' = plan /\ cursor \in Nat
      /\ \A i \in DOMAIN chunks :
           i \in Nat \ {0} /\ plan[i].action \in {"load", "recompute"}
  BY MaterialiseFrame DEF Materialise
<1>2. /\ InsertPending /\ ~Idle
      /\ \/ phase = "coldLoads" /\ phase' = phase /\ cursor' = cursor + 1
         \/ phase = "recompute" /\ phase' = "writeThrough" /\ cursor' = cursor
  BY DEF FinishStore, InsertPending, Advance, BeginWriteThrough, TypeInv, Bookkeeping
<1>3. /\ cursor \in DOMAIN chunks /\ cache_key(pending) = Key(cursor)
      /\ chunks[cursor].end <= pending.end
      /\ \/ phase = "coldLoads" /\ Loads(cursor) /\ plan[cursor].source # GPU
         \/ phase = "recompute" /\ plan[cursor].action = "recompute"
  BY <1>2 DEF RecencyInv, StoreInv, TypeInv, Bookkeeping
<1>4. /\ tiers'[GPU] = put(tiers[GPU], pending) /\ pending \in Chunk
      /\ IsDict(tiers[GPU], Extent)
      /\ pending.end \in Nat /\ chunks[cursor].end \in Nat
  BY <1>2, <1>3, InsertPendingFacts, ChunkFields, ScheduleFacts
     DEF TypeInv, CacheInv, CacheTypeOK, Tiers
<1>5. Policy = "lru" => lastAccess' = set(lastAccess, Key(cursor), clock + 1)
  BY <1>2, <1>3 DEF InsertPending, record_store, record_access
<1>6. /\ coverage(tiers'[GPU], Key(cursor)) >= chunks[cursor].end
      /\ \A key : key # Key(cursor) => coverage(tiers'[GPU], key) = coverage(tiers[GPU], key)
      /\ DOMAIN tiers'[GPU] \subseteq DOMAIN tiers[GPU] \cup {Key(cursor)}
  <2> DEFINE e == put(tiers[GPU], pending)
  <2>1. /\ coverage(e, Key(cursor)) = pending.end
        /\ \A key : key # Key(cursor) => coverage(e, key) = coverage(tiers[GPU], key)
        /\ DOMAIN e = DOMAIN tiers[GPU] \cup {Key(cursor)}
    <3>1. /\ coverage(e, cache_key(pending)) = pending.end
          /\ \A key : key # cache_key(pending) =>
                       coverage(e, key) = coverage(tiers[GPU], key)
          /\ DOMAIN e = DOMAIN tiers[GPU] \cup {cache_key(pending)}
      BY <1>4, PutFacts, ZenonT(30)
    <3>2. cache_key(pending) = Key(cursor)
      BY <1>3
    <3> HIDE DEF e
    <3> QED BY <3>1, <3>2
  <2>2. tiers'[GPU] = e
    BY <1>4
  <2> HIDE DEF e
  <2> QED BY <1>3, <1>4, <2>1, <2>2
<1>7. ASSUME NEW i \in DOMAIN chunks
      PROVE  Touched(i)' <=> Touched(i) \/ i = cursor
  <2>1. i < cursor + 1 <=> i < cursor \/ i = cursor
    BY <1>1
  <2> QED BY <1>1, <1>2, <1>3, <2>1 DEF Touched, Loads
<1>8. TouchedChunks' = TouchedChunks \cup {cursor}
  BY <1>1, <1>3, <1>7 DEF TouchedChunks
<1> QED BY <1>3, <1>5, <1>6, <1>8 DEF Touches

-----------------------------------------------------------------------------
(* What the prefill has touched stays.                                     *)

\* The stamp of a resident is a number.
LEMMA StampFacts ==
  ASSUME TypeInv, RetentionInv, Policy = "lru"
  PROVE  /\ DOMAIN lastAccess = DOMAIN tiers[GPU] /\ clock \in Nat
         /\ \A key \in DOMAIN tiers[GPU] : lastAccess[key] \in Nat
<1>1. DOMAIN lastAccess = DOMAIN tiers[GPU]
  BY DEF RetentionInv, PolicyTracksTier
<1> QED BY <1>1 DEF TypeInv, CacheInv, CacheTypeOK, IsDict

\* What has been touched is in the GPU.
LEMMA TouchedPresent ==
  ASSUME TypeInv, NEW i \in DOMAIN chunks, Resident(i)
  PROVE  Key(i) \in DOMAIN tiers[GPU]
<1>1. chunks[i].end \in Nat /\ chunks[i].end > 0
  <2>1. /\ chunks[i].start \in Nat /\ chunks[i].end \in Nat
        /\ chunks[i].start < chunks[i].end
    BY ScheduleFacts, ChunkFields
  <2> QED BY <2>1
<1>2. IsDict(tiers[GPU], Extent)
  BY DEF TypeInv, CacheInv, CacheTypeOK, Tiers
<1>3. coverage(tiers[GPU], Key(i)) \in Nat /\ coverage(tiers[GPU], Key(i)) >= chunks[i].end
  BY <1>2, CoverageFacts DEF Resident, Covers, Key
<1>4. coverage(tiers[GPU], Key(i)) > 0
  BY <1>1, <1>3
<1> QED BY <1>2, <1>4, CoverageFacts

\* A victim is none of the chunks touched: it would be the least recent, all
\* that is in the GPU would be of the prompt, and there would be room.
LEMMA VictimUntouched ==
  ASSUME TypeInv, SafetyInv, AlignInv, StoreInv, RetentionInv, Policy = "lru",
         WriteThrough # <<>>, PromptFits, \A i \in TouchedChunks : Resident(i),
         ~Idle, ~can_store(GPU, tiers[GPU], pending), NEW key \in Victims
  PROVE  key \notin TouchedKeys
<1> SUFFICES ASSUME NEW i \in TouchedChunks, key = Key(i) PROVE FALSE
  BY DEF TouchedKeys
<1>1. \A k \in DOMAIN tiers[GPU] \ TouchedKeys : lastAccess[k] < lastAccess[key]
  BY DEF Resident
<1>2. ASSUME NEW k \in DOMAIN tiers[GPU], k \notin TouchedKeys
      PROVE  FALSE
  <2>1. key \in DOMAIN tiers[GPU] /\ k # key
    BY <1>2 DEF Victims, TouchedKeys
  <2>2. LexLess(score(key), score(k))
    BY <1>2, <2>1 DEF Victims
  <2>3. score(key) = <<lastAccess[key], Age(key)>> /\ score(k) = <<lastAccess[k], Age(k)>>
    BY <1>2, <2>1, StampFacts DEF score, get
  <2>4. lastAccess[key] \in Nat /\ lastAccess[k] \in Nat /\ lastAccess[k] < lastAccess[key]
    BY <1>1, <1>2, <2>1, StampFacts
  <2>5. PICK n \in DOMAIN score(key) :
               /\ score(key)[n] < score(k)[n]
               /\ \A j \in 1 .. n - 1 : score(key)[j] = score(k)[j]
    BY <2>2 DEF LexLess
  <2>6. lastAccess[key] < lastAccess[k] \/ lastAccess[key] = lastAccess[k]
    <3>1. n \in {1, 2}
      BY <2>3, <2>5
    <3>2. score(key)[1] = lastAccess[key] /\ score(k)[1] = lastAccess[k]
      BY <2>3
    <3>3. CASE n = 1
      BY <2>5, <3>2, <3>3
    <3>4. CASE n = 2
      <4>1. 1 \in 1 .. n - 1
        BY <3>4
      <4> QED BY <2>5, <3>2, <4>1
    <3> QED BY <3>1, <3>3, <3>4
  <2> QED BY <2>4, <2>6
<1>3. \A k \in DOMAIN tiers[GPU] : \E n \in DOMAIN chunks : Key(n) = k
  BY <1>2 DEF TouchedKeys, TouchedChunks
<1> QED BY <1>3, PendingFits

LEMMA RemovalKeeps ==
  ASSUME TypeInv, RequestInv, RetentionInv, Policy = "lru", chunks' = chunks,
         NEW key, Removes(key), key \notin TouchedKeys,
         \A i \in TouchedChunks : Resident(i)
  PROVE  \A i \in TouchedChunks' : Resident(i)'
<1> SUFFICES ASSUME NEW i \in TouchedChunks PROVE Resident(i)'
  BY DEF Removes
<1>1. i \in DOMAIN chunks /\ Resident(i) /\ Key(i)' = Key(i)
      /\ Key(i) # key /\ Key(i) = cache_key(chunks[i])
  BY DEF TouchedChunks, TouchedKeys, Key
<1>2. /\ tiers'[GPU] = drop(tiers[GPU], key) /\ lastAccess' = pop(lastAccess, key)
      /\ IsDict(tiers[GPU], Extent)
  BY RemoveFromGPUFacts DEF Removes, RemoveFromGPU, record_remove, TypeInv, CacheInv,
                            CacheTypeOK, Tiers
<1>3. coverage(tiers'[GPU], Key(i)) = coverage(tiers[GPU], Key(i))
  <2> DEFINE d == tiers[GPU]
  <2>1. IsDict(d, Extent) /\ tiers'[GPU] = drop(d, key)
    BY <1>2
  <2>2. \A k : k # key => coverage(drop(d, key), k) = coverage(d, k)
    <3> HIDE DEF d
    <3> QED BY <2>1, DropFacts, ZenonT(30)
  <2> HIDE DEF d
  <2>3. coverage(tiers'[GPU], Key(i)) = coverage(d, Key(i))
    BY <1>1, <2>1, <2>2
  <2> QED BY <2>3 DEF d
<1>4. TouchedKeys' = TouchedKeys
  BY DEF Removes, TouchedKeys, Key
<1>5. ASSUME NEW k \in DOMAIN tiers'[GPU] \ TouchedKeys
      PROVE  lastAccess'[k] < lastAccess'[Key(i)]
  <2>1. k \in DOMAIN tiers[GPU] \ {key}
    BY <1>2, <1>5 DEF drop
  <2>2. Key(i) \in DOMAIN tiers[GPU] \ {key}
    BY <1>1, TouchedPresent
  <2>3. lastAccess[k] < lastAccess[Key(i)]
    BY <1>1, <1>5, <2>1 DEF Resident
  <2>4. lastAccess'[k] = lastAccess[k] /\ lastAccess'[Key(i)] = lastAccess[Key(i)]
    BY <1>2, <2>1, <2>2, StampFacts DEF pop
  <2> QED BY <2>3, <2>4
<1>6. Covers(GPU, chunks[i])'
  BY <1>1, <1>3 DEF Resident, Covers
<1> QED BY <1>1, <1>4, <1>5, <1>6 DEF Resident

LEMMA TouchKeeps ==
  ASSUME TypeInv, RequestInv, RetentionInv, StampInv, Policy = "lru", chunks' = chunks,
         NEW n, Touches(n), \A i \in TouchedChunks : Resident(i)
  PROVE  \A i \in TouchedChunks' : Resident(i)'
<1>1. /\ n \in DOMAIN chunks /\ lastAccess' = set(lastAccess, Key(n), clock + 1)
      /\ \A i : Key(i)' = Key(i)
  BY DEF Touches, Key
<1>2. TouchedKeys' = TouchedKeys \cup {Key(n)}
  BY <1>1 DEF Touches, TouchedKeys
<1>3. ASSUME NEW k \in DOMAIN tiers'[GPU] \ TouchedKeys'
      PROVE  /\ k \in DOMAIN tiers[GPU] \ TouchedKeys
             /\ lastAccess'[k] = lastAccess[k] /\ lastAccess[k] <= clock
             /\ lastAccess[k] \in Nat
  <2>1. k \in DOMAIN tiers[GPU] \ TouchedKeys /\ k # Key(n)
    BY <1>2, <1>3 DEF Touches
  <2> QED BY <1>1, <2>1, StampFacts DEF set, StampInv
<1> SUFFICES ASSUME NEW i \in TouchedChunks' PROVE Resident(i)'
  OBVIOUS
<1>4. CASE i = n
  <2>1. Covers(GPU, chunks[i])'
    BY <1>4 DEF Touches, Covers, Key
  <2>2. lastAccess'[Key(i)] = clock + 1 /\ clock \in Nat
    BY <1>1, <1>4, StampFacts DEF set
  <2>3. ASSUME NEW k \in DOMAIN tiers'[GPU] \ TouchedKeys'
        PROVE  lastAccess'[k] < lastAccess'[Key(i)]
    <3>1. lastAccess'[k] \in Nat /\ lastAccess'[k] <= clock
      BY <1>3
    <3> QED BY <2>2, <3>1
  <2> QED BY <1>1, <2>1, <2>3 DEF Resident
<1>5. CASE i # n
  <2>1. i \in TouchedChunks /\ i \in DOMAIN chunks /\ Resident(i)
    BY <1>5 DEF Touches, TouchedChunks
  <2>2. Key(i) # Key(n)
    BY <1>1, <1>5, <2>1, KeysDiffer
  <2>3. Covers(GPU, chunks[i])'
    <3>1. coverage(tiers'[GPU], Key(i)) = coverage(tiers[GPU], Key(i))
      BY <2>2 DEF Touches
    <3> QED BY <2>1, <3>1 DEF Resident, Covers, Key
  <2>4. lastAccess'[Key(i)] = lastAccess[Key(i)]
    <3>1. Key(i) \in DOMAIN lastAccess
      BY <2>1, TouchedPresent, StampFacts
    <3> QED BY <1>1, <2>2, <3>1 DEF set
  <2>5. \A k \in DOMAIN tiers'[GPU] \ TouchedKeys' : lastAccess'[k] < lastAccess'[Key(i)]
    BY <1>3, <2>1, <2>4 DEF Resident
  <2> QED BY <1>1, <2>3, <2>5 DEF Resident
<1> QED BY <1>4, <1>5

LEMMA ResidentStep ==
  ASSUME TypeInv, SafetyInv, AlignInv, RetentionInv, RecencyInv, ResidentInv,
         Policy = "lru", WriteThrough # <<>>, Next
  PROVE  ResidentInv'
<1> SUFFICES ASSUME phase' \in {"gpuLoads", "coldLoads", "recompute", "writeThrough", "idle"},
                    PromptFits'
             PROVE  \A i \in TouchedChunks' : Resident(i)'
  BY DEF ResidentInv
<1>1. Materialise
  BY ScheduleFrame DEF Next, Prefill, Arrive, Split, SplitStep, SplitShared, SplitPrivate
<1>2. chunks' = chunks /\ plan' = plan
  BY <1>1, PrefillFrame DEF Prefill
<1>3. CASE BeginMaterialise
  <2>1. phase' = "gpuLoads" /\ cursor' = 1
    BY <1>3 DEF BeginMaterialise, GoTo, PhaseAfter
  <2>2. \A i \in DOMAIN chunks : ~(i < 1) /\ plan[i].action \in {"load", "recompute"}
    BY <1>1, MaterialiseFrame
  <2>3. TouchedChunks' = {}
    BY <1>2, <2>1, <2>2 DEF TouchedChunks, Touched, Loads
  <2> QED BY <2>3
<1>4. CASE ~BeginMaterialise
  <2>1. phase \in {"gpuLoads", "coldLoads", "recompute", "writeThrough"}
    BY <1>1, <1>4
       DEF Materialise, EndOfPhase, SkipOther, At, GpuLoad, ColdLoad, Recomputes, MakeRoom,
           EvictVictim, FinishStore, InsertPending, WriteThroughOne, WriteThroughDone,
           TypeInv, Bookkeeping
  <2>2. PromptFits
    <3>1. Needs' = Needs
      BY <1>1, NeedsStay DEF AlignInv
    <3> QED BY <3>1 DEF PromptFits
  <2>3. \A i \in TouchedChunks : Resident(i)
    BY <2>1, <2>2 DEF ResidentInv
  <2>4. CASE StaysSame
    <3>1. TouchedKeys' = TouchedKeys /\ TouchedChunks' = TouchedChunks
          /\ \A i : Key(i)' = Key(i)
      BY <1>2, <2>4 DEF StaysSame, TouchedKeys, Key
    <3> QED BY <1>2, <2>3, <2>4, <3>1 DEF StaysSame, Resident, Covers
  <2>5. ASSUME NEW key, Removes(key)
        PROVE  \A i \in TouchedChunks' : Resident(i)'
    <3>1. CASE ~Idle /\ ~can_store(GPU, tiers[GPU], pending) /\ key \in Victims
      <4>1. key \notin TouchedKeys
        BY <2>2, <2>3, <3>1, VictimUntouched DEF RecencyInv
      <4> QED BY <1>2, <2>3, <2>5, <4>1, RemovalKeeps DEF AlignInv
    <3>2. CASE cursor \in DOMAIN chunks \ TouchedChunks /\ key = Key(cursor)
      <4>1. key \notin TouchedKeys
        BY <3>2, KeysDiffer DEF TouchedKeys, TouchedChunks, AlignInv
      <4> QED BY <1>2, <2>3, <2>5, <4>1, RemovalKeeps DEF AlignInv
    <3> QED BY <2>5, <3>1, <3>2 DEF Removes
  <2>6. ASSUME NEW i, Touches(i)
        PROVE  \A n \in TouchedChunks' : Resident(n)'
    BY <1>2, <2>3, <2>6, TouchKeeps DEF AlignInv, RecencyInv
  <2>7. phase' # "failed"
    OBVIOUS
  <2>8. CASE EndOfPhase \/ SkipOther \/ WriteThroughOne \/ WriteThroughDone
    BY <2>4, <2>7, <2>8, ControlTouches
  <2>9. CASE GpuLoad
    BY <2>6, <2>7, <2>9, GpuLoadTouches
  <2>10. CASE ColdLoad
    BY <2>4, <2>7, <2>10, ColdLoadTouches
  <2>11. CASE Recomputes
    BY <2>4, <2>5, <2>6, <2>7, <2>11, RecomputeTouches
  <2>12. CASE MakeRoom
    BY <2>5, <2>12, MakeRoomTouches
  <2>13. CASE FinishStore
    BY <2>6, <2>13, FinishStoreTouches
  <2> QED BY <1>1, <1>4, <2>8, <2>9, <2>10, <2>11, <2>12, <2>13 DEF Materialise
<1> QED BY <1>3, <1>4

LEMMA SpecResident ==
  ASSUME Policy = "lru", WriteThrough # <<>>
  PROVE  Spec => []ResidentInv
<1>1. Init => ResidentInv
  BY DEF Init, ResidentInv, TouchedChunks
<1>2. TypeInv /\ SafetyInv /\ AlignInv /\ RetentionInv /\ RecencyInv /\ ResidentInv
        /\ [Next]_vars => ResidentInv'
  <2> SUFFICES ASSUME TypeInv, SafetyInv, AlignInv, RetentionInv, RecencyInv, ResidentInv,
                      [Next]_vars
               PROVE  ResidentInv'
    OBVIOUS
  <2>1. CASE UNCHANGED vars
    <3>1. /\ tiers' = tiers /\ phase' = phase /\ plan' = plan /\ chunks' = chunks
          /\ cursor' = cursor /\ lastAccess' = lastAccess
      BY <2>1 DEF vars, managerVars, chunkingVars
    <3> QED BY <3>1 DEF ResidentInv, PromptFits, Needs, Need, Resident, TouchedKeys,
                        TouchedChunks, Touched, Loads, Covers, Key
  <2>2. CASE Next
    BY <2>2, ResidentStep
  <2> QED BY <2>1, <2>2
<1>3. Spec => []RecencyInv
  BY SpecRecency
<1> QED BY <1>1, <1>2, <1>3, PrefillInvariant, SpecAligned, SpecRetention, PTL DEF Spec

\* After a prefill the first write-through tier holds the most of every chunk
\* of the prompt.
LEMMA NeedIsLargest ==
  ASSUME TypeInv, SafetyInv, WriteThrough # <<>>, phase = "idle", NEW i \in DOMAIN chunks
  PROVE  LargestSize(i) = Need(i)
<1> DEFINE most == coverage(tiers[Home], Key(i))
           S == { coverage(tiers[t], Key(i)) : t \in Tiers }
<1>1. most \in Nat /\ chunks[i].end \in Nat /\ \A x \in S : x \in Nat
  <2>1. chunks[i].end \in Nat
    BY ScheduleFacts, ChunkFields
  <2>2. \A t \in Tiers : coverage(tiers[t], Key(i)) \in Nat
    BY CoverageFacts DEF TypeInv, CacheInv, CacheTypeOK
  <2> QED BY <2>1, <2>2, FirstWriteThrough
<1>2. most \in S
  BY FirstWriteThrough
<1>3. \A x \in S : x <= most
  <2>1. \A t \in Tiers : coverage(tiers[t], Key(i)) <= coverage(WrittenBy(1), Key(i))
    BY FirstWriteThrough, StrictDominance DEF SafetyInv, Settled
  <2> QED BY <2>1 DEF WrittenBy, Home
<1>4. most >= chunks[i].end
  <2>1. i \in DOMAIN plan
    BY DEF TypeInv, Bookkeeping
  <2>2. Covers(WriteThrough[1], chunks[i])
    BY <2>1, FirstWriteThrough DEF SafetyInv, WarmInv, WarmBy
  <2> QED BY <2>2 DEF Covers, Home, Key
<1>5. Max(S) = most
  <2> HIDE DEF most, S
  <2>1. \A x \in S : (\A y \in S : y <= x) => x = most
    BY <1>1, <1>2, <1>3
  <2> QED BY <1>2, <1>3, <2>1 DEF Max
<1>6. MaxOf(most, chunks[i].end) = most
  <2> HIDE DEF most
  <2> QED BY <1>1, <1>4 DEF MaxOf
<1> QED BY <1>5, <1>6 DEF LargestSize, Need

\* Under LRU, and with a tier to write through to, a prompt that fits into the
\* GPU is there with the whole range of every chunk when its prefill is over,
\* whatever was in the tiers before and whatever has been evicted on the way.
THEOREM FittingPromptStays ==
  ASSUME Policy = "lru", WriteThrough # <<>>
  PROVE  Spec => []FittingPromptIsResident
<1>1. TypeInv /\ SafetyInv /\ AlignInv /\ ResidentInv => FittingPromptIsResident
  <2> SUFFICES ASSUME TypeInv, SafetyInv, AlignInv, ResidentInv, phase = "idle",
                      WorkingSetSize <= Capacity[GPU], NEW i \in DOMAIN chunks
               PROVE  RangeServed(GPU, chunks[i])
    BY DEF FittingPromptIsResident
  <2>1. [n \in DOMAIN chunks |-> LargestSize(n)] = Needs
    BY NeedIsLargest DEF Needs
  <2>2. PromptFits
    BY <2>1 DEF PromptFits, WorkingSetSize
  <2>3. i \in TouchedChunks
    <3>1. i \in DOMAIN plan
      BY DEF TypeInv, Bookkeeping
    <3>2. Scheduled(i) /\ plan[i] \in Decision
      BY <3>1, ScheduleFacts DEF SafetyInv, PlanInv
    <3> QED BY <3>2 DEF Scheduled, Decision, Load, Recompute, TouchedChunks, Touched, Loads
  <2>4. Covers(GPU, chunks[i])
    BY <2>2, <2>3 DEF ResidentInv, Resident
  <2> QED BY <2>4, CoveredIsServed DEF AlignInv, Tiers
<1>2. Spec => []ResidentInv
  BY SpecResident
<1> QED BY <1>1, <1>2, PrefillInvariant, SpecAligned, PTL

-----------------------------------------------------------------------------
(* Prefills that cannot fail.                                              *)

\* At most a chunk's worth of tokens.
Short(x) == x.end - x.start <= ChunkSize

\* The entries of the tiers are as short as the chunks of the prompts.
ShortInv ==
  /\ \A t \in Tiers : \A key \in DOMAIN tiers[t] : Short(tiers[t][key])
  /\ ~Idle => Short(pending)

LEMMA ShortChunks ==
  ASSUME AlignInv, NEW i \in DOMAIN chunks
  PROVE  Short(chunks[i])
  BY DEF AlignInv, RequestInv, Tiling, Short, token_count

LEMMA ShortStep ==
  ASSUME TypeInv, AlignInv, ShortInv, [Next]_vars
  PROVE  ShortInv'
<1>1. CASE UNCHANGED vars
  BY <1>1 DEF vars, managerVars, chunkingVars, ShortInv, Idle
<1>2. CASE Next
  <2>1. ASSUME NEW t \in Tiers, NEW key \in DOMAIN tiers'[t]
        PROVE  Short(tiers'[t][key])
    <3>1. CASE key \in DOMAIN tiers[t] /\ tiers'[t][key] = tiers[t][key]
      BY <3>1 DEF ShortInv
    <3>2. CASE ~Idle /\ tiers'[t][key] = extent(pending)
      BY <3>2 DEF ShortInv, Short, extent
    <3>3. CASE WriteThroughOne /\ tiers'[t][key] = extent(chunks[cursor])
      <4>1. cursor \in DOMAIN chunks
        BY <3>3, UpsertStep
      <4> QED BY <3>3, <4>1, ShortChunks DEF Short, extent
    <3> QED BY <1>2, <3>1, <3>2, <3>3, EntrySteps
  <2>2. ASSUME ~Idle' PROVE Short(pending')
    <3>1. pending' # NoChunk
      BY <2>2 DEF Idle
    <3>2. CASE ~Idle /\ pending' = pending
      BY <3>2 DEF ShortInv
    <3>3. CASE /\ ColdLoad /\ pending' = StoredSource(cursor)
               /\ plan[cursor].source \in Tiers
               /\ Key(cursor) \in DOMAIN tiers[plan[cursor].source]
      <4> DEFINE e == tiers[plan[cursor].source][Key(cursor)]
      <4>1. cursor \in DOMAIN chunks /\ Loads(cursor)
        BY <3>3, CursorFacts DEF ColdLoad
      <4>2. pending'.start = e.start /\ pending'.end = e.end
        BY <3>3, <4>1, StoredSourceFacts DEF Present, coverage
      <4>3. Short(e)
        BY <3>3 DEF ShortInv
      <4> QED BY <4>2, <4>3 DEF Short
    <3>4. CASE Recomputes /\ pending' = chunks[cursor] /\ cursor \in DOMAIN chunks
      BY <3>4, ShortChunks
    <3> QED BY <1>2, <3>1, <3>2, <3>3, <3>4, PendingSteps
  <2> QED BY <2>1, <2>2 DEF ShortInv
<1> QED BY <1>1, <1>2

LEMMA SpecShort == Spec => []ShortInv
<1>1. Init => ShortInv
  BY DEF Init, CacheInit, Idle, ShortInv, EmptyDict
<1> QED BY <1>1, ShortStep, PrefillInvariant, SpecAligned, PTL DEF Spec

\* As in the experiments, a chunk fits in the GPU, and what is written through
\* is written to tiers that never fill up.
RoomForAll ==
  /\ ChunkSize * BytesPerToken <= Capacity[GPU]
  /\ \A w \in DOMAIN WriteThrough : WriteThrough[w] \in Unbounded

LEMMA ShortFits ==
  ASSUME RoomForAll, NEW c \in Chunk, Short(c)
  PROVE  ~Oversized(c)
<1>1. c.end - c.start \in Nat /\ c.end - c.start <= ChunkSize
  BY DEF Chunk, Short
<1>2. size_bytes(c) <= ChunkSize * BytesPerToken
  BY <1>1, ProductMono DEF size_bytes, ChunkingAssumption
<1>3. size_bytes(c) \in Nat /\ ChunkSize * BytesPerToken \in Nat /\ Capacity[GPU] \in Nat
  BY <1>1, NatProduct DEF size_bytes, ChunkingAssumption, TierAssumption, Tiers
<1> QED BY <1>2, <1>3 DEF RoomForAll, Oversized

NothingRaised == phase # "failed"

\* No prefill of the experiments ends in a ValueError: no planned load misses
\* its chunk, no chunk is too large for the GPU, also none that comes back from
\* a cold tier, and no write-through is refused.
THEOREM NoPrefillFails ==
  ASSUME RoomForAll
  PROVE  Spec => []NothingRaised
<1>1. Init => NothingRaised
  BY DEF Init, NothingRaised
<1>2. TypeInv /\ AlignInv /\ ShortInv /\ SafetyInv' /\ NothingRaised /\ [Next]_vars
        => NothingRaised'
  <2> SUFFICES ASSUME TypeInv, AlignInv, ShortInv, SafetyInv', phase # "failed", [Next]_vars,
                      phase' = "failed"
               PROVE  FALSE
    BY DEF NothingRaised
  <2>1. error' # "missing"
    BY DEF SafetyInv, LoadsInv
  <2>2. CASE UNCHANGED vars
    BY <2>2 DEF vars, chunkingVars
  <2>3. CASE Arrive \/ Split
    BY <2>3 DEF Arrive, Split, SplitStep, SplitShared, SplitPrivate
  <2>4. CASE Schedule
    BY <2>4, ScheduleFrame
  <2>5. CASE BeginMaterialise \/ EndOfPhase \/ SkipOther
    BY <2>5 DEF BeginMaterialise, EndOfPhase, SkipOther, GoTo, PhaseAfter, Advance
  <2>6. CASE GpuLoad
    BY <2>1, <2>6 DEF GpuLoad, Advance, Raise, At
  <2>7. CASE ColdLoad
    <3> DEFINE c == StoredSource(cursor)
    <3>1. Oversized(c) /\ Present(plan[cursor].source, Key(cursor))
      BY <2>1, <2>7 DEF ColdLoad, StoreLoaded, Fail, Raise, Advance, At
    <3>2. cursor \in DOMAIN chunks /\ Loads(cursor) /\ plan[cursor].source \in Tiers
      BY <2>7, CursorFacts DEF ColdLoad
    <3>3. /\ c \in Chunk
          /\ c.start = tiers[plan[cursor].source][Key(cursor)].start
          /\ c.end = tiers[plan[cursor].source][Key(cursor)].end
      BY <3>1, <3>2, StoredSourceFacts DEF coverage, Present
    <3>4. Short(c)
      BY <3>1, <3>2, <3>3 DEF ShortInv, Short, Present
    <3> QED BY <3>1, <3>3, <3>4, ShortFits
  <2>8. CASE Recomputes
    <3>1. Oversized(chunks[cursor])
      BY <2>8 DEF Recomputes, BeginWriteThrough, At
    <3>2. cursor \in DOMAIN chunks /\ chunks[cursor] \in Chunk
      BY <2>8, CursorFacts DEF Recomputes
    <3> QED BY <3>1, <3>2, ShortChunks, ShortFits
  <2>9. CASE MakeRoom \/ FinishStore \/ WriteThroughDone
    BY <2>9 DEF MakeRoom, FinishStore, WriteThroughDone, Advance, BeginWriteThrough
  <2>10. CASE WriteThroughOne
    <3>1. WriteThrough[wtCursor] \in Unbounded
      BY <2>10, UpsertStep DEF RoomForAll
    <3> QED BY <2>10, <3>1 DEF WriteThroughOne, upsert_raises, can_store
  <2> QED BY <2>2, <2>3, <2>4, <2>5, <2>6, <2>7, <2>8, <2>9, <2>10
          DEF Next, Prefill, Materialise
<1> QED BY <1>1, <1>2, PrefillInvariant, SpecAligned, SpecShort, PTL DEF Spec

-----------------------------------------------------------------------------
(* Prefills that end.                                                      *)

\* How many positions there are from i to n.
Ahead(i, n) == IF i <= n THEN n + 1 - i ELSE 0

StageNumber ==
  [split |-> 8, scan |-> 7, sweep |-> 6, scheduled |-> 5, gpuLoads |-> 4,
   coldLoads |-> 3, recompute |-> 2, writeThrough |-> 2, idle |-> 1, failed |-> 0]

\* What the current loop has left to do.
Remaining ==
  CASE phase = "split" -> Ahead(pos, request.prompt - 1)
    [] phase = "scan"  -> Ahead(computeIndex, loadIndex)
    [] phase = "sweep" -> Ahead(sweepIndex, Len(chunks))
    [] OTHER           -> Ahead(cursor, Len(chunks))

\* A chunk is looked at, then stored, then written through.
StoreStage == IF phase = "writeThrough" THEN 0 ELSE IF Idle THEN 2 ELSE 1

\* What can still be evicted for it, or the tiers it is still to be written to.
Waiting ==
  IF phase = "writeThrough" THEN Ahead(wtCursor, Len(WriteThrough))
  ELSE IF Idle THEN 0 ELSE Cardinality(DOMAIN tiers[GPU])

Variant == <<StageNumber[phase], Remaining, StoreStage, Waiting>>

VariantsDescend == [][Prefill => LexLess(Variant', Variant)]_vars

LEMMA AheadIsNat ==
  ASSUME NEW i \in Int, NEW n \in Int
  PROVE  Ahead(i, n) \in Nat
  BY DEF Ahead

LEMMA VariantIsNat ==
  ASSUME TypeInv, RetentionInv
  PROVE  Variant \in Nat \X Nat \X Nat \X Nat
<1>1. StageNumber[phase] \in Nat
  BY DEF StageNumber, TypeInv, ControlTypeOK, Phases
<1>2. /\ pos \in Int /\ request.prompt - 1 \in Int /\ computeIndex \in Int
      /\ loadIndex \in Int /\ sweepIndex \in Int /\ Len(chunks) \in Int
      /\ cursor \in Int /\ wtCursor \in Int /\ Len(WriteThrough) \in Int
  BY SMTT(30), ScheduleFacts
     DEF TypeInv, ScheduleTypeOK, ControlTypeOK, Request, WriteThroughAssumption
<1>3. Remaining \in Nat
  BY <1>2, AheadIsNat DEF Remaining
<1>4. StoreStage \in Nat
  BY DEF StoreStage
<1>5. Waiting \in Nat
  <2>1. Cardinality(DOMAIN tiers[GPU]) \in Nat
    BY FS_CardinalityType DEF RetentionInv, CapacityInv, Tiers
  <2> QED BY <1>2, <2>1, AheadIsNat DEF Waiting
<1> QED BY <1>1, <1>3, <1>4, <1>5 DEF Variant

LEMMA Descends ==
  ASSUME NEW a1, NEW a2, NEW a3, NEW a4, NEW b1, NEW b2, NEW b3, NEW b4,
         \/ a1 < b1
         \/ a1 = b1 /\ a2 < b2
         \/ a1 = b1 /\ a2 = b2 /\ a3 < b3
         \/ a1 = b1 /\ a2 = b2 /\ a3 = b3 /\ a4 < b4
  PROVE  LexLess(<<a1, a2, a3, a4>>, <<b1, b2, b3, b4>>)
<1> DEFINE a == <<a1, a2, a3, a4>>
           b == <<b1, b2, b3, b4>>
<1>1. /\ DOMAIN a = 1 .. 4
      /\ a[1] = a1 /\ a[2] = a2 /\ a[3] = a3 /\ a[4] = a4
      /\ b[1] = b1 /\ b[2] = b2 /\ b[3] = b3 /\ b[4] = b4
  OBVIOUS
<1>2. /\ \A j \in 1 .. 1 - 1 : FALSE
      /\ \A j \in 1 .. 2 - 1 : j = 1
      /\ \A j \in 1 .. 3 - 1 : j = 1 \/ j = 2
      /\ \A j \in 1 .. 4 - 1 : j = 1 \/ j = 2 \/ j = 3
  OBVIOUS
<1> HIDE DEF a, b
<1>3. \E i \in DOMAIN a : a[i] < b[i] /\ \A j \in 1 .. i - 1 : a[j] = b[j]
  <2>1. CASE a1 < b1
    BY <1>1, <1>2, <2>1
  <2>2. CASE a1 = b1 /\ a2 < b2
    BY <1>1, <1>2, <2>2
  <2>3. CASE a1 = b1 /\ a2 = b2 /\ a3 < b3
    BY <1>1, <1>2, <2>3
  <2>4. CASE a1 = b1 /\ a2 = b2 /\ a3 = b3 /\ a4 < b4
    BY <1>1, <1>2, <2>4
  <2> QED BY <2>1, <2>2, <2>3, <2>4
<1> QED BY <1>3 DEF LexLess, a, b

\* The four ways to descend.
VariantDrops ==
  \/ StageNumber[phase'] < StageNumber[phase]
  \/ StageNumber[phase'] = StageNumber[phase] /\ Remaining' < Remaining
  \/ /\ StageNumber[phase'] = StageNumber[phase] /\ Remaining' = Remaining
     /\ StoreStage' < StoreStage \/ (StoreStage' = StoreStage /\ Waiting' < Waiting)

LEMMA DropsDescend == VariantDrops => LexLess(Variant', Variant)
<1> SUFFICES ASSUME VariantDrops PROVE LexLess(Variant', Variant)
  OBVIOUS
<1>1. PICK a1, a2, a3, a4, b1, b2, b3, b4 :
        /\ a1 = StageNumber[phase'] /\ a2 = Remaining' /\ a3 = StoreStage' /\ a4 = Waiting'
        /\ b1 = StageNumber[phase] /\ b2 = Remaining /\ b3 = StoreStage /\ b4 = Waiting
  OBVIOUS
<1>2. Variant' = <<a1, a2, a3, a4>> /\ Variant = <<b1, b2, b3, b4>>
  <2>1. Variant' = <<StageNumber[phase'], Remaining', StoreStage', Waiting'>>
    BY DEF Variant, StageNumber
  <2> QED BY <1>1, <2>1 DEF Variant
<1>3. \/ a1 < b1
      \/ a1 = b1 /\ a2 < b2
      \/ a1 = b1 /\ a2 = b2 /\ a3 < b3
      \/ a1 = b1 /\ a2 = b2 /\ a3 = b3 /\ a4 < b4
  BY <1>1 DEF VariantDrops
<1> QED BY <1>2, <1>3, Descends

LEMMA SplitDescends ==
  ASSUME TypeInv, AlignInv, Split
  PROVE  VariantDrops
<1>1. /\ pos \in Nat /\ request.prompt \in Nat /\ request.shared \in Nat
      /\ request.shared <= request.prompt /\ ChunkSize \in Nat /\ ChunkSize > 0
  BY SMTT(30) DEF TypeInv, ScheduleTypeOK, Request, AlignInv, RequestInv, Tiling, ChunkingAssumption
<1>2. phase = "split" /\ phase' = phase /\ request' = request
  BY DEF Split, SplitStep, SplitShared, SplitPrivate
<1>3. pos < request.prompt /\ pos' \in Nat /\ pos < pos'
  <2>1. PICK limit \in {request.shared, request.prompt} :
          pos < limit /\ pos' = MinOf(pos + ChunkSize, limit)
    <3>1. CASE SplitShared
      BY <3>1 DEF SplitShared, AppendChunk, NextChunk
    <3>2. CASE SplitPrivate
      BY <3>2 DEF SplitPrivate, AppendChunk, NextChunk
    <3> QED BY <3>1, <3>2 DEF Split, SplitStep
  <2>2. limit \in Nat /\ limit <= request.prompt /\ pos + ChunkSize \in Nat
        /\ pos < pos + ChunkSize
    BY <1>1
  <2>3. MinOf(pos + ChunkSize, limit) \in {pos + ChunkSize, limit}
    BY DEF MinOf
  <2> QED BY <1>1, <2>1, <2>2, <2>3
<1>4. Ahead(pos', request.prompt - 1) < Ahead(pos, request.prompt - 1)
  <2>1. PICK p, q : p = pos' /\ q = request.prompt - 1
    OBVIOUS
  <2>2. p \in Nat /\ q \in Int /\ pos < p /\ pos <= q
    BY <1>1, <1>3, <2>1
  <2>3. Ahead(p, q) < Ahead(pos, q)
    BY <1>1, <2>2 DEF Ahead
  <2> QED BY <2>1, <2>3
<1>5. Remaining' < Remaining
  BY <1>2, <1>4 DEF Remaining, Ahead
<1> QED BY <1>2, <1>5 DEF VariantDrops

LEMMA ScheduleDescends ==
  ASSUME TypeInv, Schedule
  PROVE  VariantDrops
<1>1. /\ computeIndex \in Nat /\ loadIndex \in Nat /\ sweepIndex \in Nat
      /\ Len(chunks) \in Nat /\ chunks' = chunks
  BY ScheduleFacts, ScheduleFrame DEF TypeInv, ScheduleTypeOK
<1>2. CASE SkipUncached \/ ClaimLoad \/ ClaimCompute
  <2>1. /\ phase = "scan" /\ phase' = phase /\ computeIndex <= loadIndex
        /\ \/ loadIndex' = loadIndex - 1 /\ computeIndex' = computeIndex
           \/ loadIndex' = loadIndex /\ computeIndex' = computeIndex + 1
    BY <1>2 DEF SkipUncached, ClaimLoad, ClaimCompute, Scanning
  <2>2. Ahead(computeIndex', loadIndex') < Ahead(computeIndex, loadIndex)
    BY <1>1, <2>1 DEF Ahead
  <2>3. Remaining' < Remaining
    BY <2>1, <2>2 DEF Remaining, Ahead
  <2> QED BY <2>1, <2>3 DEF VariantDrops
<1>3. CASE SweepChunk
  <2>1. /\ phase = "sweep" /\ phase' = phase /\ sweepIndex <= Len(chunks)
        /\ sweepIndex' = sweepIndex + 1
    BY <1>3 DEF SweepChunk
  <2>2. Ahead(sweepIndex', Len(chunks)) < Ahead(sweepIndex, Len(chunks))
    BY <1>1, <2>1 DEF Ahead
  <2>3. Remaining' < Remaining
    BY <1>1, <2>1, <2>2 DEF Remaining, Ahead
  <2> QED BY <2>1, <2>3 DEF VariantDrops
<1>4. CASE FrontsCross \/ SweepDone
  BY <1>4 DEF FrontsCross, SweepDone, VariantDrops, StageNumber
<1>5. CASE StartScan
  BY <1>5 DEF StartScan, SplitDone, VariantDrops, StageNumber
<1>6. CASE phase = "scan" /\ phase' = "scheduled"
  BY <1>6 DEF VariantDrops, StageNumber
<1> QED BY <1>2, <1>3, <1>4, <1>5, <1>6 DEF Schedule, CakeStep

LEMMA MaterialiseDescends ==
  ASSUME TypeInv, RetentionInv, Materialise
  PROVE  VariantDrops
<1>1. /\ cursor \in Nat /\ wtCursor \in Nat /\ Len(chunks) \in Nat /\ chunks' = chunks
      /\ Len(WriteThrough) \in Nat
  BY ScheduleFacts, PrefillFrame DEF TypeInv, ControlTypeOK, Prefill, WriteThroughAssumption
<1>2. ASSUME phase' \in {phase}, cursor' = cursor + 1, cursor <= Len(chunks),
             phase \in {"gpuLoads", "coldLoads", "recompute"}
      PROVE  VariantDrops
  <2>1. Ahead(cursor', Len(chunks)) < Ahead(cursor, Len(chunks))
    BY <1>1, <1>2 DEF Ahead
  <2>2. Remaining' < Remaining
    BY <1>1, <1>2, <2>1 DEF Remaining, Ahead
  <2> QED BY <1>2, <2>2 DEF VariantDrops
<1>3. ASSUME phase' = "failed", phase # "failed"
      PROVE  VariantDrops
  BY <1>3 DEF VariantDrops, StageNumber, TypeInv, ControlTypeOK, Phases
<1>4. ASSUME UNCHANGED <<cursor, chunks>>, phase \in {"coldLoads", "recompute"},
             Idle, ~Idle' \/ phase' = "writeThrough", phase' \in {phase, "writeThrough"},
             phase' = "writeThrough" => phase = "recompute"
      PROVE  VariantDrops
  <2>1. StageNumber[phase'] = StageNumber[phase]
    BY <1>4 DEF StageNumber
  <2>2. Remaining' = Remaining
    BY <1>4 DEF Remaining, Ahead
  <2>3. StoreStage = 2 /\ StoreStage' \in {0, 1}
    BY <1>4 DEF StoreStage
  <2> QED BY <2>1, <2>2, <2>3 DEF VariantDrops
<1>5. CASE BeginMaterialise \/ EndOfPhase
  <2>1. \/ phase = "scheduled" /\ phase' = "gpuLoads"
        \/ phase = "gpuLoads" /\ phase' = "coldLoads"
        \/ phase = "coldLoads" /\ phase' = "recompute"
        \/ phase = "recompute" /\ phase' = "idle"
    BY <1>5 DEF BeginMaterialise, EndOfPhase, GoTo, PhaseAfter
  <2> QED BY <2>1 DEF VariantDrops, StageNumber
<1>6. CASE SkipOther
  BY <1>2, <1>6 DEF SkipOther, Advance, At
<1>7. CASE GpuLoad
  BY <1>2, <1>3, <1>7 DEF GpuLoad, Advance, Raise, At
<1>8. CASE ColdLoad
  <2>1. CASE phase' = "failed"
    BY <1>3, <1>8, <2>1 DEF ColdLoad, At
  <2>2. CASE Advance
    BY <1>2, <1>8, <2>2 DEF ColdLoad, Advance, At
  <2>3. CASE /\ Present(plan[cursor].source, Key(cursor))
             /\ store(StoredSource(cursor))
             /\ ~Present(GPU, cache_key(StoredSource(cursor)))
             /\ UNCHANGED <<phase, cursor>>
    <3>1. pending' = StoredSource(cursor) /\ StoredSource(cursor) # NoChunk
      <4>1. StoredSource(cursor) \in Chunk
        BY <1>8, <2>3, CursorFacts, StoredSourceFacts DEF ColdLoad
      <4>2. StoredSource(cursor) # NoChunk
        BY <4>1 DEF Chunk, NoChunk
      <4> QED BY <2>3, <4>2 DEF store, StartStore
    <3> QED BY <1>1, <1>4, <1>8, <2>3, <3>1 DEF ColdLoad, At, Idle
  <2> QED BY <1>8, <2>1, <2>2, <2>3 DEF ColdLoad, StoreLoaded, Fail, Raise
<1>9. CASE Recomputes
  <2>1. CASE phase' = "failed"
    BY <1>3, <1>9, <2>1 DEF Recomputes, At
  <2>2. CASE /\ IF pending' = NoChunk THEN BeginWriteThrough ELSE UNCHANGED <<phase, wtCursor>>
             /\ UNCHANGED cursor
    BY <1>1, <1>4, <1>9, <2>2 DEF Recomputes, At, BeginWriteThrough, Idle
  <2> QED BY <1>9, <2>1, <2>2 DEF Recomputes, Fail, Raise
<1>10. CASE MakeRoom
  <2>1. /\ phase' = phase /\ cursor' = cursor /\ pending' = pending /\ ~Idle
        /\ phase \in {"coldLoads", "recompute"}
    BY <1>10 DEF MakeRoom, EvictVictim, TypeInv, Bookkeeping
  <2>2. StageNumber[phase'] = StageNumber[phase] /\ Remaining' = Remaining
    BY <1>1, <2>1 DEF Remaining, Ahead
  <2>3. StoreStage' = StoreStage
    BY <2>1 DEF StoreStage, Idle
  <2>4. Cardinality(DOMAIN tiers'[GPU]) < Cardinality(DOMAIN tiers[GPU])
    <3>1. PICK key \in DOMAIN tiers[GPU] : RemoveFromGPU(key)
      BY <1>10 DEF MakeRoom, EvictVictim, Victims
    <3>2. tiers'[GPU] = drop(tiers[GPU], key)
      BY <3>1, RemoveFromGPUFacts DEF TypeInv
    <3>3. IsFiniteSet(DOMAIN tiers[GPU])
      BY DEF RetentionInv, CapacityInv, Tiers
    <3>4. Cardinality(DOMAIN tiers'[GPU]) = Cardinality(DOMAIN tiers[GPU]) - 1
      BY <3>1, <3>2, <3>3, DropCount
    <3>5. Cardinality(DOMAIN tiers[GPU]) \in Nat
      BY <3>3, FS_CardinalityType
    <3> QED BY <3>4, <3>5
  <2>5. Waiting' < Waiting
    BY <2>1, <2>4 DEF Waiting, Idle
  <2> QED BY <2>2, <2>3, <2>5 DEF VariantDrops
<1>11. CASE FinishStore
  <2>1. ~Idle /\ phase \in {"coldLoads", "recompute"} /\ cursor \in DOMAIN chunks
    BY <1>11 DEF FinishStore, InsertPending, TypeInv, Bookkeeping
  <2>2. CASE phase = "coldLoads"
    <3>1. cursor <= Len(chunks)
      BY <2>1, ScheduleFacts
    <3> QED BY <1>2, <1>11, <2>2, <3>1 DEF FinishStore, Advance
  <2>3. CASE phase = "recompute"
    <3>1. phase' = "writeThrough" /\ cursor' = cursor
      BY <1>11, <2>3 DEF FinishStore, BeginWriteThrough
    <3>2. StageNumber[phase'] = StageNumber[phase]
      BY <2>3, <3>1 DEF StageNumber
    <3>3. Remaining' = Remaining
      BY <1>1, <2>3, <3>1 DEF Remaining, Ahead
    <3>4. StoreStage = 1 /\ StoreStage' = 0
      BY <2>1, <2>3, <3>1 DEF StoreStage
    <3> QED BY <3>2, <3>3, <3>4 DEF VariantDrops
  <2> QED BY <2>1, <2>2, <2>3
<1>12. CASE WriteThroughOne
  <2>1. CASE phase' = "failed"
    BY <1>3, <1>12, <2>1 DEF WriteThroughOne
  <2>2. CASE wtCursor' = wtCursor + 1 /\ UNCHANGED <<phase, cursor>>
    <3>1. phase = "writeThrough" /\ wtCursor <= Len(WriteThrough)
      BY <1>12 DEF WriteThroughOne
    <3>2. StageNumber[phase'] = StageNumber[phase] /\ Remaining' = Remaining
      BY <1>1, <2>2, <3>1 DEF Remaining, Ahead
    <3>3. StoreStage' = StoreStage
      BY <2>2, <3>1 DEF StoreStage
    <3>4. Waiting' < Waiting
      BY <1>1, <2>2, <3>1 DEF Waiting, Ahead
    <3> QED BY <3>2, <3>3, <3>4 DEF VariantDrops
  <2> QED BY <1>12, <2>1, <2>2 DEF WriteThroughOne, Raise
<1>13. CASE WriteThroughDone
  <2>1. /\ phase = "writeThrough" /\ phase' = "recompute" /\ cursor' = cursor + 1
        /\ cursor \in DOMAIN chunks
    BY <1>13 DEF WriteThroughDone, TypeInv, Bookkeeping
  <2>2. cursor <= Len(chunks)
    BY <2>1, ScheduleFacts
  <2>3. Ahead(cursor', Len(chunks)) < Ahead(cursor, Len(chunks))
    BY <1>1, <2>1, <2>2 DEF Ahead
  <2>4. Remaining = Ahead(cursor, Len(chunks)) /\ Remaining' = Ahead(cursor', Len(chunks))
    BY <1>1, <2>1 DEF Remaining, Ahead
  <2> QED BY <2>1, <2>3, <2>4 DEF VariantDrops, StageNumber
<1> QED BY <1>5, <1>6, <1>7, <1>8, <1>9, <1>10, <1>11, <1>12, <1>13 DEF Materialise

\* No prefill goes on for ever: each of its steps, the iterations of every
\* loop included, makes a tuple of four natural numbers smaller.
THEOREM PrefillsRunOut ==
  Spec => /\ [](Variant \in Nat \X Nat \X Nat \X Nat)
          /\ VariantsDescend
<1> DEFINE V == Variant \in Nat \X Nat \X Nat \X Nat
<1>1. TypeInv /\ RetentionInv => V
  BY VariantIsNat
<1>2. TypeInv /\ RetentionInv /\ AlignInv /\ [Next]_vars
        => [Prefill => LexLess(Variant', Variant)]_vars
  <2> SUFFICES ASSUME TypeInv, RetentionInv, AlignInv, Prefill
               PROVE  LexLess(Variant', Variant)
    OBVIOUS
  <2>1. VariantDrops
    BY SplitDescends, ScheduleDescends, MaterialiseDescends DEF Prefill
  <2> QED BY <2>1, DropsDescend
<1> HIDE DEF V
<1>3. Spec => []V /\ VariantsDescend
  BY <1>1, <1>2, PrefillInvariant, SpecRetention, SpecAligned, PTL DEF Spec, VariantsDescend
<1> QED BY <1>3 DEF V

=============================================================================
