-------------------------- MODULE PrefillSimulation -------------------------
(***************************************************************************)
(* A stream of requests through one GPU cache and its cold tiers           *)
(* (prefill_simulation.py, run as run_scenario does).  Each request is     *)
(* chunked, scheduled against the tiers, and its schedule is then          *)
(* materialised in three phases: GPU loads, cold loads, recomputations     *)
(* with write-through.  The schedule was made before the first of these    *)
(* steps and is carried out while they change the tiers it was made from.  *)
(***************************************************************************)
EXTENDS CacheManager, CakeScheduler

CONSTANTS
  UseCake,        \* TRUE: Cake schedule, FALSE: linear schedule
  WriteThrough    \* write_through_tiers, in order

ASSUME WriteThroughAssumption ==
  /\ UseCake \in BOOLEAN
  /\ WriteThrough \in Seq(ColdTiers)

VARIABLES
  served,           \* requests taken from the stream so far
  cursor,           \* position in the current materialisation phase
  wtCursor,         \* next write-through tier for the current chunk
  evictionCount,    \* eviction_count of the current prefill
  coverageMisses,   \* coverage_miss_count of the current prefill
  error             \* the ValueError that ended the run, or "none"

countVars == <<evictionCount, coverageMisses>>

vars == <<tiers, managerVars, chunkingVars, plan, frontVars,
          served, cursor, wtCursor, countVars, error>>

Init ==
  /\ tiers = [t \in Tiers |-> EmptyDict]
  /\ CacheInit
  /\ phase = "idle"
  /\ request = [id |-> 0, doc |-> 0, shared |-> 0, prompt |-> 0]
  /\ pos = 0
  /\ chunks = <<>>
  /\ plan = <<>>
  /\ computeIndex = 1 /\ loadIndex = 0 /\ sweepIndex = 1
  /\ computeTime = 0 /\ loadTime = 0
  /\ served = 0 /\ cursor = 1 /\ wtCursor = 1
  /\ evictionCount = 0 /\ coverageMisses = 0
  /\ error = "none"

-----------------------------------------------------------------------------
(* Chunking and scheduling.                                                *)

\* run_scenario takes the next request.
Arrive ==
  /\ phase = "idle"
  /\ served < MaxRequests
  /\ request' \in RequestsOf(served)
  /\ served' = served + 1
  /\ phase' = "split"
  /\ pos' = 0
  /\ chunks' = <<>>
  /\ FrontsReset
  /\ evictionCount' = 0 /\ coverageMisses' = 0
  /\ UNCHANGED <<tiers, managerVars, cursor, wtCursor, error>>

Split ==
  /\ SplitStep
  /\ UNCHANGED <<tiers, managerVars, plan, frontVars, served, cursor, wtCursor,
                 countVars, error>>

Schedule ==
  /\ \/ StartScan
     \/ UseCake /\ CakeStep /\ UNCHANGED <<request, pos, chunks>>
     \/ /\ ~UseCake
        /\ phase = "scan"
        /\ plan' = [i \in DOMAIN chunks |-> choose_for_chunk(chunks[i])]
        /\ phase' = "scheduled"
        /\ UNCHANGED <<request, pos, chunks, frontVars>>
  /\ UNCHANGED <<tiers, managerVars, served, cursor, wtCursor, countVars, error>>

-----------------------------------------------------------------------------
(* _materialize_schedule_entries_to_gpu                                    *)

scheduleVars == <<request, pos, chunks, plan, frontVars, served>>

Key(i) == cache_key(chunks[i])

GoTo(p) == phase' = p /\ cursor' = 1

Advance == cursor' = cursor + 1 /\ UNCHANGED phase

Raise(e) == error' = e /\ phase' = "failed" /\ UNCHANGED cursor

\* Mutant: the recomputations run before the loads.
MutPhaseAfter(p) ==
  CASE p = "scheduled" -> "recompute"
    [] p = "recompute" -> "gpuLoads"
    [] p = "gpuLoads"  -> "coldLoads"
    [] p = "coldLoads" -> "idle"

\* Mutant: the cold loads run before the GPU loads.
MutColdFirst(p) ==
  CASE p = "scheduled" -> "coldLoads"
    [] p = "coldLoads" -> "gpuLoads"
    [] p = "gpuLoads"  -> "recompute"
    [] p = "recompute" -> "idle"

\* The three phases, in the order that the code runs them.
PhaseAfter(p) ==
  CASE p = "scheduled" -> "gpuLoads"
    [] p = "gpuLoads"  -> "coldLoads"
    [] p = "coldLoads" -> "recompute"
    [] p = "recompute" -> "idle"

BeginMaterialise ==
  /\ phase = "scheduled"
  /\ GoTo(PhaseAfter(phase))
  /\ UNCHANGED <<tiers, managerVars, scheduleVars, wtCursor, countVars, error>>

EndOfPhase ==
  /\ Idle
  /\ cursor > Len(chunks)
  /\ phase \in {"gpuLoads", "coldLoads", "recompute"}
  /\ GoTo(PhaseAfter(phase))
  /\ UNCHANGED <<tiers, managerVars, scheduleVars, wtCursor, countVars, error>>

At(p) == phase = p /\ Idle /\ cursor <= Len(chunks)

Loads(i) == plan[i].action = "load"

\* The chunks a phase passes over.
SkipOther ==
  /\ \/ At("gpuLoads") /\ ~(Loads(cursor) /\ plan[cursor].source = GPU)
     \/ At("coldLoads") /\ ~(Loads(cursor) /\ plan[cursor].source # GPU)
     \/ At("recompute") /\ plan[cursor].action # "recompute"
  /\ Advance
  /\ UNCHANGED <<tiers, managerVars, scheduleVars, wtCursor, countVars, error>>

\* Phase 1: a load from the GPU tier is an access.
GpuLoad ==
  /\ At("gpuLoads")
  /\ Loads(cursor) /\ plan[cursor].source = GPU
  /\ access(Key(cursor))
  /\ IF Present(GPU, Key(cursor)) THEN Advance /\ UNCHANGED error
     ELSE Raise("missing")
  /\ UNCHANGED <<scheduleVars, wtCursor, countVars>>

\* The chunk as the cold tier holds it, whatever range was asked for.
StoredSource(i) ==
  LET e == tiers[plan[i].source][Key(i)]
  IN  [chunks[i] EXCEPT !.start = e.start, !.end = e.end]

Fail(e) == Raise(e) /\ UNCHANGED <<tiers, managerVars>>

StoreLoaded(c) ==
  IF Oversized(c) THEN Fail("oversized")
  ELSE /\ store(c)
       /\ IF Present(GPU, cache_key(c)) THEN Advance ELSE UNCHANGED <<phase, cursor>>
       /\ UNCHANGED error

\* Phase 2: a load from a cold tier is a store into the GPU tier.
ColdLoad ==
  /\ At("coldLoads")
  /\ Loads(cursor) /\ plan[cursor].source # GPU
  /\ IF Present(plan[cursor].source, Key(cursor))
     THEN StoreLoaded(StoredSource(cursor))
     ELSE Fail("missing")
  /\ UNCHANGED <<scheduleVars, wtCursor, countVars>>

Partial(t, c) == Present(t, cache_key(c)) /\ ~Covers(t, c)

\* Mutant: only the GPU tier is searched.
MutFindsPartial(c) == Partial(GPU, c)

\* A partial entry in the GPU tier or a write-through tier, counted once.
FindsPartial(c) ==
  Partial(GPU, c) \/ \E i \in DOMAIN WriteThrough : Partial(WriteThrough[i], c)

BeginWriteThrough ==
  /\ phase' = "writeThrough"
  /\ wtCursor' = 1

\* Phase 3: the fresh chunk replaces whatever covers less.
Recomputes ==
  /\ At("recompute")
  /\ plan[cursor].action = "recompute"
  /\ coverageMisses' = coverageMisses + IF FindsPartial(chunks[cursor]) THEN 1 ELSE 0
  /\ UNCHANGED <<scheduleVars, evictionCount>>
  /\ \/ /\ store_replacing(chunks[cursor])
        /\ IF pending' = NoChunk THEN BeginWriteThrough
           ELSE UNCHANGED <<phase, wtCursor>>
        /\ UNCHANGED <<cursor, error>>
     \/ Oversized(chunks[cursor]) /\ Fail("oversized") /\ UNCHANGED wtCursor

\* The eviction loop of a store that phase 2 or phase 3 started.
MakeRoom ==
  /\ EvictVictim
  /\ UNCHANGED <<scheduleVars, phase, cursor, wtCursor, countVars, error>>

\* Mutant: the evictions of a cold load are not counted.
MutFinishStore ==
  /\ InsertPending
  /\ IF phase = "coldLoads"
     THEN Advance /\ UNCHANGED <<wtCursor, evictionCount>>
     ELSE /\ BeginWriteThrough
          /\ evictionCount' = evictionCount + Len(evicted)
          /\ UNCHANGED cursor
  /\ UNCHANGED <<scheduleVars, coverageMisses, error>>

\* The store returns: its evictions are counted.
FinishStore ==
  /\ InsertPending
  /\ evictionCount' = evictionCount + Len(evicted)
  /\ IF phase = "coldLoads" THEN Advance /\ UNCHANGED wtCursor
     ELSE BeginWriteThrough /\ UNCHANGED cursor
  /\ UNCHANGED <<scheduleVars, coverageMisses, error>>

\* Mutant: a cold tier is overwritten whatever it covered.
MutWriteThroughOne ==
  /\ phase = "writeThrough"
  /\ wtCursor <= Len(WriteThrough)
  /\ tiers' = [tiers EXCEPT ![WriteThrough[wtCursor]] = put(@, chunks[cursor])]
  /\ wtCursor' = wtCursor + 1
  /\ UNCHANGED <<managerVars, scheduleVars, phase, cursor, countVars, error>>

\* One upsert of the write-through loop.
WriteThroughOne ==
  LET t == WriteThrough[wtCursor] IN
  /\ phase = "writeThrough"
  /\ wtCursor <= Len(WriteThrough)
  /\ tiers' = [tiers EXCEPT ![t] = upsert(t, tiers[t], chunks[cursor])]
  /\ IF upsert_raises(t, tiers[t], chunks[cursor])
     THEN Raise("exceeds capacity") /\ UNCHANGED wtCursor
     ELSE wtCursor' = wtCursor + 1 /\ UNCHANGED <<phase, cursor, error>>
  /\ UNCHANGED <<managerVars, scheduleVars, countVars>>

WriteThroughDone ==
  /\ phase = "writeThrough"
  /\ wtCursor > Len(WriteThrough)
  /\ phase' = "recompute"
  /\ cursor' = cursor + 1
  /\ UNCHANGED <<tiers, managerVars, scheduleVars, wtCursor, countVars, error>>

Materialise ==
  \/ BeginMaterialise \/ EndOfPhase \/ SkipOther
  \/ GpuLoad \/ ColdLoad \/ Recomputes
  \/ MakeRoom \/ FinishStore
  \/ WriteThroughOne \/ WriteThroughDone

Prefill == Split \/ Schedule \/ Materialise

Next == Arrive \/ Prefill

Spec == Init /\ [][Next]_vars

\* The simulator is one sequential program: while a prefill is under way its
\* next statement is executed.
FairSpec == Spec /\ WF_vars(Prefill)

=============================================================================
