---------------------------- MODULE CakeScheduler ---------------------------
(***************************************************************************)
(* CakeBidirectionalScheduler.schedule_chunks (scheduler.py): a compute    *)
(* front walks forward from the first chunk, an I/O front walks backward   *)
(* from the last one ("scan"); the chunks left over are recomputed in      *)
(* order ("sweep").  The scheduler reads the tiers and changes none.       *)
(***************************************************************************)
EXTENDS Chunking, Scheduler

VARIABLES
  plan,           \* plan[i]: the operation committed for chunks[i]
  computeIndex,   \* next chunk of the compute front
  loadIndex,      \* next chunk of the I/O front
  sweepIndex,     \* next chunk of the sweep
  computeTime,    \* compute_time_ms
  loadTime        \* load_time_ms

frontVars == <<computeIndex, loadIndex, sweepIndex, computeTime, loadTime>>

Scheduled(i) == plan[i] # Unscheduled

FrontsReset ==
  /\ plan' = <<>>
  /\ computeIndex' = 1 /\ loadIndex' = 0 /\ sweepIndex' = 1
  /\ computeTime' = 0 /\ loadTime' = 0

\* The chunks are known: the I/O front starts at the last one.
StartScan ==
  /\ SplitDone
  /\ plan' = [i \in DOMAIN chunks |-> Unscheduled]
  /\ loadIndex' = Len(chunks)
  /\ UNCHANGED <<computeIndex, sweepIndex, computeTime, loadTime>>

\* Mutant: the scan stops one chunk early.
MutScanning == phase = "scan" /\ computeIndex < loadIndex

\* Mutant: each front goes on to its own end of the prompt.
MutScanPast ==
  phase = "scan" /\ loadIndex >= 1 /\ computeIndex <= Len(chunks)

Scanning == phase = "scan" /\ computeIndex <= loadIndex

\* Mutant: the load is charged for the whole stored chunk.
MutLoadNext ==
  LET t == find_cached(chunks[loadIndex])
  IN  loadTime + 2 * (LoadQueueDelay[t]
                        + size_bytes(tiers[t][cache_key(chunks[loadIndex])]) * LoadPerByte[t])

LoadNext ==
  loadTime + estimate_load_time(chunks[loadIndex], find_cached(chunks[loadIndex]))

ComputeNext == computeTime + estimate_compute_time(chunks[computeIndex])

\* Mutant: the I/O front stays where it is.
MutSkipUncached ==
  /\ Scanning
  /\ find_cached(chunks[loadIndex]) = NoTier
  /\ UNCHANGED <<phase, plan, frontVars>>

\* The I/O front passes over a chunk it cannot load, at no cost.
SkipUncached ==
  /\ Scanning
  /\ find_cached(chunks[loadIndex]) = NoTier
  /\ loadIndex' = loadIndex - 1
  /\ UNCHANGED <<phase, plan, computeIndex, sweepIndex, computeTime, loadTime>>

\* Mutant: the I/O front compares the two clocks, not the projected ends.
MutClaimLoad ==
  /\ Scanning
  /\ find_cached(chunks[loadIndex]) # NoTier
  /\ loadTime <= ComputeNext
  /\ plan' = [plan EXCEPT ![loadIndex] = Load(find_cached(chunks[loadIndex]))]
  /\ loadTime' = LoadNext
  /\ loadIndex' = loadIndex - 1
  /\ UNCHANGED <<phase, computeIndex, sweepIndex, computeTime>>

\* Loading would end no later than the next computation: load.
ClaimLoad ==
  /\ Scanning
  /\ find_cached(chunks[loadIndex]) # NoTier
  /\ LoadNext <= ComputeNext
  /\ plan' = [plan EXCEPT ![loadIndex] = Load(find_cached(chunks[loadIndex]))]
  /\ loadTime' = LoadNext
  /\ loadIndex' = loadIndex - 1
  /\ UNCHANGED <<phase, computeIndex, sweepIndex, computeTime>>

\* Otherwise the compute front advances.
ClaimCompute ==
  /\ Scanning
  /\ find_cached(chunks[loadIndex]) # NoTier
  /\ LoadNext > ComputeNext
  /\ plan' = [plan EXCEPT ![computeIndex] = Recompute]
  /\ computeTime' = ComputeNext
  /\ computeIndex' = computeIndex + 1
  /\ UNCHANGED <<phase, loadIndex, sweepIndex, loadTime>>

FrontsCross ==
  /\ phase = "scan"
  /\ ~Scanning
  /\ phase' = "sweep"
  /\ UNCHANGED <<plan, frontVars>>

\* Mutant: the sweep recomputes every chunk.
MutSweepChunk ==
  /\ phase = "sweep"
  /\ sweepIndex <= Len(chunks)
  /\ plan' = [plan EXCEPT ![sweepIndex] = Recompute]
  /\ computeTime' = computeTime + estimate_compute_time(chunks[sweepIndex])
  /\ sweepIndex' = sweepIndex + 1
  /\ UNCHANGED <<phase, computeIndex, loadIndex, loadTime>>

SweepChunk ==
  /\ phase = "sweep"
  /\ sweepIndex <= Len(chunks)
  /\ \/ /\ Scheduled(sweepIndex)
        /\ UNCHANGED <<plan, computeTime>>
     \/ /\ ~Scheduled(sweepIndex)
        /\ plan' = [plan EXCEPT ![sweepIndex] = Recompute]
        /\ computeTime' = computeTime + estimate_compute_time(chunks[sweepIndex])
  /\ sweepIndex' = sweepIndex + 1
  /\ UNCHANGED <<phase, computeIndex, loadIndex, loadTime>>

SweepDone ==
  /\ phase = "sweep"
  /\ sweepIndex > Len(chunks)
  /\ phase' = "scheduled"
  /\ UNCHANGED <<plan, frontVars>>

CakeStep ==
  \/ SkipUncached \/ ClaimLoad \/ ClaimCompute
  \/ FrontsCross \/ SweepChunk \/ SweepDone

total_estimated_ttft == MaxOf(computeTime, loadTime)

\* The type invariant of the chunker and the scheduler, phase apart.
ScheduleTypeOK ==
  /\ request \in Request
  /\ pos \in Nat
  /\ chunks \in Seq(Chunk)
  /\ plan \in Seq(Decision)
  /\ computeIndex \in Nat \ {0} /\ loadIndex \in Nat /\ sweepIndex \in Nat \ {0}
  /\ computeTime \in Nat /\ loadTime \in Nat

=============================================================================
