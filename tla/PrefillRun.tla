----------------------------- MODULE PrefillRun -----------------------------
(***************************************************************************)
(* run_scenario with the metrics that each prefill returns                 *)
(* (prefill_simulation.py, PrefillMetrics and both simulate functions;     *)
(* run_cake_global_experiment.py, metrics_list).                           *)
(***************************************************************************)
EXTENDS PrefillProperties

CONSTANT
  Aggregate         \* LinearScheduleMode: "sum" or "max"

VARIABLE
  metrics           \* metrics_list

runVars == <<vars, metrics>>

RunInit == Init /\ metrics = <<>>

count(action) == Cardinality({ i \in DOMAIN plan : plan[i].action = action })

LinearTimes == [i \in DOMAIN chunks |-> decision_time(chunks[i], plan[i])]

estimated_ttft ==
  CASE UseCake            -> total_estimated_ttft
    [] Aggregate = "sum" -> SumFunction(LinearTimes)
    [] OTHER             -> Max(Range(LinearTimes) \cup {0})

PrefillMetrics ==
  [estimated_ttft      |-> estimated_ttft,
   recompute_count     |-> count("recompute"),
   load_count          |-> count("load"),
   eviction_count      |-> evictionCount,
   coverage_miss_count |-> coverageMisses,
   gpu_chunks_after    |-> Cardinality(DOMAIN tiers[GPU]),
   gpu_used_bytes      |-> used_bytes(tiers[GPU])]

\* The prefill is over; one that raised returns no metrics.
Returns == phase # "idle" /\ phase' = "idle"

RunNext ==
  /\ Next
  /\ metrics' = IF Returns THEN Append(metrics, PrefillMetrics) ELSE metrics

RunSpec == RunInit /\ [][RunNext]_runVars

-----------------------------------------------------------------------------
(* The counts against the contents of the GPU tier.                        *)

GpuChunks(n) == IF n = 0 THEN 0 ELSE metrics[n].gpu_chunks_after

ColdLoads == { i \in DOMAIN plan : Loads(i) /\ plan[i].source # GPU }

PrivateChunks == { i \in DOMAIN chunks : chunks[i].cid \notin Documents }

\* What a prefill reports accounts for every chunk that came or went: each
\* cold load and each private recomputation brought one chunk into the GPU,
\* each other recomputation at most one (it may replace or keep a resident),
\* and whatever else is missing was reported as evicted (eviction_count is
\* added up from the results of two different store operations, and the
\* removal in store_replacing is not an eviction).
ChunkFlowBalances ==
  phase = "idle" /\ served > 0 =>
    LET m     == metrics[served]
        moved == m.gpu_chunks_after + m.eviction_count - GpuChunks(served - 1)
    IN  moved \in Cardinality(ColdLoads) + Cardinality(PrivateChunks)
                  .. Cardinality(ColdLoads) + m.recompute_count

\* After a prefill each chunk of its shared prefix is a hit at once: although
\* the lookup stops at the first holder, no tier before the write-through tier
\* is left with a shorter version of what was just served.  A repetition of
\* the request, or of any prefix of it, has to recompute its private suffix only.
ServedPrefixIsHit ==
  phase = "idle" =>
    \A i \in DOMAIN chunks \ PrivateChunks : find_cached(chunks[i]) # NoTier

=============================================================================
