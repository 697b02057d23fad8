----------------------------- MODULE ScenarioRun ----------------------------
(***************************************************************************)
(* One scenario of the experiment (run_cake_global_experiment.py,          *)
(* run_scenario): a list of requests, generated beforehand, is served in   *)
(* order, and the metrics of the prefills are added up.                    *)
(***************************************************************************)
EXTENDS PrefillRun, RequestCutters

VARIABLE
  requests          \* the request stream

scenarioVars == <<runVars, requests>>

\* What generate_requests can return.
Streams ==
  { s \in [1 .. MaxRequests -> UNION { RequestsOf(i) : i \in 0 .. MaxRequests - 1 }] :
      \A i \in DOMAIN s : s[i] \in RequestsOf(i - 1) }

ScenarioInit == requests \in Streams /\ RunInit

\* The request that arrives is the next one of the list.
ScenarioNext ==
  /\ RunNext
  /\ served' # served => request' = requests[served']
  /\ UNCHANGED requests

\* The loop over the list does not wait for anything.
ScenarioSpec ==
  ScenarioInit /\ [][ScenarioNext]_scenarioVars /\ WF_scenarioVars(ScenarioNext)

Sum(field) == SumFunction([n \in DOMAIN metrics |-> metrics[n][field]])

\* The row of summary_by_scenario.csv; the mean is taken as a total.
ScenarioSummary ==
  [total_ttft            |-> Sum("estimated_ttft"),
   total_evictions       |-> Sum("eviction_count"),
   total_recompute       |-> Sum("recompute_count"),
   total_load            |-> Sum("load_count"),
   total_coverage_misses |-> Sum("coverage_miss_count")]

-----------------------------------------------------------------------------
(* What a scenario shows of its stream, whatever its policy and scheduler. *)

Prompt(n) == chunk_request_with_prefix_split(requests[n])

\* An earlier request of the stream asked for a chunk with this key.
PartAskedBefore(n, c) ==
  \E m \in 1 .. n - 1 : \E i \in DOMAIN Prompt(m) :
    cache_key(Prompt(m)[i]) = cache_key(c)

\* An earlier request asked for all of chunk c.
AskedBefore(n, c) ==
  \E m \in 1 .. n - 1 : \E i \in DOMAIN Prompt(m) :
    /\ cache_key(Prompt(m)[i]) = cache_key(c)
    /\ Prompt(m)[i].end >= c.end

\* The chunks of a prompt that nobody has asked for before.
NewChunks(n) == { i \in DOMAIN Prompt(n) : ~AskedBefore(n, Prompt(n)[i]) }

\* Those of which nobody has asked for more than a part.
ExtendedChunks(n) == { i \in NewChunks(n) : PartAskedBefore(n, Prompt(n)[i]) }

\* The chunks of the requests served so far that were new, or extended others.
FirstTouches == UNION { {n} \X NewChunks(n) : n \in 1 .. served }

PartialTouches == UNION { {n} \X ExtendedChunks(n) : n \in 1 .. served }

\* Nothing is had for free: "the very first request to touch each prefix must
\* recompute it" (WorkloadConfig), since every scenario starts with an empty
\* disk.  Whatever the scheduler, every chunk of the stream is either
\* recomputed or loaded.
FirstTouchRecomputes ==
  phase = "idle" =>
    /\ ScenarioSummary.total_recompute >= Cardinality(FirstTouches)
    /\ ScenarioSummary.total_recompute + ScenarioSummary.total_load
         = SumFunction([n \in 1 .. served |-> Len(Prompt(n))])

\* A first touch of a chunk that was partly touched is counted as a coverage
\* miss, whether the GPU or only the disk still has the part.
PartialTouchesAreMisses ==
  phase = "idle" =>
    ScenarioSummary.total_coverage_misses >= Cardinality(PartialTouches)

ServedChunks == UNION { Range(Prompt(n)) : n \in 1 .. served }

LongestPerKey ==
  [key \in { cache_key(c) : c \in ServedChunks } |->
     LET versions == { c \in ServedChunks : cache_key(c) = key }
     IN  extent(CHOOSE c \in versions : \A d \in versions : d.end <= c.end)]

\* What the write-through tiers hold is a matter of the stream alone: of each
\* key the longest version any request asked for.  Scheduler and policy decide
\* how often a chunk is recomputed, loaded and evicted, never what is kept for
\* later requests, so scenarios are compared on equal terms.
DiskIsDetermined ==
  phase = "idle" =>
    \A i \in DOMAIN WriteThrough : tiers[WriteThrough[i]] = LongestPerKey

=============================================================================
