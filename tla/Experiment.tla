----------------------------- MODULE Experiment -----------------------------
(***************************************************************************)
(* The experiment driver (run_cake_global_experiment.py, _run_one_preset): *)
(* one request stream is generated and served once per scenario, each      *)
(* scenario with a scheduler, a policy, an empty GPU and an empty disk of  *)
(* its own; the metrics of a scenario are added up.  A scenario is a       *)
(* ScenarioRun whose policy and scheduler are the scenario's.              *)
(***************************************************************************)
EXTENDS CakeScheduler, RequestCutters

CONSTANTS
  Ln(_),            \* as in EvictionPolicies
  WriteThrough,     \* as in PrefillSimulation
  Aggregate,        \* as in PrefillRun
  Schedulers        \* --schedulers: "cake_and_linear", "cake_only" or "linear_only"

ASSUME AggregateAssumption == Aggregate \in {"sum", "max"}

ASSUME SchedulersAssumption == Schedulers \in {"cake_and_linear", "cake_only", "linear_only"}

VARIABLES
  \* the state of the scenario that is running, as in PrefillRun
  order, clock, lastAccess, accessCount, insertOrder, pending, evicted,
  served, cursor, wtCursor, evictionCount, coverageMisses, error, metrics,
  requests,         \* the request stream
  scenario,         \* index of the running scenario
  summary           \* one record per finished scenario

PolicyNames == <<"ltp", "fifo", "lru", "fltp">>

With(use_cake) ==
  [i \in DOMAIN PolicyNames |-> [policy |-> PolicyNames[i], use_cake |-> use_cake]]

\* _make_scenarios
Scenarios ==
  CASE Schedulers = "cake_only"   -> With(TRUE)
    [] Schedulers = "linear_only" -> With(FALSE)
    [] OTHER                      -> With(TRUE) \o With(FALSE)

Sim(s) == INSTANCE ScenarioRun WITH Policy <- s.policy, UseCake <- s.use_cake

runVars ==
  <<tiers, order, clock, lastAccess, accessCount, insertOrder, pending, evicted,
    chunkingVars, plan, frontVars, served, cursor, wtCursor,
    evictionCount, coverageMisses, error, metrics>>

experimentVars == <<runVars, requests, scenario, summary>>

ExperimentInit ==
  /\ scenario = 1
  /\ summary = <<>>
  /\ Sim(Scenarios[1])!ScenarioInit

\* A step of the running scenario, which serves the common stream.
Serve ==
  /\ \E i \in DOMAIN Scenarios : scenario = i /\ Sim(Scenarios[i])!ScenarioNext
  /\ UNCHANGED <<scenario, summary>>

ScenarioDone == scenario <= Len(Scenarios) /\ phase = "idle" /\ served = MaxRequests

NoStamps == [k \in {} |-> 0]

\* Mutant: scenarios share the policy objects.
MutFreshPolicy ==
  /\ order' = <<>>
  /\ UNCHANGED <<clock, lastAccess, accessCount, insertOrder>>

FreshPolicy ==
  /\ order' = <<>> /\ clock' = 0
  /\ lastAccess' = NoStamps /\ accessCount' = NoStamps /\ insertOrder' = NoStamps

FreshPrefill ==
  /\ pending' = [cid |-> 0, idx |-> 0, start |-> 0, end |-> 0]
  /\ evicted' = <<>>
  /\ phase' = "idle"
  /\ request' = [id |-> 0, doc |-> 0, shared |-> 0, prompt |-> 0]
  /\ pos' = 0 /\ chunks' = <<>>
  /\ FrontsReset
  /\ served' = 0 /\ cursor' = 1 /\ wtCursor' = 1
  /\ evictionCount' = 0 /\ coverageMisses' = 0
  /\ error' = "none" /\ metrics' = <<>>

\* Mutant: the disk of the last scenario is used again.
MutFresh ==
  /\ tiers' = [tiers EXCEPT ![GPU] = EmptyDict]
  /\ FreshPolicy /\ FreshPrefill

\* A new disk, a new GPU tier, the policy object of the next scenario.
Fresh ==
  /\ tiers' = [t \in Tiers |-> EmptyDict]
  /\ FreshPolicy /\ FreshPrefill

\* The scenario's totals are recorded; the next one starts from nothing.
NextScenario ==
  /\ ScenarioDone
  /\ summary' = Append(summary, Sim(Scenarios[scenario])!ScenarioSummary)
  /\ scenario' = scenario + 1
  /\ Fresh
  /\ UNCHANGED requests

ExperimentNext == Serve \/ NextScenario

ExperimentSpec ==
  ExperimentInit /\ [][ExperimentNext]_experimentVars /\ WF_experimentVars(ExperimentNext)

-----------------------------------------------------------------------------
(* What every scenario has in common.                                      *)

\* Whatever the policy and the scheduler, and whatever scenarios came before:
\* a schedule stays valid while it is carried out, what it recomputes and loads
\* is warm and a hit afterwards, the metrics account for every chunk, nothing
\* is had for free, and the disk depends on the common stream only.  The policy
\* knows the chunks of its own scenario and no others.
EveryScenarioServes ==
  \A i \in DOMAIN Scenarios : scenario = i =>
    /\ Sim(Scenarios[i])!PolicyTracksTier
    /\ Sim(Scenarios[i])!PendingLoadsServed
    /\ Sim(Scenarios[i])!ServedPromptIsWarm
    /\ Sim(Scenarios[i])!ServedPrefixIsHit
    /\ Sim(Scenarios[i])!ChunkFlowBalances
    /\ Sim(Scenarios[i])!FirstTouchRecomputes
    /\ Sim(Scenarios[i])!PartialTouchesAreMisses
    /\ Sim(Scenarios[i])!DiskIsDetermined

\* Every scenario serves the whole stream and the experiment ends: with an
\* unbounded disk and chunks that fit in the GPU no prefill raises.
ExperimentCompletes == <>(Len(summary) = Len(Scenarios))

=============================================================================
