# Verification of the KV-cache prefill simulator

This directory holds TLA+ models of `src/kv_cache_sim`, the TLC configurations that
check them on small instances, and machine-checked proofs of the theorems that matter
most for the design of the simulator's cache hierarchy.

The program simulates the prefill of a stream of LLM requests. A prompt is cut into
chunks; each chunk's KV cache is either *recomputed* or *loaded* from a memory tier
(GPU, CPU, disk); a policy evicts chunks from the GPU; recomputed chunks are written
through to the cold tiers, so that later requests can load them. It is a sequential
program. What makes it hard to test is not threads but **history**: a schedule is made
from one state of the tiers and carried out while it changes them, entries of partial
coverage are upgraded, evicted, replaced and found again by later requests, and the
correctness of one comparison (`end_token >= end_token`) rests on how every earlier
request was cut.

## Inventory

| Part | Code | State | Operations |
|------|------|-------|------------|
| Chunks | `models.py` `KVChunk` | immutable | `cache_key`, `token_count`, validation |
| Memory tiers | `models.py` `MemoryTier` | dictionary key -> chunk, capacity | `can_store`, `store`, `remove`, `contains`, `upsert` |
| Prompt chunking | `models.py` `chunk_request_with_prefix_split`, `chunk_request`, `chunk_request_with_sizes` | position, chunk list | two loops (shared prefix, private suffix); fixed grid; given sizes |
| Eviction policies | `policies.py` | LRU stamps; FLTP counts and insertion order; clocks | `record_store`, `record_access`, `record_remove`, `choose_victim` |
| Cache manager | `cache.py` | the GPU tier and the policy | `access`, `store`, `store_replacing` |
| Cost model, linear scheduler | `scheduler.py` | none | cost estimates, `find_cached_chunk`, `choose_for_chunk` |
| Cake scheduler | `scheduler.py` | two fronts, their clocks, the committed operations | `schedule_chunks`: scan and sweep |
| Materialisation | `prefill_simulation.py` | counters | three phases over the chunks: GPU loads, cold loads, recomputations with write-through |
| Prefill metrics | `prefill_simulation.py` `PrefillMetrics` | one record per prefill | counts, evictions, misses, SUM and MAX aggregation |
| Workload | `workload.py` | random generator | `generate_requests` |
| Experiment driver | `examples/run_cake_global_experiment.py` | metrics list, summary | `run_scenario`: one prefill after the other; `_run_one_preset`: one scenario after the other over one stream |
| Small examples | `examples/*.py` | tiers filled by hand | cut, `MemoryTier.store`, look up |

Interactions. `run_scenario` takes a request, chunks it and calls
`simulate_cake_prefill_with_global_cache` or its linear variant. These let a scheduler
read the dictionaries of the GPU and of the cold tiers, and hand the schedule to
`_materialize_schedule_entries_to_gpu`. That function calls the cache manager, which
calls the policy and the GPU tier, and calls `upsert` on the write-through tiers. The
tiers are shared by all of them and survive from one prefill to the next.
`_run_one_preset` generates one stream and calls `run_scenario` once per scenario, each
time with a new disk, GPU and policy, so that only the stream is common to them. The
small examples put chunks into tiers themselves and share cache ids between requests.

Hard behaviours:

* the schedule is **stale** while it is carried out: loads of phase 2 and
  recomputations of phase 3 evict chunks that were hits when the schedule was made;
* the **order** of the three phases is all that protects the planned GPU loads;
* `store` keeps a resident whatever it covers, `store_replacing` compares: which of the
  two is called where decides whether a request ends up with too few tokens;
* the lookup stops at the **first holder** of a key, whatever later tiers hold;
* coverage compares `end_token` only, so it is right only if equal keys start at the
  same token;
* the two fronts of the Cake scheduler must meet without a chunk claimed twice or
  never;
* the same keys are written by requests of different lengths, chunk by chunk, so the
  disk could be left with holes in a document;
* requests cut by different functions may share tiers, where an index need not mean the
  same range and a cache id may cover private tokens;
* scenarios that are compared with each other must not inherit state;
* the eviction loop, the scan loop and the experiment must end;
* an `upsert` that raises has already deleted the old entry; a prefill that raises
  leaves a prompt half materialised.

What makes each part correct is listed with the runs below; `PROJECT.json` lists the
hazards line by line, with the properties that would catch them.

## Modules

| Module | Models |
|--------|--------|
| `KVChunks` | requests, chunks, keys, sizes |
| `MemoryTier` | the tiers' dictionaries, `store`, `remove`, `upsert` and its failure |
| `EvictionPolicies` | FIFO, LRU, LTP, FLTP: bookkeeping and victim |
| `Logarithms` | the logarithms that TLC takes for FLTP's score |
| `CacheManager` | `access`, `store`, `store_replacing`, the eviction loop; type and bookkeeping invariants |
| `CacheClient` | a cache manager under arbitrary calls, and its properties |
| `QueueCache` | abstract specification: keys that wait in line, the first of which is the next victim |
| `QueueRefinement` | `CacheClient` with FIFO or LRU implements `QueueCache` |
| `Workload`, `Chunking` | `generate_requests`; `chunk_request_with_prefix_split` |
| `Scheduler` | cost model, lookup, `choose_for_chunk` |
| `CakeScheduler` | `CakeBidirectionalScheduler.schedule_chunks`, one action per loop iteration |
| `CakeRequest` | the Cake scheduler on one prompt against arbitrary tier contents, and its properties |
| `PrefillSimulation` | the stream of prefills: everything above composed |
| `PrefillProperties` | properties of the stream |
| `TierTheorems` | lemmas about sums, least and greatest members, the dictionary operators, the lookup and the estimates |
| `CacheTheorems`, `ClientProofs` | lemmas about the cache manager's operations; its promises to an arbitrary client, and the refinement of `QueueCache` |
| `ScheduleTheorems`, `CakeProofs` | lemmas about the split and the scheduler's steps; the split, the schedule and its timeline |
| `PrefillProofs` | the stream of prefills: types, planned loads, write-through, capacity, alignment, full ranges, what LRU keeps of a prompt, that prefills run out and do not fail |
| `StreamProofs` | the loadable prefixes and the refinement of `PrefixStore`; hits, the flow of chunks, and what a scenario's metrics and disk say of its list of requests |
| `ScriptProofs` | the hits of `TierScript`; the agreement of the functions that cut prompts |
| `PrefixStore` | abstract specification: of every document one loadable prefix, which only grows |
| `PrefixRefinement` | `PrefillSimulation` implements `PrefixStore` |
| `PrefillRun` | the stream with the list of `PrefillMetrics` it produces |
| `ScenarioRun` | `run_scenario`: one scenario over a given list of requests, and its row of the summary |
| `Experiment` | `_run_one_preset`: all scenarios in turn over one stream, each a `ScenarioRun` |
| `RequestCutters` | the three functions that cut prompts, as the sequences they return |
| `TierScript` | scripts that cut requests in any of these ways and fill shared tiers themselves |
| `CakeTimeline` | `CakeRequest` with the operations and times the scheduler returns |
| `MC*` | constants for TLC |

`PrefillSimulation` extends `CacheManager` (through which come the tiers and the
policies) and `CakeScheduler` (through which come chunking, workload and costs); the two
branches share `MemoryTier`. Each module's operators named `Mut...` are faulty variants
of the operator that follows; no specification uses them. They record, for each checked
property, a plausible bug that the property detects.

### How state and actions correspond to the code

* `tiers[t]` is `MemoryTier.chunks` of tier `t`, a function from cache keys to the token
  range of the stored chunk. `order` is the insertion order of the GPU tier's Python
  dictionary: FIFO's victim and every policy's last tie-break. `coverage(d, k)` is
  `end_token` or 0. A size is the token count times `BytesPerToken`.
* A cache id is a number: documents first, then one private id per request. LTP breaks
  ties by the string order of ids, which the numbers follow for up to ten documents and
  ten requests.
* `pending` is the chunk of a store whose eviction loop is running. `EvictVictim` is one
  iteration, `InsertPending` the end of the loop. `Victims` is the set of chunks of least
  score; it has one element because `order` or the dictionary key closes every tie.
* The scheduler's times are integers in half units (the average position is a half
  integer), with an inverse bandwidth per tier. `Ln` is a constant operator;
  every run with FLTP gives it the values of `Logarithms`, in units of 1/10000. Only the
  logarithms of primes are rounded there and the others are their sums, so that scores
  which are equal as real numbers (end 3 accessed once, end 8 never) stay equal and go to
  the tie-break. Nothing proved depends on what `Ln` returns.
* `phase` is the program counter: `idle`, `split` (chunking), `scan` and `sweep` (Cake),
  `scheduled`, `gpuLoads`, `coldLoads`, `recompute`, `writeThrough`, and `failed` after a
  `ValueError`, which no caller catches. `cursor` and `wtCursor` are the loop indices of
  the materialisation.
* `plan[i]` is the operation for chunk `i`. The linear scheduler's reported source tier
  of a recomputation is dropped, since nobody reads it.
* `Arrive` is the next iteration of `run_scenario`; `Split`, `Schedule` and
  `Materialise` are the statements of one prefill. `upsert` is one step, its failure
  included; the write-through loop is one step per tier.

* `metrics` is `metrics_list`; `RunNext` is a step of the prefill that appends a record
  when the prefill returns and nothing when it raises. `operations` is the list of
  `CakeOperation`s; `TimelineNext` is a scheduler step that appends what it commits. Both
  are history: the steps they record are those of the module they extend.
* `ScenarioRun` adds `requests`, a list that `generate_requests` can return and that never
  changes: the request that arrives is the next one of it. `ScenarioSummary` is the row of
  `summary_by_scenario.csv`; `mean_ttft_ms` is kept as a total.
* `Experiment` takes `ScenarioRun` once per scenario, `Sim(s)`, with that scenario's policy
  and scheduler and the same variables. `Serve` is a step of the running scenario,
  `NextScenario` records its totals and starts the next one with `Fresh` tiers and a
  `Fresh` policy.
* `QueueRefinement` maps the manager to the line of `QueueCache`: a key's `Rank` is its
  place in the dictionary (FIFO) or its last stamp (LRU), `Line` is the order of the ranks,
  `Incoming` the key of `pending`, `Asked` the key of the client's last call. The calls are
  counted, so that a hit is a step of the queue also when it moves nothing.
* `TierScript` has one action for cutting a request and one for `MemoryTier.store`, which
  overwrites. `owner` is the `request_id` of the stored chunk. A `ValueError` ends it.

Unbounded quantities: requests (`MaxRequests`), client calls (`MaxCalls`), chunk indices
of the client (`MaxIndex`), stores of a script (`MaxStores`). Prompt lengths are bounded
by the workload's own parameters. Capacity checks are skipped for tiers in `Unbounded`,
which stand for the 2**62 bytes of the experiments' disk.

## Runs

| Run | Question | Instance |
|-----|----------|----------|
| `client_queue` | is LRU a queue under any calls, also when a chunk is upgraded? | LRU, 2 documents x 2 indices x 2 lengths, GPU of 3 tokens, 4 calls |
| `client_fltp` | capacity, bookkeeping, coverage, a unique victim and termination under any calls | FLTP, 3 documents, chunks of 1 to 4 tokens, GPU of 3, so that some are oversized, 4 calls |
| `cake_schedule` | the split, the Cake schedule and its timeline, of every prompt against every tier content | up to 6 shared and 3 private tokens, chunks of 2, GPU and disk, queue delays |
| `scenario_lru_cake` | the experiments' configuration (Cake, LRU, unbounded disk): do plans stay valid, is the disk a store of growing prefixes, do the metrics account for the list of requests? | documents of 5 and 2 tokens, all lists of 4 requests, GPU of two chunks, a disk cheap enough that one schedule loads from both tiers |
| `prefill_ltp_full` | LTP with two bounded write-through tiers and a GPU smaller than a chunk | 2 documents, 5 requests |
| `experiment_scenarios` | do all scenarios, one after the other, serve and account for one stream on equal terms, and does the experiment end? | documents of 5 and 2 tokens, all streams of 3 requests, 8 scenarios, prompts longer than the GPU |
| `script_cuts` | may requests cut in different ways share tiers, and is reuse confined to the shared prefix? | 1 document, 3 requests, 3 stores into a GPU of 5 and a disk of 6 tokens; scripts that use the prefix split, or it and `chunk_request` |

What they show, property by property:

* `PendingLoadsServed`, `ScheduledLoadsSucceed`: until a planned load is carried out its
  tier keeps the chunk with all its tokens, first and last; neither exception about a
  missing chunk is raised. Swapping two phases breaks both.
* `WriteThroughDominates`, `ServedPromptIsWarm`, `ColdCoverageNeverShrinks`: a
  write-through tier covers what any tier covers, a served prompt can be loaded from it
  entirely (also the chunks that were loaded and not recomputed), and an unbounded cold
  tier never covers less than before.
* `PrivateSuffixNeverLoaded`: private suffixes are never hits although their indices
  continue those of the document.
* `FittingPromptIsResident`: under LRU a prompt that fits in the GPU is resident as a
  whole after its prefill. What fits is measured by the largest version of each chunk in
  any tier, since a load brings in the stored version, which may be longer.
* `TiersWithinCapacity`, `WithinCapacity`: no tier exceeds its capacity, also between two
  evictions and after a failure.
* `ChunksTilePrompt`, `DocumentChunksAligned`: the chunks tile the prompt, none straddles
  the boundary, and a document chunk starts at its index times the chunk size, which is
  what the comparison of end tokens relies on.
* `ScheduleIsComplete`, `CommitmentsAreFinal`, `SweepLeavesNothingLoadable`,
  `NeverWorseThanComputeOnly`: each chunk gets one operation, loads have a covering
  source, the sweep finds nothing loadable (the code's reason string "compute front
  reached chunk before I/O front" is unreachable), and the estimated TTFT never exceeds
  recomputing everything.
* `StoreServes`, `CallsNeverDowngrade`: what a store guarantees on return, and that no
  call leaves a key with a shorter chunk.
* `VictimIsUnique`, `PolicyTracksTier`, `ImplementsQueue`: victims are defined and
  unambiguous, the policy's dictionaries list the resident chunks exactly, and a cache with
  FIFO or LRU is a line of keys: only the first is evicted, inserted and upgraded chunks
  join at the end, every hit moves its chunk there (LRU) or leaves the line alone (FIFO).
  The run has LRU; the theorem covers both.
* `ColdTierHoldsPrefixes`, `ImplementsPrefixStore`: the write-through tier holds of each
  document exactly one prefix, without holes, which grows by the chunks of the request
  being served and never beyond what was asked for.
* `ServedPrefixIsHit`: what has just been served is a hit, although the lookup stops at
  the first holder; what the failure of `FirstHolderIsBest` costs is left to a later,
  longer request. `ChunkFlowBalances`: chunks in the GPU before, brought in, evicted and
  left add up with what the metrics report.
* `TimelineIsConsistent`, `FrontsApproach`, `FrontsStayBalanced`, `NeverWorseThanLoadOnly`:
  the operations of each front are gapless and last as long as the cost model says; the
  fronts approach from both ends; in the scan neither clock leads by more than one
  operation; and computing in parallel never costs more than loading what can be loaded
  and computing the rest.
* `CuttersAgree`, `HitsCoverRange`, `ReuseStaysInSharedPrefix`: the three functions agree
  where their parameters coincide; a hit between requests that were cut in different
  ways holds the whole range; by a request that is cut by the prefix split others' chunks are
  reused in the shared prefix only, also when those others have put whole prompts under the
  document's id with `chunk_request`.
* `FirstTouchRecomputes`, `PartialTouchesAreMisses`, `DiskIsDetermined`: what is true of a
  list of requests after each of its prefills. The first request for a chunk recomputes it,
  one that extends a chunk is counted as a coverage miss whichever tier still has the
  part, and the disk holds of each key the longest version asked for, whatever policy and
  scheduler did.
* `EveryScenarioServes`: in each of the eight scenarios of an experiment, whatever ran
  before it, the promises of a single one hold (`PendingLoadsServed`, `ServedPromptIsWarm` and the
  others it lists, with `PolicyTracksTier`). A disk that is not renewed breaks it, and so do
  policy objects that are shared between scenarios.
* `StoreReturns`, `ScheduleIsBuilt`, `PrefillsComplete`, `ExperimentCompletes`: the loops
  end. `PrefillsComplete` says that each prefill of the unbounded-disk configuration
  completes, `ExperimentCompletes` that all scenarios do and no exception stops them.

`CacheTypeOK` and `ScheduleTypeOK` are conjuncts of `TypeOK`. `ScheduledLoadsSucceed`,
`WriteThroughDominates` and `TiersWithinCapacity` are checked where prefills can fail
(`prefill_ltp_full`). Most safety properties are also proved for every instance.

The bounds are small, but the interesting cases happen: partial entries are
upgraded, evicted, and found again in the disk by shorter and longer requests; loads
evict chunks of their own prompt; both fronts and the sweep commit operations; stores
are refused and write-through tiers fill up. Every mutant is detected under the same
configuration as the property it breaks.

### Disagreements between code and documentation

Five runs end, as intended, in a violation of something the repository says of itself:

* `client_documented_score`: FLTP's docstring gives the score
  `log(1 + end_token) * (2 + access_count)`; the code takes the logarithm of the second
  factor too, and the victims differ: of a chunk that ends at 4 and was accessed once and
  one that ends at 11 and was not, the code evicts the second, the docstring the first.
* `prefill_tiers_in_sync`: the lookup's comment says that no later tier covers more than
  the first holder. A short recomputation after an eviction puts a short entry into the
  GPU while the disk keeps the long one; a longer request then recomputes what it could
  load. Only efficiency is lost: `PendingLoadsServed` holds all the same.
* `prefill_full_tier_downgrade`: `upsert` deletes the entry to be replaced before the
  capacity check raises, so a full tier loses coverage that it is documented never to
  lose. With an unbounded disk it cannot happen, as a theorem shows.
* `script_sized_cuts`: the lookup is documented to return chunks that cover "the full
  needed token range" and compares end tokens. Requests cut by different lists of sizes
  give the same key to ranges that start at different tokens, and a hit may lack the
  first ones. The two functions that cut on a grid are safe (`script_cuts`).

* `script_fixed_reuse`: `Request` documents `shared_prefix_tokens` as the "number of prompt
  tokens that may reuse cache". `chunk_request` does not read it and keys the whole prompt
  by `cache_id`, so that other requests reuse all of it; `examples/global_cache_reuse.py`
  relies on this. A request cut by the prefix split keeps to what it declares even in such
  company (`ReuseStaysInSharedPrefix`).

In these places the documents disagree with the code and the model follows the code; no run
is about them:

* `docs/presentation_plan.md` (lines 52, 83, 101) says that each scenario has a seeded disk.
  `_run_one_preset` makes an empty one, the `seed_disk_for_workload` of that document (line 57)
  no longer exists, and `workload.py:90` and `README.md:65` say that nothing is seeded. That
  every first touch is recomputed (`FirstTouchRecomputes`) and that the disk holds nothing
  but what was asked for (`DiskIsDetermined`) are properties of the empty disk.
* `docs/ADDED_FEATURES.md` (lines 16 and 95) has a recomputed chunk stored by
  `CacheManager.store`; the code uses `store_replacing`, without which `ServedPrefixIsHit`
  would fail.
* The sequential sum of the linear mode is called an upper bound
  (`docs/presentation_plan.md:14`), of that mode and not of Cake. It does not bound the Cake
  estimate: while the I/O front waits for a slow load, chunks are recomputed that would be
  cheaper to load. What bounds it is each of the two pure strategies
  (`NeverWorseThanComputeOnly`, `NeverWorseThanLoadOnly`).

### Fairness

The program is sequential, so while a prefill is under way its next statement is executed:
weak fairness of `Prefill`, the disjunction of all statements, and of `LoopStep` and of
`TimelineNext` in the two smaller systems. No fairness is assumed of arrivals or of client
calls there. In `ScenarioRun` and `Experiment` the stream is a list that exists from the
start and the driver loops over it, so weak fairness of their whole next-state relation
says no more than that the program keeps running. Deadlock checking is off because the runs stop after their
last request or call, or in `failed`.

## Proofs

All theorems hold for every value of the constants that satisfies the named assumptions
(`ChunkingAssumption`, `TierAssumption`, `PolicyAssumption`, `ClientAssumption`,
`WorkloadAssumption`, `CostAssumption`, `WriteThroughAssumption`, `SizesAssumption`), which
TLC evaluates in the runs: any number of tiers, documents and requests, any capacities and costs, either
scheduler, any of the four policies, any write-through list (duplicates included). A
theorem that needs a hypothesis of its own has it in the table.

| Theorem | States, as `Spec => []...` |
|---------|-----------|
| `PrefillProofs!TypeCorrect` | `TypeOK` |
| `PrefillProofs!PrefillInvariant` | `TypeInv /\ SafetyInv`, the inductive invariant of planned loads and write-through |
| `PrefillProofs!ScheduledLoadsNeverMiss` | `ScheduledLoadsSucceed` |
| `PrefillProofs!WriteThroughKeepsUp` | `WriteThroughDominates` |
| `PrefillProofs!UnboundedTiersNeverDowngrade` | `ColdCoverageNeverShrinks`, if `Unbounded = ColdTiers` |
| `PrefillProofs!StreamWithinCapacity`, `StreamPolicyTracksTier` | `TiersWithinCapacity`, `PolicyTracksTier` |
| `PrefillProofs!PrivateNeverLoaded` | `PrivateSuffixNeverLoaded` |
| `PrefillProofs!PlannedLoadsServed`, `ServedPromptsAreWarm` | `PendingLoadsServed`, `ServedPromptIsWarm`: full ranges, not only end tokens |
| `PrefillProofs!FittingPromptStays` | `FittingPromptIsResident`, under LRU and with a tier to write through to |
| `PrefillProofs!NoPrefillFails` | no prefill raises (`NothingRaised`), if a full chunk fits in the GPU and the write-through tiers are unbounded (`RoomForAll`) |
| `PrefillProofs!PrefillsRunOut` | `Variant`, four naturals, and each step of a prefill makes it smaller (`VariantsDescend`) |
| `StreamProofs!ColdTierHoldsOnePrefix` | `ColdTierHoldsPrefixes`, if the first write-through tier is unbounded |
| `StreamProofs!StreamImplementsStore` | `Spec => ImplementsPrefixStore`, the refinement, under the same condition |
| `StreamProofs!ServedPrefixHits` | `ServedPrefixIsHit`, with a tier to write through to |
| `StreamProofs!ChunkFlowIsBalanced` | `ChunkFlowBalances` |
| `StreamProofs!FirstTouchesAreRecomputed` | `FirstTouchRecomputes` |
| `StreamProofs!PartialTouchesCounted` | `PartialTouchesAreMisses`, with a tier to write through to |
| `StreamProofs!DiskHoldsLongest` | `DiskIsDetermined` |
| `ClientProofs!ClientWithinCapacity`, `ClientPolicyTracksTier` | `WithinCapacity`, `PolicyTracksTier` |
| `ClientProofs!ClientStoreServes`, `ClientNeverDowngrades` | `StoreServes`, `CallsNeverDowngrade` |
| `ClientProofs!ClientVictimIsUnique` | `VictimIsUnique`, if `Ln` of a positive number is an integer |
| `ClientProofs!ClientImplementsQueue` | `ClientSpec => ImplementsQueue`, the refinement, under FIFO and LRU |
| `CakeProofs!ChunksTile`, `ChunksAligned` | `ChunksTilePrompt`, `DocumentChunksAligned` |
| `CakeProofs!ScheduleCompletes`, `SweepRecomputes` | `ScheduleIsComplete`, `SweepLeavesNothingLoadable` |
| `CakeProofs!FrontsBalance` | `FrontsStayBalanced` |
| `CakeProofs!BeatsComputeOnly`, `BeatsLoadOnly` | `NeverWorseThanComputeOnly`, `NeverWorseThanLoadOnly` |
| `CakeProofs!TimelineConsistent`, `FrontsMeet` | `TimelineIsConsistent`, `FrontsApproach` |
| `CakeProofs!CommitmentsHold` | `CommitmentsAreFinal` (an action property) |
| `ScriptProofs!HitsCover` | `HitsCoverRange`, while no script uses `chunk_request_with_sizes` (`OnGrid`) |
| `ScriptProofs!ReuseIsShared` | `ReuseStaysInSharedPrefix` |
| `ScriptProofs!CuttersDoAgree` | `CuttersAgree` |

`ClientProofs` is about `ClientSpec`, `CakeProofs` about `TimelineSpec`, `ScriptProofs`
about `ScriptSpec`. In `PrefillProofs` and `StreamProofs` the specification is `Spec`;
`ChunkFlowIsBalanced` is about `RunSpec`, and the three after it are about `ScenarioSpec`,
both of which imply `Spec` (`RunPrefills`, `ScenarioRuns`), so that all theorems about a
stream hold of a scenario too. TLC checked each inductive invariant on instances before it
was proved.

### The stream of prefills

`TypeOK` is not inductive: `plan[loadIndex]`, `chunks[cursor]` and `order` without the
key being removed must be excluded. `TypeInv` adds that the order lists every resident
key, that the plan is as long as the prompt, that the I/O front stays inside it, and
which phases may have a store under way.

That a planned load succeeds needs `LoadsInv`: its source covers the chunk until it is
carried out. The GPU is not changed before phase 2, a cold tier is not changed before
phase 3, and both rest on the phase order. That write-through tiers dominate needs more: a
chunk loaded in phase 2 comes from a tier that they dominate (`PendingInv`, which carries
this across the eviction loop); a chunk recomputed in phase 3 is longer than they may hold
until the loop has written it (the second disjunct of `DominanceInv`); and the tiers
already written in that loop cover it (`WarmInv`), which is what makes the claim inductive
within the loop. `PlanInv` says that the sweep leaves nothing unscheduled, so that a chunk
which is not recomputed has been loaded. The five parts are proved together.

These compare end tokens, as the code does. That the first token is there too is the
alignment argument (`AlignInv`). An entry of a document starts at its index times the
chunk size; an entry of a private suffix starts anywhere, but its cache id belongs to an
earlier request, whose key no later chunk has, or to the current one, which stores it only
from the recomputation phase on. So equal keys of live chunks have equal starts, and a
private chunk cannot be a hit. `Tiling`, which the split maintains, says where chunks
start.

The retention properties follow from `RetentionInv`: dictionaries are finite, what an
insertion adds to `used_bytes` is exactly what `can_store` compared, and removals are
recorded. `used_bytes` is a fold over a set, so its lemmas (adding, removing, comparing
terms) need an induction over finite sets, which the provers cannot take from the library.
`TierTheorems` derives them instead from the existence of a minimal counterexample: the
subsets of a finite set are well-founded by strict inclusion, and a nonempty set of bad
subsets would have a minimal one.

### A prompt that fits

`FittingPromptStays` says that under LRU the eviction loops of a prefill never evict what
the prefill itself has loaded or stored, as long as the prompt fits. The property measures
the prompt by what the tiers hold of it at the end; the induction needs a measure that is
constant while the plan is carried out. That is `Needs`: for each chunk, what the first
write-through tier covers or the chunk's own end, whichever is more. A write-through only
replaces the first by the second (`NeedsStay`), and at the end the two measures agree
(`NeedIsLargest`, from `WriteThroughDominates`).

`ResidentInv` says of the chunks dealt with so far (`Touched`) that the GPU covers them and
that each is more recent than everything else in the GPU. A victim under LRU is the least
recent resident; were it one of these chunks, everything in the GPU would be too, and so
would belong to the prompt. But then all of it and the pending chunk together need no more
than `Needs` allows (`EntryWithinNeed` and `PendingWithinNeed`, which use the alignment of
equal keys, and `BytesBound`, another induction over finite sets), so there was room and
nothing to evict (`PendingFits`, `VictimUntouched`). `RecencyInv` supplies what this takes
from the order of the phases: a chunk to be loaded from a cold tier is not in the GPU, the
store under way is that of the chunk under the cursor, and no stamp is ahead of the clock.
Other policies rank chunks without regard to the prompt under way, and need not keep it.

### Prefills that end

The presets have a GPU of 16 chunks or more and a disk of 2**62 bytes; `RoomForAll` says
what of this matters. `NoPrefillFails` then goes through the three places that can raise.
A scheduled chunk is never missing (`LoadsInv`). No chunk is too large: not those of the
prompt, and not an entry found in a cold tier either, which was once a chunk of a prompt
(`ShortInv`). And a write-through is not refused, as its tier is unbounded.

`PrefillsRunOut` gives the argument that the loops end, as a lexicographic order: the stage
the prefill is in; what its loop has left (positions of the prompt for the split, the
distance between the fronts for the scan, chunks for the sweep and the three phases);
whether the chunk under the cursor is still to be stored, or written through; the chunks
that can still be evicted for it, or the tiers it is still to be written to. A shrinking
gap between the fronts makes the scan end under any cost model, and an eviction loop ends
because each victim is a resident and leaves. It needs no assumption about capacities.

### The prefix store

With an unbounded first write-through tier `Home`, `HomePrefixes` says of it that every
entry of a document lies in its cell of the chunk grid and that all cells before it are
full. It is inductive because chunks are recomputed in the order of the prompt: when
chunk `i` is written through, the earlier ones have been loaded or written and are in
`Home` by `WarmInv`, in full, since only the last chunk of the shared prefix is short
(`Ordered`, from the split; `BeforeDocumentChunk`).

From this follows what one upsert does to the longest loadable prefix of each document
(`LongestCovers`, `LongestSame`, `LongestExtends`): an upgrade or a new entry of the
document makes it exactly as long as the chunk's end, which is longer than before and
within the shared prefix; an upsert of a private chunk changes nothing. The step mapping
is then: `Arrive` is `Begin`; such an upsert is `Extend`; the end of the recomputations is
`Finish`, which needs that by then the whole shared prefix is covered (`PromptIsWarm`);
every other step leaves `Home` alone and stutters. A failed prefill never finishes, in
the code as in the store.

The condition is that of the experiments, whose disk has 2**62 bytes. Without it the
properties fail, as `prefill_full_tier_downgrade` shows.

### Hits and the flow of chunks

The lookup stops at the first holder of a key, and `FirstHolderIsBest` is false. Still a
chunk just served is a hit. `NoShortCopies` says why: what the prefill has touched is in
the GPU with all its tokens or, if it was evicted since, not at all; and a cold tier holds
nothing unless it is written through to (`OthersEmpty`), in which case it covers the prompt.

`ChunkFlowBalances` bounds what a prefill brings into the GPU by what its plan has to bring
(cold loads and private chunks) and by what it may bring (cold loads and recomputations).
`FlowInv` is that statement for the chunks begun so far. Residents, evictions and the store
under way together (`Balance`) change only when a chunk is begun, by one or by nothing
(`BalanceStep`): an eviction moves a chunk from one term to another, and so does the
removal before an upgrade, which is no eviction. That a private chunk always counts needs
that it is not in the GPU before (`PrivateAbsent`); `RowsInv` ties the rows of the metrics
to the state they were taken from.

### What a scenario shows of its list

The properties of a scenario compare its metrics and its disk with the list of requests,
through the chunks that `chunk_request_with_prefix_split` returns for each (`Prompt`). The
model cuts prompts by the loops of the code, so the first step is that the loops compute
that list, chunk by chunk (`SplitInv`).

Then `EntriesKnown` gives every entry of every tier, and the chunk being stored, its origin:
some request of the list asked for exactly that version of it, and has come to
materialise it (`Passed`). Conversely, write-through tiers cover every chunk of the
earlier requests as long as nothing failed (`EarlierCovered`). A planned load therefore
serves a chunk of which all has been asked for before (`LoadsAsked`), so a first touch is a
recomputation; and one of which a part was asked for finds that part in the first
write-through tier at the latest, which is the condition under which the code counts a
coverage miss (`PartIsFound`). Both are counted along one prefill (`MissInv`), and row by
row along the scenario (`MetricsInv`); the totals are sums over the rows.

`DiskIsDetermined` follows from the two directions together: an entry is a version that was
asked for, it covers each version that was asked for, and equal keys start at the same
token (`SameStart`), so it is the longest one. A scenario in an experiment starts from
`Fresh` state and takes steps of `ScenarioRun` only.

### The cache manager and the Cake scheduler

`ClientInv` adds to the client's properties what is true inside a store: the tier is
finite, the pending chunk fits an empty tier, and the call's record says which store is
under way and that it covers at least what the tier held before. The loop therefore always
has a victim. That it has only one needs that the scores are comparable tuples of integers
which end in the insertion order or in the key, hence the hypothesis about `Ln`, which
floating point meets as any totally ordered value would.

`CakeInv` states the clocks as sums: `computeTime` is the sum of the compute costs of the
chunks committed to the compute front, `loadTime` that of the loads (`ClocksAddUp`); the
chunks before the compute front are recomputed, those behind the I/O front are loaded or
cannot be (`PlanFollowsFronts`); and neither front leads by more than its last operation
(`FrontsStayBalanced`, itself inductive then). Each commitment compares the two projected
ends, so a load ends no later than the computation it replaces would have. The bounds on
the TTFT compare these sums over the whole prompt. A timeline only records, so each
theorem about it is one about the scheduler.

The recorded operations are tied to the plan by `TimelineMatchesPlan`: the operation of a
chunk is the decision in the plan, no chunk has two, each starts when the earlier ones of
its front have ended, and the front's clock is the end of its last. `FrontsBehind` says
where they lie: the I/O front has gone strictly backward and is past everything it loaded,
the compute front has taken all chunks before it in their order. The properties read the
operations as sets of indices (`Front`, `Earlier`), so what appending one does to them is
set theory (`AppendOperation`), without an induction over sequences.

### The queue

`QueueInv` adds to `ClientInv` that LRU's stamps are distinct and not ahead of the clock
(`StampsInv`), and that the key of a store under way is not resident (`PendingAbsent`), from
which no two residents have the same rank. The line is a relation between residents, so the
refinement compares ranks and never positions: a removal may shift the places in FIFO's
dictionary but keeps their order (`RemovalLeaves`), a stamp taken now is greater than all
others (`HitMovesBack`), an insertion is appended to the dictionary and stamped now
(`InsertionJoins`), and the resident of least score has no one before it
(`VictimIsFirst`). An upgrade is one step of the manager and one of the queue: the resident
chunk leaves, and joins again when the loop has made room.

### Scripts that share tiers

`ScriptInv` says by whom an entry can have been stored. Under a document's id it lies on
the grid, as long as nobody cuts by a list of sizes; under a private id it was stored by
that one request, and if this is the last one, from its chunk of the same index. A lookup
for a document chunk therefore finds an entry with the same start, and one for a private
chunk an entry of the same request. That a request cut by the prefix split shares no more than it
means to (`ReuseStaysInSharedPrefix`) needs no grid: its document chunks end with the shared
prefix, and its other chunks have an id that no other request has, however that one is cut. Tiers
may overwrite longer entries with shorter ones and refuse stores: neither matters here.

That the three functions which cut prompts agree (`CuttersDoAgree`) is about the sequences
they return. Each tiles its prompt, because a chunk starts where the one before it ends:
for the grid this is arithmetic of multiples (`GridTiles`), for the split two grids one
after the other (`SplitTiles`), for given sizes a sum over the sizes used so far
(`StartFacts`, `SizesUsed`). Equal sizes make that sum a multiple (`EqualStarts`), and a
prompt that is shared wholly or not at all leaves one of the two grids
(`DegenerateSplits`).

### Model-checked only

* Liveness (`StoreReturns`, `ScheduleIsBuilt`, `PrefillsComplete`, `ExperimentCompletes`):
  out of the prover's reach. `PrefillsRunOut` and `NoPrefillFails` are its safety part: a
  prefill takes finitely many steps and, in the experiments, none of them raises. What TLC
  adds is that some step is possible until the prefill is over.
* `EveryScenarioServes`: tlapm cannot cite a definition or a theorem of an INSTANCE with
  parameters, which `Sim(s)` is. Each of its conjuncts is a theorem about one
  scenario, for every policy and scheduler; what the run adds is that a scenario inherits
  nothing from the ones before.

## Not modelled

* Validation in constructors: the assumptions on constants and the types state what it
  enforces.
* Reason strings, logging, CSV files, tables and plots; argument parsing and presets, which
  choose constants; `main`'s loop over presets, which repeats `_run_one_preset`.
* `iter_chunks_by_priority`, a sorted view that only `basic_simulation.py` prints.
* The fixed inputs of the small examples: `TierScript` and `CacheClient` take any calls of
  the kind they make.
* Floating point: costs are integers, so rounding of times is not represented. Where two
  scores of FLTP are equal as real numbers, doubles may differ in the last bit (ends 2
  accessed twice and 8 never) and decide before the tie-break; the model always takes it.
* `examples/cake_global_cache_prefill.py` imports `seed_disk_for_workload`, which
  `workload.py` does not define; there is nothing to model.

## Plan

1. Done: the core above.
2. Done: the three cutting functions and tiers they share, the Cake timeline, metrics and
   aggregation, the experiment over all scenarios, the prefix store and its refinement.
   A prefill that raises ends the program, so continuing after it is not modelled.
3. Done: the promises of the cache manager, the Cake scheduler's schedule and times, the
   alignment invariant and with it the full-range properties, retention in the stream, the
   refinement of `PrefixStore`, the hits of scripts, what LRU keeps of a prompt.
4. Done: the properties of a scenario's metrics and disk, the flow of chunks, the timeline,
   the agreement of the cutting functions, the refinement of `QueueCache`, prefills that end.

All parts of the plan are done. Open is only what the prover cannot take, listed above.
