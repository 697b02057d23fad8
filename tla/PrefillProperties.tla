------------------------- MODULE PrefillProperties --------------------------
(***************************************************************************)
(* What a stream of prefills through the GPU cache and its cold tiers must *)
(* guarantee.                                                              *)
(***************************************************************************)
EXTENDS PrefillSimulation, FiniteSetsExt

Phases == {"idle", "split", "scan", "sweep", "scheduled",
           "gpuLoads", "coldLoads", "recompute", "writeThrough", "failed"}

Errors == {"none", "missing", "oversized", "exceeds capacity"}

TypeOK ==
  /\ CacheTypeOK
  /\ ScheduleTypeOK
  /\ phase \in Phases
  /\ served \in Nat /\ cursor \in Nat \ {0} /\ wtCursor \in Nat \ {0}
  /\ evictionCount \in Nat /\ coverageMisses \in Nat
  /\ error \in Errors

-----------------------------------------------------------------------------
(* The schedule is made first and carried out later.                       *)

\* The load planned for chunk i has not been carried out yet.
LoadPending(i) ==
  /\ Loads(i)
  /\ \/ phase \in {"scan", "sweep", "scheduled"}
     \/ phase = "gpuLoads" /\ (plan[i].source # GPU \/ i >= cursor)
     \/ phase = "coldLoads" /\ plan[i].source # GPU /\ i >= cursor

\* The whole token range of chunk c can be read from tier t.
RangeServed(t, c) ==
  /\ Present(t, cache_key(c))
  /\ tiers[t][cache_key(c)].start = c.start
  /\ c.end <= tiers[t][cache_key(c)].end

\* Until a planned load is carried out, the tier it was planned from keeps
\* the chunk and all its tokens, although the earlier phases of the same
\* prefill store and evict (the ordering hazard of the docstring of
\* _materialize_schedule_entries_to_gpu), and although the lookup compares
\* end tokens only.
PendingLoadsServed ==
  \A i \in DOMAIN plan : LoadPending(i) => RangeServed(plan[i].source, chunks[i])

\* The two "scheduled LOAD .. missing" exceptions are never raised.
ScheduledLoadsSucceed == error # "missing"

\* A private suffix is never loaded: no earlier request stored its keys
\* (chunk_request_with_prefix_split: "never matched against another request's
\* cached data").
PrivateSuffixNeverLoaded ==
  \A i \in DOMAIN plan : Loads(i) => chunks[i].cid \in Documents

-----------------------------------------------------------------------------
(* Write-through.                                                          *)

\* The write-through of this key is under way.
BeingWritten(key) == phase = "writeThrough" /\ key = Key(cursor)

\* Unless the run has failed, every write-through tier covers at least what
\* any other tier covers: an eviction from the GPU loses nothing.
WriteThroughDominates ==
  phase # "failed" =>
    \A t \in Tiers, i \in DOMAIN WriteThrough :
      \A key \in DOMAIN tiers[t] :
        \/ coverage(tiers[t], key) <= coverage(tiers[WriteThrough[i]], key)
        \/ BeingWritten(key)

\* No step makes a cold tier cover less ("the upsert never downgrades").
ColdCoverageNeverShrinks ==
  [][\A t \in ColdTiers :
       \A key \in DOMAIN tiers[t] :
         coverage(tiers[t], key) <= coverage(tiers'[t], key)]_vars

\* After a prefill every chunk of its prompt, loaded or recomputed, can be
\* loaded from each write-through tier.
ServedPromptIsWarm ==
  phase = "idle" =>
    \A i \in DOMAIN chunks, j \in DOMAIN WriteThrough :
      RangeServed(WriteThrough[j], chunks[i])

\* What find_cached_chunk relies on when it stops at the first holder:
\* "write-through keeps GPU and disk in sync - if the first hit has
\* insufficient coverage, no later tier will have a better version".
FirstHolderIsBest ==
  phase = "idle" =>
    \A t, u \in Tiers : \A key \in DOMAIN tiers[t] :
      FirstHolder(t, key) => coverage(tiers[u], key) <= coverage(tiers[t], key)

-----------------------------------------------------------------------------
(* Retention.                                                              *)

\* Every bounded tier stays within its capacity.
TiersWithinCapacity ==
  \A t \in Tiers \ Unbounded : used_bytes(tiers[t]) <= Capacity[t]

\* The most a tier holds of chunk i.
LargestSize(i) ==
  Max({ coverage(tiers[t], Key(i)) : t \in Tiers }) - chunks[i].start

WorkingSetSize ==
  BytesPerToken * SumFunction([i \in DOMAIN chunks |-> LargestSize(i)])

\* Under LRU a prompt that fits is wholly resident after its prefill: what
\* the loads bring in never evicts what the prompt itself still needs.
FittingPromptIsResident ==
  phase = "idle" /\ WorkingSetSize <= Capacity[GPU] =>
    \A i \in DOMAIN chunks : RangeServed(GPU, chunks[i])

\* Every prefill that is begun completes.
PrefillsComplete == phase # "idle" ~> phase = "idle"

=============================================================================
