------------------------------ MODULE Scheduler -----------------------------
(***************************************************************************)
(* The cost model, the coverage-aware lookup and the independent           *)
(* recompute-or-load choice (scheduler.py).  Times are integers: half      *)
(* time units, so that the average position of a chunk needs no fraction,  *)
(* and a load cost per byte in place of a bandwidth.                       *)
(***************************************************************************)
EXTENDS MemoryTier

CONSTANTS
  TierOrder,              \* memory_tiers: the GPU tier, then the cold tiers
  ComputePerToken,        \* compute_ms_per_token
  AttentionPerPosition,   \* attention_ms_per_token_position
  ComputeQueueDelay,      \* compute_queue_delay_ms
  LoadQueueDelay,         \* load_queue_delay_ms of each tier
  LoadPerByte,            \* inverse bandwidth of each tier
  NoTier                  \* source_tier of a chunk that is not loaded

ASSUME CostAssumption ==
  /\ TierOrder \in Seq(Tiers)
  /\ { TierOrder[i] : i \in DOMAIN TierOrder } = Tiers
  /\ \A i, j \in DOMAIN TierOrder : TierOrder[i] = TierOrder[j] => i = j
  /\ TierOrder[1] = GPU
  /\ ComputePerToken \in Nat /\ AttentionPerPosition \in Nat
  /\ ComputeQueueDelay \in Nat
  /\ LoadQueueDelay \in [Tiers -> Nat] /\ LoadPerByte \in [Tiers -> Nat]
  /\ NoTier \notin Tiers

token_count(c) == c.end - c.start

estimate_compute_time(c) ==
  2 * ComputeQueueDelay
    + 2 * token_count(c) * ComputePerToken
    + token_count(c) * (c.start + c.end) * AttentionPerPosition

\* The size is that of the needed chunk, not of the stored one.
estimate_load_time(c, t) ==
  2 * (LoadQueueDelay[t] + size_bytes(c) * LoadPerByte[t])

Covers(t, c) == coverage(tiers[t], cache_key(c)) >= c.end

\* t is the first tier in the lookup order that holds the key.
FirstHolder(t, key) ==
  \E i \in DOMAIN TierOrder :
    /\ TierOrder[i] = t
    /\ Present(t, key)
    /\ \A j \in 1 .. i - 1 : ~Present(TierOrder[j], key)

\* Mutant: any entry under the key counts as a hit.
MutHits(c) == { t \in Tiers : FirstHolder(t, cache_key(c)) }

\* The lookup stops at the first holder, whether or not it covers enough.
Hits(c) == { t \in Tiers : FirstHolder(t, cache_key(c)) /\ Covers(t, c) }

find_cached(c) == IF Hits(c) = {} THEN NoTier ELSE CHOOSE t \in Hits(c) : TRUE

Unscheduled == [action |-> "none", source |-> NoTier]

Load(t) == [action |-> "load", source |-> t]

Recompute == [action |-> "recompute", source |-> NoTier]

Decision == {Unscheduled, Recompute} \cup { Load(t) : t \in Tiers }

\* RecomputeLoadScheduler.choose_for_chunk; the source tier that a recompute
\* decision also reports is not read by anyone.
choose_for_chunk(c) ==
  LET t == find_cached(c)
  IN  IF t # NoTier /\ estimate_load_time(c, t) <= estimate_compute_time(c)
      THEN Load(t) ELSE Recompute

\* ScheduleDecision.estimated_time_ms
decision_time(c, d) ==
  IF d.action = "load" THEN estimate_load_time(c, d.source)
  ELSE estimate_compute_time(c)

=============================================================================
