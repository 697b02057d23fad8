----------------------------- MODULE MemoryTier -----------------------------
(***************************************************************************)
(* The memory tiers (models.py, MemoryTier): for each placement a          *)
(* dictionary from cache keys to chunks, a capacity, and the operations    *)
(* that fail when the capacity is exceeded.                                *)
(***************************************************************************)
EXTENDS KVChunks, Functions

CONSTANTS
  GPU,            \* placement of the managed tier
  ColdTiers,      \* placements of the cold tiers
  Capacity,       \* capacity_bytes of each tier
  Unbounded       \* tiers so large (2**62 bytes) that they never fill up

Tiers == {GPU} \cup ColdTiers

ASSUME TierAssumption ==
  /\ GPU \notin ColdTiers
  /\ Capacity \in [Tiers -> Nat \ {0}]
  /\ Unbounded \subseteq ColdTiers

VARIABLE
  tiers           \* tiers[t] is the dictionary MemoryTier.chunks of tier t

EmptyDict == [k \in {} |-> [start |-> 0, end |-> 0]]

Present(t, k) == k \in DOMAIN tiers[t]

\* A dictionary from cache keys to members of S.
IsDict(d, S) == DOMAIN d \subseteq CacheKey /\ \A k \in DOMAIN d : d[k] \in S

\* end_token of the entry at key k, 0 (which no chunk has) when there is none
coverage(d, k) == IF k \in DOMAIN d THEN d[k].end ELSE 0

put(d, c) ==
  [k \in DOMAIN d \cup {cache_key(c)} |->
     IF k = cache_key(c) THEN extent(c) ELSE d[k]]

drop(d, key) == [k \in DOMAIN d \ {key} |-> d[k]]

used_bytes(d) == SumFunction([k \in DOMAIN d |-> size_bytes(d[k])])

\* Mutant: what the tier already holds is not counted.
MutCanStore(t, d, c) == t \in Unbounded \/ size_bytes(c) <= Capacity[t]

can_store(t, d, c) ==
  t \in Unbounded \/ size_bytes(c) <= Capacity[t] - used_bytes(d)

(***************************************************************************)
(* MemoryTier.upsert on the dictionary d of tier t.  An entry of lesser    *)
(* coverage is deleted before the capacity is checked; when the check      *)
(* fails the exception leaves the tier without it.                         *)
(***************************************************************************)
Upgradable(d, c) == coverage(d, cache_key(c)) < c.end

upsert_raises(t, d, c) ==
  Upgradable(d, c) /\ ~can_store(t, drop(d, cache_key(c)), c)

\* Mutant: an entry is kept whatever it covers.
MutUpsert(t, d, c) ==
  IF cache_key(c) \in DOMAIN d \/ ~can_store(t, d, c) THEN d ELSE put(d, c)

upsert(t, d, c) ==
  IF ~Upgradable(d, c) THEN d
  ELSE LET freed == drop(d, cache_key(c))
       IN  IF can_store(t, freed, c) THEN put(freed, c) ELSE freed

=============================================================================
