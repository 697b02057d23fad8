-------------------------- MODULE EvictionPolicies --------------------------
(***************************************************************************)
(* The eviction policies of the managed GPU tier (policies.py).  A policy  *)
(* keeps dictionaries over cache keys; a victim is the chunk of least      *)
(* score.  Python's min and next(iter(..)) resolve ties by the iteration   *)
(* order of the tier's dictionary, which is part of the state.             *)
(***************************************************************************)
EXTENDS MemoryTier, SequencesExt

CONSTANTS
  Policy,     \* "fifo", "lru", "ltp" or "fltp"
  Ln(_)       \* natural logarithm, in units that make it an integer

ASSUME PolicyAssumption == Policy \in {"fifo", "lru", "ltp", "fltp"}

VARIABLES
  order,          \* keys of the GPU tier in dictionary (insertion) order
  clock,          \* LRUPolicy._clock, FrequencyTokenPriorityPolicy._clock
  lastAccess,     \* LRUPolicy._last_access
  accessCount,    \* FrequencyTokenPriorityPolicy._access_count
  insertOrder     \* FrequencyTokenPriorityPolicy._insert_order

policyVars == <<clock, lastAccess, accessCount, insertOrder>>

\* d[key] = value and d.pop(key, None) of a policy's dictionary
set(d, key, value) ==
  [k \in DOMAIN d \cup {key} |-> IF k = key THEN value ELSE d[k]]

pop(d, key) == [k \in DOMAIN d \ {key} |-> d[k]]

get(d, key, default) == IF key \in DOMAIN d THEN d[key] ELSE default

PolicyInit ==
  /\ order = <<>>
  /\ clock = 0
  /\ lastAccess = [k \in {} |-> 0]
  /\ accessCount = [k \in {} |-> 0]
  /\ insertOrder = [k \in {} |-> 0]

\* Mutant: a hit does not refresh the recency stamp that the key has.
MutRecordAccess(key) ==
  /\ IF Policy = "fltp"
     THEN accessCount' = set(accessCount, key, get(accessCount, key, 0) + 1)
     ELSE UNCHANGED accessCount
  /\ lastAccess' = IF Policy = "lru" THEN set(lastAccess, key, get(lastAccess, key, clock + 1))
                   ELSE lastAccess
  /\ clock' = clock + 1
  /\ UNCHANGED insertOrder

record_access(key) ==
  CASE Policy = "lru" ->
         /\ clock' = clock + 1
         /\ lastAccess' = set(lastAccess, key, clock + 1)
         /\ UNCHANGED <<accessCount, insertOrder>>
    [] Policy = "fltp" ->
         /\ accessCount' = set(accessCount, key, get(accessCount, key, 0) + 1)
         /\ UNCHANGED <<clock, lastAccess, insertOrder>>
    [] OTHER -> UNCHANGED policyVars

record_store(key) ==
  IF Policy = "fltp"
  THEN /\ accessCount' = set(accessCount, key, 0)
       /\ clock' = clock + 1
       /\ insertOrder' = set(insertOrder, key, clock + 1)
       /\ UNCHANGED lastAccess
  ELSE record_access(key)     \* only LRU does anything here

\* Mutant: the removed key keeps its stamps and counts.
MutRecordRemove(key) == UNCHANGED policyVars

record_remove(key) ==
  /\ lastAccess' = pop(lastAccess, key)
  /\ accessCount' = pop(accessCount, key)
  /\ insertOrder' = pop(insertOrder, key)
  /\ UNCHANGED clock

Age(key) == CHOOSE i \in DOMAIN order : order[i] = key

keep(key) ==
  Ln(1 + tiers[GPU][key].end) * Ln(2 + get(accessCount, key, 0))

\* The tuple by which choose_victim compares chunks, tie-break included.
score(key) ==
  CASE Policy = "fifo" -> <<Age(key)>>
    [] Policy = "lru"  -> <<get(lastAccess, key, -1), Age(key)>>
    [] Policy = "ltp"  -> <<tiers[GPU][key].end, key[2], key[1]>>
    [] OTHER           -> <<keep(key), get(insertOrder, key, 0), Age(key)>>

LexLess(a, b) ==
  \E i \in DOMAIN a : /\ a[i] < b[i]
                      /\ \A j \in 1 .. i - 1 : a[j] = b[j]

\* The chunk choose_victim returns; empty only for an empty tier, where the
\* code raises ValueError.
Victims ==
  { key \in DOMAIN tiers[GPU] :
      \A other \in DOMAIN tiers[GPU] \ {key} : LexLess(score(key), score(other)) }

=============================================================================
