-------------------------- MODULE QueueRefinement ---------------------------
(***************************************************************************)
(* A cache manager whose policy is FIFO or LRU implements QueueCache,      *)
(* whatever its client calls.                                              *)
(***************************************************************************)
EXTENDS CacheClient

\* FIFO's place in line is that in the dictionary, LRU's is its stamp.
Rank(key) == IF Policy = "lru" THEN lastAccess[key] ELSE Age(key)

Line ==
  { p \in (DOMAIN tiers[GPU]) \X (DOMAIN tiers[GPU]) : Rank(p[1]) < Rank(p[2]) }

Incoming == IF Idle THEN <<>> ELSE cache_key(pending)

\* A call that raises asks for nothing.
Asked == IF last.op \in {"none", "raised"} THEN <<>> ELSE cache_key(last.chunk)

Queue ==
  INSTANCE QueueCache WITH
    NoKey    <- <<>>,
    HitMoves <- Policy = "lru",
    members  <- DOMAIN tiers[GPU],
    ahead    <- Line,
    incoming <- Incoming,
    asked    <- Asked,
    count    <- calls

\* FIFO and LRU implement the queue they are named after, also when an upgrade
\* removes and re-inserts a resident chunk (LRUPolicy, FIFOPolicy,
\* store_replacing): every hit counts, and the victim is always the first.
ImplementsQueue == Queue!QueueSpec

=============================================================================
