----------------------------- MODULE CacheClient ----------------------------
(***************************************************************************)
(* A CacheManager in the hands of an arbitrary client: any sequence of     *)
(* access, store and store_replacing calls on the chunks of the documents. *)
(***************************************************************************)
EXTENDS CacheManager

CONSTANTS
  MaxIndex,     \* bound: largest chunk_index the client uses
  MaxCalls      \* bound: number of calls

ASSUME ClientAssumption == MaxIndex \in Nat /\ MaxCalls \in Nat

VARIABLES
  calls,        \* calls made so far
  last          \* the last call: its operation, its chunk, the GPU tier before it

clientVars == <<tiers, managerVars, calls, last>>

\* Every prefix of a document cuts its last chunk somewhere.
ClientChunks ==
  UNION { { [cid |-> d, idx |-> i, start |-> i * ChunkSize, end |-> e] :
              e \in i * ChunkSize + 1 .. (i + 1) * ChunkSize } :
          d \in Documents, i \in 0 .. MaxIndex }

ClientInit ==
  /\ tiers = [t \in Tiers |-> EmptyDict]
  /\ CacheInit
  /\ calls = 0
  /\ last = [op |-> "none", chunk |-> NoChunk, before |-> EmptyDict]

Call(op, c) ==
  /\ calls < MaxCalls
  /\ calls' = calls + 1
  /\ last' = [op |-> op, chunk |-> c, before |-> tiers[GPU]]

CallAccess(c) == access(cache_key(c)) /\ Call("access", c)

CallStore(c) == store(c) /\ Call("store", c)

CallStoreReplacing(c) == store_replacing(c) /\ Call("store_replacing", c)

\* The exception reaches the client; nothing has been changed.
CallRaises(c) ==
  /\ Idle
  /\ Oversized(c)
  /\ Call("raised", c)
  /\ UNCHANGED <<tiers, managerVars>>

LoopStep ==
  /\ EvictVictim \/ InsertPending
  /\ UNCHANGED <<calls, last>>

ClientNext ==
  \/ \E c \in ClientChunks :
       CallAccess(c) \/ CallStore(c) \/ CallStoreReplacing(c) \/ CallRaises(c)
  \/ LoopStep

ClientSpec == ClientInit /\ [][ClientNext]_clientVars

\* A call runs to its end: the loop is sequential code.
ClientFairSpec == ClientSpec /\ WF_clientVars(LoopStep)

-----------------------------------------------------------------------------
\* The eviction loop never asks for a victim in an empty tier, where every
\* policy raises ValueError, and the policy's choice is never ambiguous.
VictimIsUnique ==
  ~Idle /\ ~can_store(GPU, tiers[GPU], pending)
    => \E key \in Victims : Victims = {key}

\* When a store call has returned, its chunk is served: store leaves some
\* chunk under the key, store_replacing one that covers the requested range.
StoreServes ==
  Idle =>
    /\ last.op = "store" => Present(GPU, cache_key(last.chunk))
    /\ last.op = "store_replacing" =>
         coverage(tiers[GPU], cache_key(last.chunk)) >= last.chunk.end

\* No call leaves a key with less coverage than it found, unless it evicted
\* the chunk: a late store of a shorter chunk never downgrades a resident one
\* (store and store_replacing, cache.py).
CallsNeverDowngrade ==
  Idle =>
    \A k \in DOMAIN tiers[GPU] \cap DOMAIN last.before :
      coverage(last.before, k) <= coverage(tiers[GPU], k)

\* Every store call makes room and returns.
StoreReturns == ~Idle ~> Idle

\* The score of the docstring of FrequencyTokenPriorityPolicy,
\* "log(1 + end_token) * (2 + access_count), lowest score first".
documented_score(key) ==
  Ln(1 + tiers[GPU][key].end) * (2 + get(accessCount, key, 0))

\* The victim has the lowest documented score.
VictimMinimisesDocumentedScore ==
  Policy = "fltp" /\ ~Idle /\ ~can_store(GPU, tiers[GPU], pending) =>
    \A key \in Victims, other \in DOMAIN tiers[GPU] :
      documented_score(key) <= documented_score(other)

=============================================================================
