------------------------------ MODULE Chunking ------------------------------
(***************************************************************************)
(* chunk_request_with_prefix_split (models.py), one action per iteration   *)
(* of its two loops.  The variable phase is the program counter of the     *)
(* whole prefill: "idle" before a request, "split" while its prompt is     *)
(* being chunked, "scan" once the scheduler may start.                     *)
(***************************************************************************)
EXTENDS Workload

VARIABLES
  phase,      \* program counter of the prefill
  request,    \* the request being served
  pos,        \* first token not yet in a chunk
  chunks      \* the chunks so far; chunk_index is the position minus one

chunkingVars == <<phase, request, pos, chunks>>

\* Mutant: all requests share one private id.
MutPrivateCacheId(r) == NumDocuments

private_cache_id(r) == NumDocuments + r.id

NextChunk(cid, limit) ==
  [cid |-> cid, idx |-> Len(chunks),
   start |-> pos, end |-> MinOf(pos + ChunkSize, limit)]

AppendChunk(c) ==
  /\ chunks' = Append(chunks, c)
  /\ pos' = c.end

\* Mutant: the private region keyed by the document.
MutSplitPrivate ==
  /\ phase = "split"
  /\ pos >= request.shared
  /\ pos < request.prompt
  /\ AppendChunk(NextChunk(request.doc, request.prompt))
  /\ UNCHANGED <<phase, request>>

\* Mutant: the shared loop cuts at the end of the prompt.
MutSplitShared ==
  /\ phase = "split"
  /\ pos < request.shared
  /\ AppendChunk(NextChunk(request.doc, request.prompt))
  /\ UNCHANGED <<phase, request>>

\* Mutant: the private loop runs once too often.
MutSplitPast ==
  /\ phase = "split"
  /\ pos >= request.shared
  /\ pos <= request.prompt
  /\ AppendChunk(NextChunk(private_cache_id(request), request.prompt))
  /\ UNCHANGED <<phase, request>>

\* One iteration of the loop over the shared prefix.
SplitShared ==
  /\ phase = "split"
  /\ pos < request.shared
  /\ AppendChunk(NextChunk(request.doc, request.shared))
  /\ UNCHANGED <<phase, request>>

\* One iteration of the loop over the private suffix.
SplitPrivate ==
  /\ phase = "split"
  /\ pos >= request.shared
  /\ pos < request.prompt
  /\ AppendChunk(NextChunk(private_cache_id(request), request.prompt))
  /\ UNCHANGED <<phase, request>>

SplitDone ==
  /\ phase = "split"
  /\ pos >= request.shared
  /\ pos >= request.prompt
  /\ phase' = "scan"
  /\ UNCHANGED <<request, pos, chunks>>

SplitStep == SplitShared \/ SplitPrivate

=============================================================================
