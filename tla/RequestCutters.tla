--------------------------- MODULE RequestCutters ---------------------------
(***************************************************************************)
(* The three functions that cut a prompt into chunks (models.py), each as  *)
(* the sequence it returns.  Chunking steps through the loops of the one   *)
(* the experiments use.                                                    *)
(***************************************************************************)
EXTENDS Workload, SequencesExt

\* The number of chunks that n tokens are cut into.
Chunks(n) == (n + ChunkSize - 1) \div ChunkSize

\* One grid from token 0 to the end of the prompt, all of it under cache_id.
chunk_request(r) ==
  [i \in 1 .. Chunks(r.prompt) |->
     [cid |-> r.doc, idx |-> i - 1,
      start |-> (i - 1) * ChunkSize, end |-> MinOf(i * ChunkSize, r.prompt)]]

\* Mutant: the private region is keyed by the document too.
MutPrefixSplit(r) ==
  LET n == Chunks(r.shared) IN
  [i \in 1 .. n + Chunks(r.prompt - r.shared) |->
     [cid |-> r.doc, idx |-> i - 1,
      start |-> IF i <= n THEN (i - 1) * ChunkSize ELSE r.shared + (i - 1 - n) * ChunkSize,
      end   |-> IF i <= n THEN MinOf(i * ChunkSize, r.shared)
                ELSE MinOf(r.shared + (i - n) * ChunkSize, r.prompt)]]

\* A grid from token 0 under cache_id, cut off at the end of the shared
\* prefix, and a second grid from there under the private id.
chunk_request_with_prefix_split(r) ==
  LET n == Chunks(r.shared) IN
  [i \in 1 .. n + Chunks(r.prompt - r.shared) |->
     IF i <= n
     THEN [cid |-> r.doc, idx |-> i - 1,
           start |-> (i - 1) * ChunkSize,
           end   |-> MinOf(i * ChunkSize, r.shared)]
     ELSE [cid |-> NumDocuments + r.id, idx |-> i - 1,
           start |-> r.shared + (i - 1 - n) * ChunkSize,
           end   |-> MinOf(r.shared + (i - n) * ChunkSize, r.prompt)]]

\* Where chunk i begins if chunk j takes sizes[j] tokens.
StartOf(sizes, i) == SumFunctionOnSet(sizes, 1 .. i - 1)

\* The sizes are refused with a ValueError.
SizesRaise(r, sizes) ==
  \/ sizes = <<>>
  \/ \E i \in DOMAIN sizes : sizes[i] <= 0
  \/ SumFunction(sizes) < r.prompt

\* Mutant: a size that begins at the end of the prompt still gives a chunk.
MutSized(r, sizes) ==
  LET n == Cardinality({ i \in DOMAIN sizes : StartOf(sizes, i) <= r.prompt })
  IN  [i \in 1 .. n |->
         [cid |-> r.doc, idx |-> i - 1, start |-> StartOf(sizes, i),
          end |-> MinOf(StartOf(sizes, i) + sizes[i], r.prompt)]]

\* Chunk i has the i-th size; sizes beyond the prompt are not used.
chunk_request_with_sizes(r, sizes) ==
  LET n == Cardinality({ i \in DOMAIN sizes : StartOf(sizes, i) < r.prompt })
  IN  [i \in 1 .. n |->
         [cid |-> r.doc, idx |-> i - 1, start |-> StartOf(sizes, i),
          end |-> MinOf(StartOf(sizes, i) + sizes[i], r.prompt)]]

=============================================================================
