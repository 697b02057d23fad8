------------------------------ MODULE KVChunks ------------------------------
(***************************************************************************)
(* Requests and KV-cache chunks (models.py).                               *)
(*                                                                         *)
(* A cache id is a number: 0 .. NumDocuments-1 are the shared documents,   *)
(* NumDocuments + i is the id "req-i-private" of the i-th request.  The    *)
(* order of the numbers is the order of the strings "doc-.." < "req-..".   *)
(* A chunk keeps what decisions depend on: its cache key and the token     *)
(* range it covers.  Its size follows from the range, its placement is the *)
(* tier that holds it, and its request_id is never read.                   *)
(***************************************************************************)
EXTENDS Integers, Sequences

CONSTANTS
  NumDocuments,     \* size of the document pool
  ChunkSize,        \* chunk_size_tokens
  BytesPerToken     \* bytes_per_token

ASSUME ChunkingAssumption ==
  /\ NumDocuments \in Nat \ {0}
  /\ ChunkSize \in Nat \ {0}
  /\ BytesPerToken \in Nat \ {0}

Documents == 0 .. NumDocuments - 1

Request == [id: Nat, doc: Nat, shared: Nat, prompt: Nat]

\* A chunk is never empty.
Chunk == { c \in [cid: Nat, idx: Nat, start: Nat, end: Nat] : c.start < c.end }

CacheKey == Nat \X Nat

cache_key(c) == <<c.cid, c.idx>>

\* What a tier keeps under a key: the token range of the stored chunk.
Extent == { x \in [start: Nat, end: Nat] : x.start < x.end }

extent(c) == [start |-> c.start, end |-> c.end]

size_bytes(x) == (x.end - x.start) * BytesPerToken

MinOf(a, b) == IF a <= b THEN a ELSE b

MaxOf(a, b) == IF a <= b THEN b ELSE a

=============================================================================
