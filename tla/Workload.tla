------------------------------ MODULE Workload ------------------------------
(***************************************************************************)
(* The request stream (workload.py): the i-th request picks a document and *)
(* a prefix of it, and appends a private suffix.  The random draws are     *)
(* choices from the set of values they range over.                         *)
(***************************************************************************)
EXTENDS KVChunks

CONSTANTS
  DocumentLength,             \* token length of every document
  SharedMin, SharedMax,       \* shared_prefix_tokens_min / _max
  PrivateMin, PrivateMax,     \* private_suffix_tokens_min / _max
  DocumentMix,                \* "uniform", "round_robin" or "skewed"
  MaxRequests                 \* num_requests

ASSUME WorkloadAssumption ==
  /\ DocumentLength \in [Documents -> Nat \ {0}]
  /\ SharedMin \in Nat /\ SharedMax \in Nat /\ SharedMin <= SharedMax
  /\ PrivateMin \in Nat \ {0} /\ PrivateMax \in Nat /\ PrivateMin <= PrivateMax
  /\ DocumentMix \in {"uniform", "round_robin", "skewed"}
  /\ MaxRequests \in Nat

\* With a skewed mix every document can still be drawn.
DocumentsFor(i) ==
  IF DocumentMix = "round_robin" THEN {i % NumDocuments} ELSE Documents

PrefixLengths(d) ==
  MinOf(SharedMin, DocumentLength[d]) .. MinOf(SharedMax, DocumentLength[d])

\* The requests that generate_requests can produce as its i-th one.
RequestsOf(i) ==
  { r \in [id : {i}, doc : DocumentsFor(i), shared : 0 .. SharedMax,
           prompt : 0 .. SharedMax + PrivateMax] :
      /\ r.shared \in PrefixLengths(r.doc)
      /\ r.prompt - r.shared \in PrivateMin .. PrivateMax }

=============================================================================
