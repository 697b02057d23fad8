-------------------------- MODULE PrefixRefinement --------------------------
(***************************************************************************)
(* A stream of prefills with an unbounded write-through tier implements    *)
(* PrefixStore, whatever the policy and the scheduler.                     *)
(***************************************************************************)
EXTENDS PrefillProperties

\* The tier that recomputations are written through to.
Home == WriteThrough[1]

\* Tier t holds the first n tokens of document d, cut on the chunk grid.
HoldsPrefix(t, d, n) ==
  \A k \in 0 .. (n - 1) \div ChunkSize :
    /\ Present(t, <<d, k>>)
    /\ tiers[t][<<d, k>>].start = k * ChunkSize
    /\ tiers[t][<<d, k>>].end >= MinOf((k + 1) * ChunkSize, n)

LoadablePrefix(t, d) ==
  Max({ n \in 0 .. DocumentLength[d] : HoldsPrefix(t, d, n) })

\* A write-through tier holds of each document exactly one prefix: no entry
\* lies beyond a gap or beyond a chunk that covers too little.  Entries are
\* written by requests of different lengths, some while a longer or a shorter
\* version was in the GPU, and never removed (upsert, phase 3).
ColdTierHoldsPrefixes ==
  \A key \in DOMAIN tiers[Home] :
    key[1] \in Documents =>
      tiers[Home][key].end <= LoadablePrefix(Home, key[1])

Store ==
  INSTANCE PrefixStore WITH
    Docs      <- Documents,
    NoRequest <- <<>>,
    warm      <- [d \in Documents |-> LoadablePrefix(Home, d)],
    current   <- IF phase = "idle" THEN <<>>
                 ELSE [doc |-> request.doc, len |-> request.shared]

\* What can be loaded of a document only grows, by the chunks of the request
\* being served and never beyond its shared prefix ("all caching is causal",
\* generate_requests), and a served prefix stays loadable for good.
ImplementsPrefixStore == Store!StoreSpec

=============================================================================
