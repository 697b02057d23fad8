----------------------------- MODULE MCPrefill ------------------------------
EXTENDS PrefixRefinement, Logarithms

MCColdTiers == {"disk"}
MCDisk == <<"disk">>
MCTierOrder == <<"gpu", "disk">>
MCDocumentLength == [d \in Documents |-> 4]
MCLongDocument == [d \in Documents |-> 6]
MCUnevenDocuments == [d \in Documents |-> IF d = 0 THEN 5 ELSE 2]
MCNoDelay == [t \in Tiers |-> 0]

\* A disk without bound (its capacity is not read); the GPU holds four tokens.
MCCapacity == [t \in Tiers |-> IF t = "gpu" THEN 4 ELSE 1]

\* Two bounded write-through tiers and a GPU that is smaller than a chunk.
MCTwoCold == {"cpu", "disk"}
MCTwoWriteThrough == <<"cpu", "disk">>
MCThreeTiers == <<"gpu", "cpu", "disk">>
MCTinyCapacity ==
  [t \in Tiers |-> CASE t = "gpu" -> 3 [] t = "cpu" -> 8 [] OTHER -> 7]
MCNone == {}

\* A disk whose loads cost more than computing an early chunk.
MCLoadPerByte == [t \in Tiers |-> IF t = "gpu" THEN 1 ELSE 3]

\* A disk that is fast enough for loads from both tiers in one schedule.
MCFastLoadPerByte == [t \in Tiers |-> IF t = "gpu" THEN 1 ELSE 2]

=============================================================================
