--------------------------- MODULE MCCacheClient ----------------------------
EXTENDS QueueRefinement, Logarithms

MCCapacity == [t \in Tiers |-> 3]

MCLargerCapacity == [t \in Tiers |-> 8]

MCNoTiers == {}

=============================================================================
