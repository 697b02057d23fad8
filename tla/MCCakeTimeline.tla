--------------------------- MODULE MCCakeTimeline ---------------------------
EXTENDS CakeTimeline

MCColdTiers == {"disk"}
MCUnbounded == {"disk"}
MCCapacity == [t \in Tiers |-> 100]
MCTierOrder == <<"gpu", "disk">>
MCDocumentLength == [d \in Documents |-> 6]
MCDelay == [t \in Tiers |-> IF t = "gpu" THEN 0 ELSE 1]
MCLoadPerByte == [t \in Tiers |-> IF t = "gpu" THEN 1 ELSE 5]

=============================================================================
