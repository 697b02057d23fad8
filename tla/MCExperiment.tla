---------------------------- MODULE MCExperiment ----------------------------
EXTENDS Experiment, Logarithms

MCColdTiers == {"disk"}
MCDisk == <<"disk">>
MCTierOrder == <<"gpu", "disk">>
MCDocumentLength == [d \in Documents |-> IF d = 0 THEN 5 ELSE 2]
MCNoDelay == [t \in Tiers |-> 0]

\* A disk without bound (its capacity is not read); the GPU holds four tokens.
MCCapacity == [t \in Tiers |-> IF t = "gpu" THEN 4 ELSE 1]

\* Early chunks are cheaper to compute than to load from the disk.
MCLoadPerByte == [t \in Tiers |-> IF t = "gpu" THEN 1 ELSE 3]

=============================================================================
