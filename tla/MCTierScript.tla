---------------------------- MODULE MCTierScript ----------------------------
EXTENDS TierScript

MCGrid == { {"split"}, {"fixed", "split"} }
MCFixed == { {"fixed"} }
MCSized == { {"sized"} }

\* Lists that are too short for some prompts, and one that is refused.
MCSizeLists == { <<>>, <<1, 2, 3>>, <<2, 1, 4>>, <<3, 3>>, <<4>> }

MCColdTiers == {"disk"}
MCNone == {}
MCTierOrder == <<"gpu", "disk">>
MCDocumentLength == [d \in Documents |-> 4]

\* The GPU holds five tokens and the disk six, so that stores can fail.
MCCapacity == [t \in Tiers |-> IF t = "gpu" THEN 5 ELSE 6]

MCZero == [t \in Tiers |-> 0]
MCLoadPerByte == [t \in Tiers |-> 1]

=============================================================================
