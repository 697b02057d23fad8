SPECIFICATION ClientFairSpec
CONSTANTS
  NumDocuments = 3
  ChunkSize = 4
  BytesPerToken = 1
  GPU = "gpu"
  ColdTiers <- MCNoTiers
  Capacity <- MCCapacity
  Unbounded <- MCNoTiers
  Policy = "fltp"
  Ln <- MCLn
  MaxIndex = 0
  MaxCalls = 4
INVARIANTS
  WithinCapacity
  StoreServes
  CallsNeverDowngrade
  VictimIsUnique
  PolicyTracksTier
PROPERTIES
  StoreReturns
CHECK_DEADLOCK FALSE
