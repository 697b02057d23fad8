SPECIFICATION ClientSpec
CONSTANTS
  NumDocuments = 1
  ChunkSize = 4
  BytesPerToken = 1
  GPU = "gpu"
  ColdTiers <- MCNoTiers
  Capacity <- MCLargerCapacity
  Unbounded <- MCNoTiers
  Policy = "fltp"
  Ln <- MCLn
  MaxIndex = 2
  MaxCalls = 4
INVARIANTS
  VictimMinimisesDocumentedScore
CHECK_DEADLOCK FALSE
