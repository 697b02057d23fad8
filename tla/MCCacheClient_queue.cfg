SPECIFICATION ClientSpec
CONSTANTS
  NumDocuments = 2
  ChunkSize = 2
  BytesPerToken = 1
  GPU = "gpu"
  ColdTiers <- MCNoTiers
  Capacity <- MCCapacity
  Unbounded <- MCNoTiers
  Policy = "lru"
  Ln <- MCLn
  MaxIndex = 1
  MaxCalls = 4
PROPERTIES
  ImplementsQueue
CHECK_DEADLOCK FALSE
