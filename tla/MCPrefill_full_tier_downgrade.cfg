SPECIFICATION Spec
CONSTANTS
  NumDocuments = 2
  ChunkSize = 4
  BytesPerToken = 1
  GPU = "gpu"
  ColdTiers <- MCTwoCold
  Capacity <- MCTinyCapacity
  Unbounded <- MCNone
  Policy = "ltp"
  Ln <- MCLn
  DocumentLength <- MCDocumentLength
  SharedMin = 1
  SharedMax = 4
  PrivateMin = 1
  PrivateMax = 1
  DocumentMix = "uniform"
  MaxRequests = 5
  TierOrder <- MCThreeTiers
  ComputePerToken = 1
  AttentionPerPosition = 2
  ComputeQueueDelay = 0
  LoadQueueDelay <- MCNoDelay
  LoadPerByte <- MCLoadPerByte
  NoTier = "none"
  UseCake = TRUE
  WriteThrough <- MCTwoWriteThrough
PROPERTIES
  ColdCoverageNeverShrinks
CHECK_DEADLOCK FALSE
