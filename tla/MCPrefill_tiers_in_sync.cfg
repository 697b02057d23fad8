SPECIFICATION Spec
CONSTANTS
  NumDocuments = 1
  ChunkSize = 2
  BytesPerToken = 1
  GPU = "gpu"
  ColdTiers <- MCColdTiers
  Capacity <- MCCapacity
  Unbounded <- MCColdTiers
  Policy = "fifo"
  Ln <- MCLn
  DocumentLength <- MCLongDocument
  SharedMin = 0
  SharedMax = 6
  PrivateMin = 1
  PrivateMax = 2
  DocumentMix = "uniform"
  MaxRequests = 3
  TierOrder <- MCTierOrder
  ComputePerToken = 1
  AttentionPerPosition = 1
  ComputeQueueDelay = 0
  LoadQueueDelay <- MCNoDelay
  LoadPerByte <- MCLoadPerByte
  NoTier = "none"
  UseCake = FALSE
  WriteThrough <- MCDisk
INVARIANTS
  FirstHolderIsBest
CHECK_DEADLOCK FALSE
