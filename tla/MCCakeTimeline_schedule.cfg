SPECIFICATION TimelineSpec
CONSTANTS
  NumDocuments = 1
  ChunkSize = 2
  BytesPerToken = 1
  GPU = "gpu"
  ColdTiers <- MCColdTiers
  Capacity <- MCCapacity
  Unbounded <- MCUnbounded
  DocumentLength <- MCDocumentLength
  SharedMin = 0
  SharedMax = 6
  PrivateMin = 1
  PrivateMax = 3
  DocumentMix = "uniform"
  MaxRequests = 1
  TierOrder <- MCTierOrder
  ComputePerToken = 1
  AttentionPerPosition = 1
  ComputeQueueDelay = 1
  LoadQueueDelay <- MCDelay
  LoadPerByte <- MCLoadPerByte
  NoTier = "none"
INVARIANTS
  ChunksTilePrompt
  DocumentChunksAligned
  ScheduleIsComplete
  SweepLeavesNothingLoadable
  NeverWorseThanComputeOnly
  TimelineIsConsistent
  FrontsApproach
  FrontsStayBalanced
  NeverWorseThanLoadOnly
PROPERTIES
  CommitmentsAreFinal
  ScheduleIsBuilt
CHECK_DEADLOCK FALSE
