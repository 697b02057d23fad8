SPECIFICATION ExperimentSpec
CONSTANTS
  NumDocuments = 2
  ChunkSize = 2
  BytesPerToken = 1
  GPU = "gpu"
  ColdTiers <- MCColdTiers
  Capacity <- MCCapacity
  Unbounded <- MCColdTiers
  Ln <- MCLn
  DocumentLength <- MCDocumentLength
  SharedMin = 0
  SharedMax = 5
  PrivateMin = 1
  PrivateMax = 1
  DocumentMix = "skewed"
  MaxRequests = 3
  TierOrder <- MCTierOrder
  ComputePerToken = 1
  AttentionPerPosition = 1
  ComputeQueueDelay = 0
  LoadQueueDelay <- MCNoDelay
  LoadPerByte <- MCLoadPerByte
  NoTier = "none"
  WriteThrough <- MCDisk
  Aggregate = "sum"
  Schedulers = "cake_and_linear"
INVARIANTS
  EveryScenarioServes
PROPERTIES
  ExperimentCompletes
CHECK_DEADLOCK FALSE
