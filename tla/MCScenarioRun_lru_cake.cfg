SPECIFICATION ScenarioSpec
CONSTANTS
  NumDocuments = 2
  ChunkSize = 2
  BytesPerToken = 1
  GPU = "gpu"
  ColdTiers <- MCColdTiers
  Capacity <- MCCapacity
  Unbounded <- MCColdTiers
  Policy = "lru"
  Ln <- MCLn
  DocumentLength <- MCUnevenDocuments
  SharedMin = 1
  SharedMax = 5
  PrivateMin = 1
  PrivateMax = 1
  DocumentMix = "uniform"
  MaxRequests = 4
  TierOrder <- MCTierOrder
  ComputePerToken = 1
  AttentionPerPosition = 1
  ComputeQueueDelay = 0
  LoadQueueDelay <- MCNoDelay
  LoadPerByte <- MCFastLoadPerByte
  NoTier = "none"
  UseCake = TRUE
  WriteThrough <- MCDisk
  Aggregate = "max"
INVARIANTS
  TypeOK
  PendingLoadsServed
  PrivateSuffixNeverLoaded
  ServedPromptIsWarm
  FittingPromptIsResident
  ServedPrefixIsHit
  ChunkFlowBalances
  FirstTouchRecomputes
  PartialTouchesAreMisses
  DiskIsDetermined
  ColdTierHoldsPrefixes
PROPERTIES
  ImplementsPrefixStore
  ColdCoverageNeverShrinks
  PrefillsComplete
CHECK_DEADLOCK FALSE
