SPECIFICATION ScriptSpec
CONSTANTS
  NumDocuments = 1
  ChunkSize = 2
  BytesPerToken = 1
  GPU = "gpu"
  ColdTiers <- MCColdTiers
  Capacity <- MCCapacity
  Unbounded <- MCNone
  DocumentLength <- MCDocumentLength
  SharedMin = 0
  SharedMax = 4
  PrivateMin = 1
  PrivateMax = 2
  DocumentMix = "uniform"
  MaxRequests = 3
  TierOrder <- MCTierOrder
  ComputePerToken = 1
  AttentionPerPosition = 1
  ComputeQueueDelay = 0
  LoadQueueDelay <- MCZero
  LoadPerByte <- MCLoadPerByte
  NoTier = "none"
  CutterSets <- MCGrid
  SizeLists <- MCSizeLists
  MaxStores = 3
INVARIANTS
  CuttersAgree
  HitsCoverRange
  ReuseStaysInSharedPrefix
CHECK_DEADLOCK FALSE
