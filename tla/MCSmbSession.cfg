SPECIFICATION FairSpec
CONSTANTS
  MaxCalls = 2
  MaxPages = 3
  MaxSize = 3
  ChunkSize = 2
  MaxId = 20
INVARIANTS
  FreshIds
  CopyMakesProgress
PROPERTIES
  SuccessReleasesHandles
  CleanupReleasesHandles
  CallsReturn
