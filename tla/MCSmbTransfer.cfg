SPECIFICATION FairSpec
CONSTANTS
  f1 = f1
  f2 = f2
  f3 = f3
  Worker = {w1}
  File = {f1, f2, f3}
  Tree <- MCTree
  None = None
  Sizes = {0, 1, 3}
  ChunkSize = 2
  MaxShortened = 1
INVARIANTS
  SuccessIsFaithful
  SourceSurvives
  NoMixture
PROPERTY
  TransfersEnd
