SPECIFICATION FairSpec
CONSTANTS
  Workers = {w1, w2}
  Size = 2
  MaxSaves = 2
  MaxFetches = 2
  MaxTries = 2
  Faults = TRUE
  None = None
CHECK_DEADLOCK FALSE
CONSTRAINT Followed
INVARIANTS SavesAreNoticed SavesReachTheServer
PROPERTY SavesArePicked
