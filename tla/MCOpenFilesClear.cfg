SPECIFICATION Spec
CONSTANTS
  Workers = {w1, w2}
  Size = 2
  MaxSaves = 1
  MaxFetches = 1
  MaxTries = 2
  Faults = FALSE
  None = None
CHECK_DEADLOCK FALSE
PROPERTY ClearKeepsOpenFiles
