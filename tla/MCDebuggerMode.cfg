SPECIFICATION FairSpec
CONSTANTS
  n1 = n1
  n2 = n2
  n3 = n3
  Address <- Code
  Successor <- Branches
  Mode <- ModeOf
  Kind <- KindOf
  Node <- Memory
  Number = {1, 4, 8}
  MAX_CYCLES = 3
PROPERTY
  StopsAtModeChange
