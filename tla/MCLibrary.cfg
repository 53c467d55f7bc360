SPECIFICATION PartSpec
CONSTANTS
  WORD = 1024
  Base = 2
  HeapSize = 68
  Neighbour = 0
  Requests <- Asked
  Foreign <- OutOfReach
  Data <- Words
  Port = {"realview", "u8500", "ovp_arm9"}
  FIFO = 2
  INT_BITS = 8
  Calls <- Programs
INVARIANTS
  TypeOK
  WellFormed
  Coalesced
  TakenIsHeld
  OutputInOrder
PROPERTY
  IdealSpec
