SPECIFICATION PartSpec
CONSTANTS
  n1 = n1
  n2 = n2
  n3 = n3
  Address <- Code
  Successor <- Branches
  Mode <- ModeOf
  Kind <- KindOf
  Node <- Memory
  Number = {1, 2, 4, 8}
  MAX_CYCLES = 3
  File <- Files
  Register = {"pc"}
  Place = {2, 4}
  MEM = 16
  Binaries <- Lines
  MaxLoads = 4
  SPACE = 64
  Mapped = {0, 4, 60}
  Value = {"v1", "v2"}
  Requests <- Asked
  MaxTyped = 2
  Normal = {"R0", "LR"}
  Banked = {"SP_IRQ"}
  Effects <- RegisterEffects
  Char <- Characters
  Line <- TypedLines
  WIDTH = 8
  none = none
INVARIANTS TypesOK ListWhole CountKept CommandsAsTyped NumbersRead NewestFirst ShownAndWritten RegistersShown
PROPERTIES IdealSpec CommandsReturn WholeFile
