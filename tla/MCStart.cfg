SPECIFICATION PartSpec
CONSTANTS
  memory_padr_layout <- realview_layout
  Page <- FirstSections
  Sections = 520
  model = "ARMv7a"
  WIDTH = 4
  L = 2
  Geometry <- TwoLevels
  FLD_MAX_IDX = 3
  Buffers <- AnyBuffer
  Stored = {0, 2, 4, 9}
  MaxStores = 2
  none = none
INVARIANTS TypeOK TableIsClosedForm GuestsSeparated CachesMaintained
CHECK_DEADLOCK FALSE
