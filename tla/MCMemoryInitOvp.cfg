SPECIFICATION Spec
CONSTANTS
  memory_padr_layout <- ovp_arm9_layout
  Page <- FirstSections
  Sections = 8
  model = "ARMv5"
INVARIANT BothGuestsHaveRam
CHECK_DEADLOCK FALSE
