SPECIFICATION Spec
CONSTANTS
  File <- FileAndGuest
  Register = {"pc"}
  Place = {2, 4}
  MEM = 16
  Binaries <- CoreFirst
  MaxLoads = 2
  none = none
INVARIANT
  NamesUsable
