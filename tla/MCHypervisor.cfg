SPECIFICATION Spec
CONSTANTS
  memory_padr_layout <- realview_layout
  Page <- Pages
  vm_0 = vm_0
  vm_1 = vm_1
  NoVM = NoVM
  VMS <- TwoVMs
  next <- Ring
  config <- Config
  own_ram <- OwnRam
  UserRegs <- Programs
  HyperText <- Text
  TickInHandler = TRUE
INVARIANTS TypeOK Bookkeeping SavedRegisters ActiveContext Isolation InterruptsOnlyGuests
PROPERTIES TickSpec IdealSpec HypervisorTransparent
