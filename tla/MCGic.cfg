SPECIFICATION FairBoardSpec
CONSTANTS
  IRQ_COUNT = 96
  IRQ_TIMER0 = 36
  Devices <- Others
  Priorities <- MoreOrLessUrgent
  Masks <- AboveTimer
  OVP_IRQ_COUNT = 32
  AIC_IRQ_NUM_TIMER1 = 5
  OvpDevices = {2, 17}
  OvpNumbers = {2, 17, 32}
  OvpPriorities = {5, 7}
INVARIANTS
  TypeOK
  HandlerHasCause
  NothingLeftActive
  StopsOnlyForUnknown
  OvpHandlers
PROPERTIES
  TickSpec
  TickServed
  OvpTickServed
