------------------------------ MODULE GicProofs ------------------------------
(***************************************************************************)
(* Theorems about the interrupts of the boards: Gic, for any number of     *)
(* devices, entries in the table and priorities; and Aic, for any devices  *)
(* and any calls of their drivers.                                         *)
(***************************************************************************)
EXTENDS Boards, TLAPS

\* Where the loop of cpu_irq_handler holds an interrupt, and what it knows of
\* it there.
LoopInv ==
  /\ at = "end_of_interrupt" => active = {irq}
  /\ at \notin {"end_of_interrupt", "unknown_irq"} => active = {}
  /\ at \in {"end_of_interrupt", "handler"} => irq \in Handled \intersect line \intersect enabled
  /\ at = "unknown_irq" => irq \in enabled \ Handled

IInv == TypeOK /\ LoopInv

SetupAction ==
  \/ soc_irq_init \/ soc_timer_init \/ timer_tick_start \/ start_guest \/ Driver

\* What the controller answers is a source it may signal, or spurious.
LEMMA Answer ==
  ASSUME NEW n \in ICCIAR
  PROVE  \/ Candidates = {} /\ n = SPURIOUS
         \/ n \in Candidates
BY DEF ICCIAR

LEMMA CandidateType ==
  ASSUME TypeOK, NEW n \in Candidates
  PROVE  n \in Source /\ n \in line \intersect enabled
BY DEF Candidates, TypeOK

LEMMA SourceType == Source \subseteq 0 .. 1021
BY GicAssumption DEF Source

LEMMA InitIInv == Init => IInv
<1> SUFFICES ASSUME Init PROVE IInv
  OBVIOUS
<1>1. irq_handlers \in [Handled -> Handler]
  BY DEF Init, Handler
<1>2. prio \in [Source -> 0 .. 255]
  BY DEF Init
<1>3. /\ at = "soc_irq_init" /\ irq = 0 /\ tick_handler = FALSE /\ timer_on = FALSE
      /\ gic_on = FALSE /\ line = {} /\ enabled = {} /\ active = {} /\ pri_mask = 0
  BY DEF Init
<1>4. /\ at \in {"soc_irq_init", "soc_timer_init", "setup", "guest", "cpu_irq_handler",
                "unknown_irq", "end_of_interrupt", "handler"}
      /\ irq \in Source \union {0, SPURIOUS}
  BY <1>3
<1>5. tick_handler \in BOOLEAN /\ timer_on \in BOOLEAN /\ gic_on \in BOOLEAN
  BY <1>3
<1>6. line \subseteq Source /\ enabled \subseteq Source /\ active \subseteq Source
  BY <1>3
<1>7. pri_mask \in 0 .. 255
  BY <1>3
<1>8. TypeOK
  BY <1>1, <1>2, <1>4, <1>5, <1>6, <1>7, Zenon DEF TypeOK
<1> QED BY <1>3, <1>8 DEF IInv, LoopInv

\* Setting up touches neither the loop's variable nor what is active.
LEMMA SetupIInv ==
  ASSUME IInv, SetupAction
  PROVE  IInv'
<1>1. TypeOK
  BY DEF IInv
<1>2. /\ at \in {"soc_irq_init", "soc_timer_init", "setup"}
      /\ at' \in {"soc_timer_init", "setup", "guest"}
      /\ irq' = irq /\ line' = line /\ active' = active
  BY DEF SetupAction, soc_irq_init, soc_timer_init, timer_tick_start, start_guest, Driver,
         cpu_irq_set_enable, cpu_irq_set_handler, cpu_irq_set_config, cpu_irq_set_priority,
         controller
<1>3. irq_handlers' \in [Handled -> Handler]
  BY <1>1 DEF TypeOK, SetupAction, soc_irq_init, soc_timer_init, timer_tick_start,
              start_guest, Driver, cpu_irq_set_enable, cpu_irq_set_handler,
              cpu_irq_set_config, cpu_irq_set_priority, Handler
<1>4. /\ tick_handler' \in BOOLEAN /\ timer_on' \in BOOLEAN /\ gic_on' \in BOOLEAN
      /\ enabled' \subseteq Source
  BY <1>1, ZenonT(40) DEF TypeOK, SetupAction, soc_irq_init, soc_timer_init, timer_tick_start,
              start_guest, Driver, cpu_irq_set_enable, cpu_irq_set_handler,
              cpu_irq_set_config, cpu_irq_set_priority, controller, Source
<1>5. /\ pri_mask' \in 0 .. 255
      /\ prio' \in [Source -> 0 .. 255]
  BY <1>1, GicAssumption, SMTT(20)
     DEF TypeOK, SetupAction, soc_irq_init, soc_timer_init, timer_tick_start,
         start_guest, Driver, cpu_irq_set_enable, cpu_irq_set_handler,
         cpu_irq_set_config, cpu_irq_set_priority, controller
<1>6. TypeOK'
  BY <1>1, <1>2, <1>3, <1>4, <1>5 DEF TypeOK
<1> QED BY <1>2, <1>6 DEF IInv, LoopInv

LEMMA cpu_irq_handlerIInv ==
  ASSUME IInv, cpu_irq_handler
  PROVE  IInv'
<1>1. TypeOK /\ at = "cpu_irq_handler" /\ active = {}
  BY DEF IInv, LoopInv, cpu_irq_handler
<1>2. /\ irq' \in ICCIAR
      /\ at' = IF irq' >= 1022 THEN "guest"
               ELSE IF irq' >= IRQ_COUNT THEN "unknown_irq" ELSE "end_of_interrupt"
      /\ active' = active \union ({irq'} \intersect Source)
      /\ UNCHANGED <<tick_handler, timer_on, irq_handlers, line, gic_on, pri_mask, enabled, prio>>
  BY DEF cpu_irq_handler, read_ack
<1>3. CASE irq' = SPURIOUS
  <2>1. at' = "guest" /\ active' = {}
    BY <1>1, <1>2, <1>3, SourceType DEF SPURIOUS
  <2>2. TypeOK'
    BY <1>1, <1>2, <1>3, <2>1 DEF TypeOK
  <2> QED BY <2>1, <2>2 DEF IInv, LoopInv
<1>4. CASE irq' \in Candidates
  <2>1. /\ irq' \in Source /\ irq' \in line \intersect enabled
        /\ irq' \in 0 .. 1021
    BY <1>1, <1>4, CandidateType, SourceType, ZenonT(40)
  <2>2. at' = (IF irq' >= IRQ_COUNT THEN "unknown_irq" ELSE "end_of_interrupt") /\ active' = {irq'}
    BY <1>1, <1>2, <2>1
  <2>3. TypeOK'
    BY <1>1, <1>2, <2>1, <2>2 DEF TypeOK
  <2>4. irq' \in Handled <=> ~(irq' >= IRQ_COUNT)
    BY <2>1, GicAssumption DEF Handled
  <2> QED BY <1>2, <2>1, <2>2, <2>3, <2>4 DEF IInv, LoopInv
<1> QED BY <1>2, <1>3, <1>4, Answer

LEMMA LoopIInv ==
  ASSUME IInv, Loop
  PROVE  IInv'
<1>1. TypeOK /\ LoopInv
  BY DEF IInv
<1>2. CASE unknown_irq
  BY <1>1, <1>2 DEF unknown_irq, goto, controller, IInv, TypeOK, LoopInv
<1>3. CASE end_of_interrupt
  BY <1>1, <1>3 DEF end_of_interrupt, goto, IInv, TypeOK, LoopInv
<1>4. CASE tick_handler_stub \/ driver_handler \/ default_handler
  <2>1. /\ at = "handler" /\ at' = "cpu_irq_handler"
        /\ line' \subseteq line
        /\ UNCHANGED <<irq, irq_handlers, tick_handler, timer_on, controller>>
    BY <1>4 DEF tick_handler_stub, driver_handler, default_handler, goto
  <2> QED BY <1>1, <2>1 DEF controller, IInv, TypeOK, LoopInv
<1> QED BY <1>2, <1>3, <1>4, cpu_irq_handlerIInv DEF Loop

LEMMA DeviceIInv ==
  ASSUME IInv, TimerExpires \/ (\E n \in Devices : DeviceRaises(n)) \/ guest_runs \/ impl_irq
  PROVE  IInv'
<1>1. TypeOK /\ LoopInv
  BY DEF IInv
<1>2. CASE TimerExpires \/ \E n \in Devices : DeviceRaises(n)
  <2>1. /\ line \subseteq line' /\ line' \subseteq Source
        /\ UNCHANGED <<at, irq, irq_handlers, tick_handler, timer_on, controller>>
    BY <1>1, <1>2 DEF TimerExpires, DeviceRaises, TypeOK, Source
  <2> QED BY <1>1, <2>1 DEF controller, IInv, TypeOK, LoopInv
<1>3. CASE guest_runs \/ impl_irq
  <2>1. /\ at = "guest" /\ at' \in {"guest", "cpu_irq_handler"}
        /\ UNCHANGED <<irq, irq_handlers, tick_handler, timer_on, line, controller>>
    BY <1>3 DEF guest_runs, impl_irq, goto
  <2> QED BY <1>1, <2>1 DEF controller, IInv, TypeOK, LoopInv
<1> QED BY <1>2, <1>3

LEMMA NextIInv ==
  ASSUME IInv, [Next]_vars
  PROVE  IInv'
<1>1. CASE UNCHANGED vars
  BY <1>1 DEF vars, controller, IInv, TypeOK, LoopInv
<1> QED BY <1>1, SetupIInv, LoopIInv, DeviceIInv DEF Next, SetupAction

\* The inductive invariant.
THEOREM Invariant == Spec => []IInv
<1>1. Init => IInv
  BY InitIInv
<1>2. IInv /\ [Next]_vars => IInv'
  BY NextIInv
<1> QED BY <1>1, <1>2, PTL DEF Spec

\* The variables keep their types (Gic).
THEOREM TypeCorrect == Spec => []TypeOK
BY Invariant, PTL DEF IInv

\* Handlers run only for sources that are enabled and asserted, although the
\* end of the interrupt is written before (soc_irq.c:127-131).
THEOREM HandlerHasCauseCorrect == Spec => []HandlerHasCause
<1>1. IInv => HandlerHasCause
  BY DEF IInv, LoopInv, HandlerHasCause
<1> QED BY <1>1, Invariant, PTL

\* No source is left active, where it would block the others
\* (soc_irq.c:114-127).
THEOREM NothingLeftActiveCorrect == Spec => []NothingLeftActive
<1>1. IInv => NothingLeftActive
  BY DEF IInv, LoopInv, NothingLeftActive
<1> QED BY <1>1, Invariant, PTL

\* The endless loop is entered only for an enabled source without an entry
\* in the table (soc_irq.c:121-124).
THEOREM StopsOnlyForUnknownCorrect == Spec => []StopsOnlyForUnknown
<1>1. IInv => StopsOnlyForUnknown
  BY DEF IInv, LoopInv, StopsOnlyForUnknown
<1> QED BY <1>1, Invariant, PTL

-----------------------------------------------------------------------------
(* The timer's line.                                                       *)

\* The timer's source stays set up, whatever other drivers do, and its stub is
\* in no other entry of the table.
TimerInv ==
  /\ at \in {"soc_irq_init", "soc_timer_init"} => timer_on = FALSE
  /\ timer_on => tick_handler
  /\ at # "soc_irq_init" => gic_on /\ pri_mask > 6
  /\ at \notin {"soc_irq_init", "soc_timer_init"} =>
       /\ IRQ_TIMER0 \in enabled
       /\ prio[IRQ_TIMER0] = 6
       /\ irq_handlers[IRQ_TIMER0] = "tick_handler_stub"
  /\ \A n \in Handled : irq_handlers[n] = "tick_handler_stub" => n = IRQ_TIMER0

LInv == IInv /\ TimerInv

LEMMA TimerType == IRQ_TIMER0 \in Handled /\ IRQ_TIMER0 \notin Devices
BY GicAssumption DEF Handled, Source

\* A high line of the timer is a candidate as soon as nothing is active.
LEMMA HighIsCandidate ==
  ASSUME LInv, at = "cpu_irq_handler", IRQ_TIMER0 \in line
  PROVE  IRQ_TIMER0 \in Candidates
<1>1. active = {} /\ gic_on /\ pri_mask > 6 /\ pri_mask \in Int
      /\ IRQ_TIMER0 \in enabled /\ prio[IRQ_TIMER0] = 6
  BY DEF LInv, IInv, LoopInv, TimerInv, TypeOK
<1> QED BY <1>1 DEF Candidates

LEMMA SetupLine ==
  ASSUME LInv, SetupAction, \A p \in Masks : p > 6
  PROVE  TimerInv' /\ [Tick!Next]_(Tick!vars)
<1>1. TypeOK /\ TimerInv
  BY DEF LInv, IInv
<1>2. CASE soc_irq_init
  <2>1. TimerInv'
    BY <1>1, <1>2 DEF soc_irq_init, TimerInv
  <2>2. UNCHANGED Tick!vars
    BY <1>2 DEF soc_irq_init, Tick!vars
  <2> QED BY <2>1, <2>2
<1>3. CASE soc_timer_init
  <2>1. TimerInv'
    BY <1>1, <1>3, TimerType DEF soc_timer_init, TimerInv, TypeOK, Handled
  <2>2. timer_on = FALSE
    BY <1>1, <1>3 DEF soc_timer_init, TimerInv
  <2>3. UNCHANGED Tick!vars
    BY <1>3, <2>2 DEF soc_timer_init, Tick!vars
  <2> QED BY <2>1, <2>3
<1>4. CASE timer_tick_start
  <2>1. TimerInv'
    BY <1>1, <1>4 DEF timer_tick_start, TimerInv, controller
  <2>2. Tick!Start
    BY <1>4 DEF timer_tick_start, Tick!Start
  <2> QED BY <2>1, <2>2 DEF Tick!Next
<1>5. CASE start_guest
  <2>1. TimerInv'
    BY <1>1, <1>5 DEF start_guest, TimerInv, controller
  <2>2. UNCHANGED Tick!vars
    BY <1>5 DEF start_guest, Tick!vars
  <2> QED BY <2>1, <2>2
<1>6. CASE Driver
  <2>1. /\ at = "setup" /\ at' = at
        /\ UNCHANGED <<irq, tick_handler, timer_on, line, gic_on>>
    BY <1>6 DEF Driver, cpu_irq_set_enable, cpu_irq_set_handler, cpu_irq_set_config,
                cpu_irq_set_priority, controller
  <2>2. IRQ_TIMER0 \in enabled'
    BY <1>1, <1>6, <2>1, TimerType
       DEF TimerInv, Driver, cpu_irq_set_enable, cpu_irq_set_handler, cpu_irq_set_config,
           cpu_irq_set_priority, controller
  <2>3. prio'[IRQ_TIMER0] = 6
    BY <1>1, <1>6, <2>1, TimerType
       DEF TimerInv, Driver, cpu_irq_set_enable, cpu_irq_set_handler, cpu_irq_set_config,
           cpu_irq_set_priority, controller, TypeOK, Handled
  <2>4. pri_mask' > 6
    BY <1>1, <1>6, <2>1
       DEF TimerInv, Driver, cpu_irq_set_enable, cpu_irq_set_handler, cpu_irq_set_config,
           cpu_irq_set_priority, controller
  <2>5. \A n \in Handled : irq_handlers'[n] = irq_handlers[n]
                           \/ (n \in Devices /\ irq_handlers'[n] \in {"null", "driver"})
    BY <1>1, <1>6
       DEF Driver, cpu_irq_set_enable, cpu_irq_set_handler, cpu_irq_set_config,
           cpu_irq_set_priority, controller, TypeOK
  <2>6. TimerInv'
    BY <1>1, <2>1, <2>2, <2>3, <2>4, <2>5, TimerType DEF TimerInv
  <2>7. UNCHANGED Tick!vars
    BY <2>1 DEF Tick!vars
  <2> QED BY <2>6, <2>7
<1> QED BY <1>2, <1>3, <1>4, <1>5, <1>6 DEF SetupAction

\* The actions after the set-up change neither the table nor what the
\* controller is told.
LEMMA TimerInvKept ==
  ASSUME TimerInv, at \notin {"soc_irq_init", "soc_timer_init"},
         at' \notin {"soc_irq_init", "soc_timer_init"},
         UNCHANGED <<tick_handler, timer_on, irq_handlers, gic_on, pri_mask, enabled, prio>>
  PROVE  TimerInv'
BY DEF TimerInv

LEMMA LoopLine ==
  ASSUME LInv, Loop
  PROVE  TimerInv' /\ [Tick!Next]_(Tick!vars)
<1>1. TypeOK /\ LoopInv /\ TimerInv
  BY DEF LInv, IInv
<1>2. /\ at \in {"cpu_irq_handler", "unknown_irq", "end_of_interrupt", "handler"}
      /\ at' \in {"guest", "cpu_irq_handler", "unknown_irq", "end_of_interrupt", "handler"}
      /\ UNCHANGED <<tick_handler, timer_on, irq_handlers, gic_on, pri_mask, enabled, prio>>
  BY DEF Loop, cpu_irq_handler, read_ack, unknown_irq, end_of_interrupt, tick_handler_stub,
         driver_handler, default_handler, goto, controller
<1>3. TimerInv'
  BY <1>1, <1>2, TimerInvKept
<1>4. CASE cpu_irq_handler
  <2>1. /\ at = "cpu_irq_handler" /\ line' = line
        /\ irq' \in ICCIAR
        /\ at' = IF irq' >= 1022 THEN "guest"
                 ELSE IF irq' >= IRQ_COUNT THEN "unknown_irq" ELSE "end_of_interrupt"
    BY <1>4 DEF cpu_irq_handler, read_ack
  <2>2. CASE Candidates = {} /\ irq' = SPURIOUS
    <3>1. IRQ_TIMER0 \notin line
      BY <2>1, <2>2, HighIsCandidate
    <3>2. at' = "guest"
      BY <2>1, <2>2 DEF SPURIOUS
    <3>3. Tick!Leave
      BY <1>2, <2>1, <3>1, <3>2 DEF Tick!Leave
    <3> QED BY <1>3, <3>3 DEF Tick!Next
  <2>3. CASE irq' \in Candidates
    <3>1. irq' \in line /\ irq' \in 0 .. 1021
      BY <1>1, <2>3, CandidateType, SourceType, ZenonT(40)
    <3>2. CASE irq' = IRQ_TIMER0
      <4>1. at' = "end_of_interrupt"
        BY <2>1, <3>1, <3>2, GicAssumption
      <4>2. Tick!Commit
        BY <1>2, <2>1, <3>1, <3>2, <4>1 DEF Tick!Commit
      <4> QED BY <1>3, <4>2 DEF Tick!Next
    <3>3. CASE irq' # IRQ_TIMER0
      <4>1. at' \in {"unknown_irq", "end_of_interrupt"}
        BY <2>1, <3>1
      <4>2. UNCHANGED Tick!vars
        BY <1>2, <2>1, <3>3, <4>1 DEF Tick!vars
      <4> QED BY <1>3, <4>2
    <3> QED BY <3>2, <3>3
  <2> QED BY <2>1, <2>2, <2>3, Answer
<1>5. CASE unknown_irq \/ end_of_interrupt
  <2>1. /\ irq' = irq /\ line' = line
        /\ \/ at = "unknown_irq" /\ at' = "unknown_irq"
           \/ at = "end_of_interrupt" /\ at' = "handler"
    BY <1>5 DEF unknown_irq, end_of_interrupt, goto
  <2>2. UNCHANGED Tick!vars
    BY <1>2, <2>1 DEF Tick!vars
  <2> QED BY <1>3, <2>2
<1>6. CASE tick_handler_stub
  <2>1. /\ at = "handler" /\ at' = "cpu_irq_handler" /\ line' = line \ {IRQ_TIMER0}
        /\ irq_handlers[irq] = "tick_handler_stub"
    BY <1>6 DEF tick_handler_stub, goto
  <2>2. irq = IRQ_TIMER0
    BY <1>1, <2>1 DEF LoopInv, TimerInv
  <2>3. Tick!Serve
    BY <1>2, <2>1, <2>2 DEF Tick!Serve
  <2> QED BY <1>3, <2>3 DEF Tick!Next
<1>7. CASE driver_handler \/ default_handler
  <2>1. /\ at = "handler" /\ at' = "cpu_irq_handler" /\ line' \in {line, line \ {irq}}
        /\ irq_handlers[irq] # "tick_handler_stub"
    BY <1>7 DEF driver_handler, default_handler, goto
  <2>2. irq # IRQ_TIMER0
    BY <1>1, <2>1 DEF TimerInv
  <2>3. UNCHANGED Tick!vars
    BY <1>2, <2>1, <2>2 DEF Tick!vars
  <2> QED BY <1>3, <2>3
<1> QED BY <1>3, <1>4, <1>5, <1>6, <1>7 DEF Loop

LEMMA DeviceLine ==
  ASSUME LInv, TimerExpires \/ (\E n \in Devices : DeviceRaises(n)) \/ guest_runs \/ impl_irq
  PROVE  TimerInv' /\ [Tick!Next]_(Tick!vars)
<1>1. TimerInv
  BY DEF LInv
<1>2. CASE TimerExpires
  <2>1. TimerInv'
    BY <1>1, <1>2 DEF TimerExpires, TimerInv, controller
  <2>2. Tick!Expire
    BY <1>1, <1>2 DEF TimerExpires, TimerInv, Tick!Expire
  <2> QED BY <2>1, <2>2 DEF Tick!Next
<1>3. CASE \E n \in Devices : DeviceRaises(n)
  <2>1. TimerInv'
    BY <1>1, <1>3 DEF DeviceRaises, TimerInv, controller
  <2>2. UNCHANGED Tick!vars
    BY <1>3, TimerType DEF DeviceRaises, Tick!vars
  <2> QED BY <2>1, <2>2
<1>4. CASE guest_runs \/ impl_irq
  <2>1. /\ at = "guest" /\ at' \in {"guest", "cpu_irq_handler"}
        /\ UNCHANGED <<irq, irq_handlers, tick_handler, timer_on, line, controller>>
    BY <1>4 DEF guest_runs, impl_irq, goto
  <2>2. TimerInv'
    BY <1>1, <2>1, TimerInvKept DEF controller
  <2>3. CASE at' = "cpu_irq_handler"
    BY <2>1, <2>2, <2>3 DEF Tick!Next, Tick!Enter
  <2>4. CASE at' = "guest"
    BY <2>1, <2>2, <2>4 DEF Tick!vars
  <2> QED BY <2>1, <2>3, <2>4
<1> QED BY <1>2, <1>3, <1>4

LEMMA NextLine ==
  ASSUME LInv, [Next]_vars, \A p \in Masks : p > 6
  PROVE  TimerInv' /\ [Tick!Next]_(Tick!vars)
<1>1. CASE UNCHANGED vars
  BY <1>1 DEF vars, controller, LInv, TimerInv, Tick!vars
<1> QED BY <1>1, SetupLine, LoopLine, DeviceLine DEF Next, SetupAction

\* As long as no driver masks the timer, the controller, its driver and the
\* other devices are between the timer and the tick handler no more than a
\* line: no tick is lost, made up or handled twice (soc_irq.c:112-132,
\* soc_timer.c:20-30).
THEOREM TickImplemented == (\A p \in Masks : p > 6) => (Spec => TickSpec)
<1> SUFFICES ASSUME \A p \in Masks : p > 6
             PROVE  Spec => TickSpec
  OBVIOUS
<1>1. Init => TimerInv /\ Tick!Init
  BY TimerType DEF Init, TimerInv, Tick!Init
<1>2. LInv /\ [Next]_vars => TimerInv' /\ [Tick!Next]_(Tick!vars)
  BY NextLine
<1>3. IInv /\ TimerInv => LInv
  BY DEF LInv
<1> QED BY <1>1, <1>2, <1>3, Invariant, PTL DEF Spec, Tick!Spec, TickSpec

-----------------------------------------------------------------------------
(* The OVP board.                                                          *)

OvpRunning == {"tick_handler_stub", "driver", "default_handler"}

OvpTypeInv ==
  /\ o_at \in OvpRunning \union {"soc_init", "setup", "guest", "clear"}
  /\ o_svr \in [Ovp!Source -> OvpRunning \union {"null"}]
  /\ o_line \subseteq Ovp!Source

\* One interrupt is in service from its acknowledgement to its end, and none
\* before it; set-up gives every source a handler before the first.
OvpServiceInv ==
  /\ o_at \in {"soc_init", "setup", "guest"} => o_in_service = <<>>
  /\ o_at \in OvpRunning \union {"clear"} => \E n \in Ovp!Source : o_in_service = <<n>>
  /\ o_at \in OvpRunning => Ovp!current \in o_line \intersect o_enabled /\ o_at = o_svr[Ovp!current]
  /\ o_at # "soc_init" => o_svr \in [Ovp!Source -> OvpRunning]

\* Drivers have asked for nothing before set-up, which disables all sources.
OvpEnableInv == o_wanted \subseteq o_enabled /\ (o_at = "soc_init" => o_wanted = {})

OvpInv == OvpTypeInv /\ OvpServiceInv /\ OvpEnableInv

LEMMA OneInService ==
  ASSUME NEW n PROVE Len(<<n>>) = 1 /\ Ovp!Last(<<n>>) = n /\ Ovp!Front(<<n>>) = <<>>
BY DEF Ovp!Last, Ovp!Front

LEMMA OvpTimerSource == AIC_IRQ_NUM_TIMER1 \in Ovp!Source
BY DEF Ovp!Source

LEMMA OvpInit == Ovp!Init => OvpInv
BY DEF Ovp!Init, OvpInv, OvpTypeInv, OvpServiceInv, OvpEnableInv, OvpRunning

\* Set-up gives handlers to sources and enables them, with none in service.
LEMMA OvpSetup ==
  ASSUME OvpInv, Ovp!soc_init \/ Ovp!Driver \/ Ovp!timer_tick_start \/ Ovp!start_guest
  PROVE  OvpInv'
<1>1. CASE Ovp!soc_init
  BY <1>1 DEF Ovp!soc_init, OvpInv, OvpTypeInv, OvpServiceInv, OvpEnableInv, OvpRunning
<1>2. CASE \E n \in OvpNumbers, e \in BOOLEAN : Ovp!cpu_irq_set_enable(n, e)
  BY <1>2 DEF Ovp!cpu_irq_set_enable, OvpInv, OvpTypeInv, OvpServiceInv, OvpEnableInv, OvpRunning
<1>3. CASE \E n \in OvpNumbers, h \in {"null", "driver"} : Ovp!cpu_irq_set_handler(n, h)
  BY <1>3 DEF Ovp!cpu_irq_set_handler, OvpInv, OvpTypeInv, OvpServiceInv, OvpEnableInv, OvpRunning
<1>4. CASE \E n \in OvpNumbers, p \in OvpPriorities : Ovp!soc_interrupt_set_configuration(n, p)
  BY <1>4 DEF Ovp!soc_interrupt_set_configuration, OvpInv, OvpTypeInv, OvpServiceInv,
     OvpEnableInv, OvpRunning
<1>5. CASE Ovp!timer_tick_start
  BY <1>5 DEF Ovp!timer_tick_start, OvpInv, OvpTypeInv, OvpServiceInv, OvpEnableInv, OvpRunning
<1>6. CASE Ovp!start_guest
  BY <1>6 DEF Ovp!start_guest, OvpInv, OvpTypeInv, OvpServiceInv, OvpEnableInv, OvpRunning, Ovp!aic
<1> QED BY <1>1, <1>2, <1>3, <1>4, <1>5, <1>6 DEF Ovp!Driver

\* The processor takes an interrupt with none in service, and its handler runs.
LEMMA OvpAcknowledge == ASSUME OvpInv, Ovp!impl_irq PROVE OvpInv'
<1>1. PICK n \in Ovp!Candidates : o_in_service' = Append(o_in_service, n) /\ o_at' = o_svr[n]
  BY DEF Ovp!impl_irq
<1>2. /\ o_at = "guest" /\ UNCHANGED <<o_svr, o_enabled, o_line, o_wanted>>
      /\ o_in_service = <<>> /\ o_svr \in [Ovp!Source -> OvpRunning] /\ o_wanted \subseteq o_enabled
  BY DEF Ovp!impl_irq, OvpInv, OvpServiceInv, OvpEnableInv
<1>3. n \in Ovp!Source /\ n \in o_line \intersect o_enabled /\ o_line \subseteq Ovp!Source
  BY DEF Ovp!Candidates, OvpInv, OvpTypeInv
<1>4. o_in_service' = <<n>> /\ Ovp!current' = n
  BY <1>1, <1>2, OneInService DEF Ovp!current
<1>5. o_at' \in OvpRunning
  BY <1>1, <1>2, <1>3
<1>6. OvpTypeInv'
  BY <1>2, <1>3, <1>5 DEF OvpTypeInv
<1>7. OvpServiceInv'
  BY <1>1, <1>2, <1>3, <1>4, <1>5 DEF OvpServiceInv, OvpRunning
<1>8. OvpEnableInv'
  BY <1>2, <1>5 DEF OvpEnableInv, OvpRunning
<1> QED BY <1>6, <1>7, <1>8 DEF OvpInv

\* The handlers, and what all of them end with.
LEMMA OvpHandle == ASSUME OvpInv, Ovp!Handlers PROVE OvpInv'
<1>1. CASE Ovp!tick_handler_stub
  BY <1>1 DEF Ovp!tick_handler_stub, OvpInv, OvpTypeInv, OvpServiceInv, OvpEnableInv,
     OvpRunning, Ovp!aic
<1>2. CASE \E d \in BOOLEAN : Ovp!driver_handler(d)
  BY <1>2 DEF Ovp!driver_handler, OvpInv, OvpTypeInv, OvpServiceInv, OvpEnableInv, OvpRunning
<1>3. CASE Ovp!default_handler
  BY <1>3 DEF Ovp!default_handler, OvpInv, OvpTypeInv, OvpServiceInv, OvpEnableInv,
     OvpRunning, Ovp!aic
<1>4. CASE Ovp!clear_interrupt
  <2>1. o_in_service' = <<>>
    <3>1. PICK n \in Ovp!Source : o_in_service = <<n>>
      BY <1>4 DEF Ovp!clear_interrupt, OvpInv, OvpServiceInv
    <3> QED BY <1>4, <3>1, OneInService DEF Ovp!clear_interrupt
  <2> QED BY <1>4, <2>1 DEF Ovp!clear_interrupt, OvpInv, OvpTypeInv, OvpServiceInv,
             OvpEnableInv, OvpRunning
<1> QED BY <1>1, <1>2, <1>3, <1>4 DEF Ovp!Handlers

\* Lines rise whatever runs.
LEMMA OvpLines ==
  ASSUME OvpInv, Ovp!TimerExpires \/ \E n \in OvpDevices : Ovp!DeviceRaises(n)
  PROVE  OvpInv'
<1>1. o_line \subseteq o_line' /\ o_line' \subseteq Ovp!Source
  BY DEF Ovp!TimerExpires, Ovp!DeviceRaises, Ovp!Source, OvpInv, OvpTypeInv
<1>2. UNCHANGED <<o_at, o_svr, o_enabled, o_prio, o_in_service, o_wanted>>
  BY DEF Ovp!TimerExpires, Ovp!DeviceRaises, Ovp!aic
<1> QED BY <1>1, <1>2 DEF OvpInv, OvpTypeInv, OvpServiceInv, OvpEnableInv, Ovp!current

\* On the OVP board a handler runs for an interrupt that is asserted and enabled
\* and for no other, one at a time and with nothing left in service after it;
\* and what drivers enable stays enabled, although the end of every interrupt
\* disables and enables its source (soc_interrupt_vector.S:44-73).
THEOREM OvpHandlersCorrect == BoardSpec => []OvpHandlers
<1>1. OvpInv /\ [Ovp!Next]_Ovp!vars => OvpInv'
  <2> SUFFICES ASSUME OvpInv, [Ovp!Next]_Ovp!vars PROVE OvpInv'
    OBVIOUS
  <2>1. CASE UNCHANGED Ovp!vars
    BY <2>1 DEF Ovp!vars, Ovp!aic, OvpInv, OvpTypeInv, OvpServiceInv, OvpEnableInv, Ovp!current
  <2> QED BY <2>1, OvpSetup, OvpAcknowledge, OvpHandle, OvpLines DEF Ovp!Next
<1>2. OvpInv => OvpHandlers
  <2> SUFFICES ASSUME OvpInv PROVE Ovp!HandlerHasCause /\ Ovp!StaysEnabled
    BY DEF OvpHandlers
  <2>1. Ovp!StaysEnabled
    BY DEF OvpInv, OvpEnableInv, Ovp!StaysEnabled
  <2>2. o_at \in OvpRunning => Len(o_in_service) = 1
    BY OneInService DEF OvpInv, OvpServiceInv
  <2>3. o_at # "null"
    BY DEF OvpInv, OvpTypeInv, OvpRunning
  <2> QED BY <2>1, <2>2, <2>3 DEF OvpInv, OvpServiceInv, Ovp!HandlerHasCause, OvpRunning
<1>3. BoardInit => OvpInv
  BY OvpInit DEF BoardInit
<1>4. [BoardNext]_<<board, vars, ovp>> => [Ovp!Next]_Ovp!vars
  BY DEF BoardNext, ovp, Ovp!vars, Ovp!aic
<1>5. OvpInv /\ [BoardNext]_<<board, vars, ovp>> => OvpInv'
  BY <1>1, <1>4
<1> QED BY <1>2, <1>3, <1>5, PTL DEF BoardSpec
=============================================================================
