--------------------------------- MODULE Gic ---------------------------------
(***************************************************************************)
(* Interrupts on the RealView board: the generic interrupt controller and  *)
(* its driver (soc_irq.c), and the timer behind one of its sources         *)
(* (soc_timer.c).  The driver writes the end of an interrupt before it     *)
(* calls the handler, so a source that is still asserted is pending again  *)
(* while its handler runs.  Other sources belong to drivers that call the  *)
(* functions of hw.h while IRQs are masked; the repository has none yet.   *)
(***************************************************************************)
EXTENDS Integers, FiniteSets

CONSTANTS
  IRQ_COUNT,      \* the size of irq_handlers
  IRQ_TIMER0,     \* the timer's interrupt number
  Devices,        \* the numbers of the other sources that may be asserted
  Priorities,     \* what drivers give cpu_irq_set_config
  Masks           \* what drivers give cpu_irq_set_priority

Source == Devices \union {IRQ_TIMER0}
Handled == {n \in Source : n < IRQ_COUNT}
SPURIOUS == 1023

ASSUME GicAssumption ==
  /\ IRQ_COUNT \in Nat /\ IRQ_COUNT < 1022
  /\ Devices \subseteq 0 .. 1021 /\ IsFiniteSet(Devices)
  /\ IRQ_TIMER0 \in 0 .. IRQ_COUNT - 1 /\ IRQ_TIMER0 \notin Devices
  /\ Priorities \subseteq 0 .. 255
  /\ Masks \subseteq 0 .. 255

\* What irq_handlers holds: null, default_handler, the timer's stub, or a
\* driver's own handler, which makes its device drop the line.
Handler == {"null", "default_handler", "tick_handler_stub", "driver"}

VARIABLES
  at,            \* where the processor stands
  irq,           \* the variable of cpu_irq_handler
  irq_handlers,
  tick_handler,  \* whether one was given to timer_tick_start
  timer_on,      \* the timer counts and raises its line
  line,          \* the sources asserted; they are level-sensitive
  \* the controller
  gic_on, pri_mask, enabled, prio, active

controller == <<gic_on, pri_mask, enabled, prio, active>>
vars == <<at, irq, irq_handlers, tick_handler, timer_on, line, controller>>

-----------------------------------------------------------------------------
(* The controller.                                                         *)

\* The sources it would signal: asserted, enabled, urgent enough for the mask
\* and more urgent than what is active.  A lower number is more urgent.
Candidates ==
  IF gic_on
  THEN {n \in (line \intersect enabled) \ active :
          prio[n] < pri_mask /\ \A a \in active : prio[n] < prio[a]}
  ELSE {}

\* What a read of CPU_ICCIAR may answer: the first of the most urgent.
ICCIAR ==
  IF Candidates = {} THEN {SPURIOUS}
  ELSE {n \in Candidates : \A k \in Candidates :
          prio[n] < prio[k] \/ (prio[n] = prio[k] /\ n <= k)}

-----------------------------------------------------------------------------
(* Set-up: soc_init, then the drivers and timer_tick_start, in any order.  *)

Init ==
  /\ at = "soc_irq_init"
  /\ irq = 0
  /\ irq_handlers = [n \in Handled |-> "null"]
  /\ tick_handler = FALSE
  /\ timer_on = FALSE
  /\ line = {}
  /\ gic_on = FALSE
  /\ pri_mask = 0
  /\ enabled = {}
  /\ prio = [n \in Source |-> 0]
  /\ active = {}

\* Mutant: the priority mask is left at its reset value.
soc_irq_init_masked ==
  /\ at = "soc_irq_init"
  /\ at' = "soc_timer_init"
  /\ irq_handlers' = [n \in Handled |-> "default_handler"]
  /\ gic_on' = TRUE
  /\ UNCHANGED <<irq, tick_handler, timer_on, line, pri_mask, enabled, prio, active>>

\* Mutant: the priority mask is given more bits than its field has.
soc_irq_init_wide ==
  /\ at = "soc_irq_init"
  /\ at' = "soc_timer_init"
  /\ irq_handlers' = [n \in Handled |-> "default_handler"]
  /\ gic_on' = TRUE
  /\ pri_mask' = 256
  /\ UNCHANGED <<irq, tick_handler, timer_on, line, enabled, prio, active>>

soc_irq_init ==
  /\ at = "soc_irq_init"
  /\ at' = "soc_timer_init"
  /\ irq_handlers' = [n \in Handled |-> "default_handler"]
  /\ gic_on' = TRUE
  /\ pri_mask' = 255
  /\ UNCHANGED <<irq, tick_handler, timer_on, line, enabled, prio, active>>

soc_timer_init ==
  /\ at = "soc_timer_init"
  /\ at' = "setup"
  /\ timer_on' = FALSE
  /\ irq_handlers' = [irq_handlers EXCEPT ![IRQ_TIMER0] = "tick_handler_stub"]
  /\ prio' = [prio EXCEPT ![IRQ_TIMER0] = 6]
  /\ enabled' = enabled \union {IRQ_TIMER0}
  /\ UNCHANGED <<irq, tick_handler, line, gic_on, pri_mask, active>>

timer_tick_start ==
  /\ at = "setup"
  /\ tick_handler' = TRUE
  /\ timer_on' = TRUE
  /\ UNCHANGED <<at, irq, irq_handlers, line, controller>>

cpu_irq_set_enable(n, enable) ==
  /\ at = "setup"
  /\ enabled' = IF enable THEN enabled \union {n} ELSE enabled \ {n}
  /\ UNCHANGED <<at, irq, irq_handlers, tick_handler, timer_on, line, gic_on, pri_mask,
                 prio, active>>

cpu_irq_set_handler(n, handler) ==
  /\ at = "setup"
  /\ irq_handlers' = [irq_handlers EXCEPT ![n] = handler]
  /\ UNCHANGED <<at, irq, tick_handler, timer_on, line, controller>>

cpu_irq_set_config(n, priority) ==
  /\ at = "setup"
  /\ prio' = [prio EXCEPT ![n] = priority]
  /\ UNCHANGED <<at, irq, irq_handlers, tick_handler, timer_on, line, gic_on, pri_mask,
                 enabled, active>>

cpu_irq_set_priority(priority) ==
  /\ at = "setup"
  /\ pri_mask' = priority
  /\ UNCHANGED <<at, irq, irq_handlers, tick_handler, timer_on, line, gic_on, enabled,
                 prio, active>>

\* The first guest starts, with IRQs on.
start_guest ==
  /\ at = "setup" /\ timer_on
  /\ at' = "guest"
  /\ UNCHANGED <<irq, irq_handlers, tick_handler, timer_on, line, controller>>

-----------------------------------------------------------------------------
(* Interrupts.                                                             *)

goto(f, g) ==
  /\ at = f /\ at' = g
  /\ UNCHANGED <<tick_handler, timer_on, irq_handlers>>

\* The guest computes, with nothing to show here.
guest_runs == goto("guest", "guest") /\ UNCHANGED <<irq, line, controller>>

\* The vector: the controller signals and the guest has IRQs on.
impl_irq ==
  /\ goto("guest", "cpu_irq_handler")
  /\ Candidates # {}
  /\ UNCHANGED <<irq, line, controller>>

\* A turn of the loop: the read of CPU_ICCIAR makes an interrupt active.
read_ack(end) ==
  /\ irq' \in ICCIAR
  /\ at' = IF irq' >= end THEN "guest"
           ELSE IF irq' >= IRQ_COUNT THEN "unknown_irq"
           ELSE "end_of_interrupt"
  /\ active' = active \union ({irq'} \intersect Source)
  /\ UNCHANGED <<tick_handler, timer_on, irq_handlers, line, gic_on, pri_mask, enabled, prio>>

\* Mutant: of the special numbers, only those above 1023 end the loop.
cpu_irq_handler_off_by_one == at = "cpu_irq_handler" /\ read_ack(1024)

\* 1022 and 1023 are no interrupts and end the loop.
cpu_irq_handler == at = "cpu_irq_handler" /\ read_ack(1022)

\* for(;;); -- a number that has no entry in the table.
unknown_irq == goto("unknown_irq", "unknown_irq") /\ UNCHANGED <<irq, line, controller>>

\* Mutant: CPU_ICCEOIR is not written.
end_of_interrupt_forgotten ==
  /\ goto("end_of_interrupt", "handler")
  /\ UNCHANGED <<irq, line, controller>>

\* CPU_ICCEOIR is written: the source may be pending again at once.
end_of_interrupt ==
  /\ goto("end_of_interrupt", "handler")
  /\ active' = active \ {irq}
  /\ UNCHANGED <<irq, line, gic_on, pri_mask, enabled, prio>>

\* Mutant: the timer's interrupt is not cleared before the tick handler runs.
tick_handler_stub_keeps ==
  /\ goto("handler", "cpu_irq_handler")
  /\ irq_handlers[irq] = "tick_handler_stub"
  /\ UNCHANGED <<irq, line, controller>>

\* Mutant: CPU_ICCIAR is read once, before the loop.
tick_handler_stub_again ==
  /\ goto("handler", "end_of_interrupt")
  /\ irq_handlers[irq] = "tick_handler_stub"
  /\ line' = line \ {IRQ_TIMER0}
  /\ UNCHANGED <<irq, controller>>

\* TIMER_INTCLR, then the tick handler.
tick_handler_stub ==
  /\ goto("handler", "cpu_irq_handler")
  /\ irq_handlers[irq] = "tick_handler_stub"
  /\ line' = line \ {IRQ_TIMER0}
  /\ UNCHANGED <<irq, controller>>

\* A driver's handler makes its device drop the line.
driver_handler ==
  /\ goto("handler", "cpu_irq_handler")
  /\ irq_handlers[irq] = "driver"
  /\ line' = line \ {irq}
  /\ UNCHANGED <<irq, controller>>

\* The default handler prints, an empty entry is skipped: the line stays.
default_handler ==
  /\ goto("handler", "cpu_irq_handler")
  /\ irq_handlers[irq] \in {"default_handler", "null"}
  /\ UNCHANGED <<irq, line, controller>>

-----------------------------------------------------------------------------
(* The devices.                                                            *)

TimerExpires ==
  /\ timer_on
  /\ IRQ_TIMER0 \notin line
  /\ line' = line \union {IRQ_TIMER0}
  /\ UNCHANGED <<at, irq, irq_handlers, tick_handler, timer_on, controller>>

DeviceRaises(n) ==
  /\ n \notin line
  /\ line' = line \union {n}
  /\ UNCHANGED <<at, irq, irq_handlers, tick_handler, timer_on, controller>>

Driver ==
  \/ \E n \in Devices, e \in BOOLEAN : cpu_irq_set_enable(n, e)
  \/ \E n \in Devices \intersect Handled, h \in {"null", "driver"} : cpu_irq_set_handler(n, h)
  \/ \E n \in Devices, p \in Priorities : cpu_irq_set_config(n, p)
  \/ \E p \in Masks : cpu_irq_set_priority(p)

Loop ==
  \/ cpu_irq_handler \/ unknown_irq \/ end_of_interrupt
  \/ tick_handler_stub \/ driver_handler \/ default_handler

Next ==
  \/ soc_irq_init \/ soc_timer_init \/ timer_tick_start \/ start_guest
  \/ Driver
  \/ guest_runs \/ impl_irq \/ Loop
  \/ TimerExpires \/ \E n \in Devices : DeviceRaises(n)

Spec == Init /\ [][Next]_vars

\* The hypervisor's own code does not stop in the middle, the timer is
\* periodic, and the processor looks at its interrupt input between any two
\* instructions of a guest.
Fairness ==
  /\ WF_vars(soc_irq_init) /\ WF_vars(soc_timer_init) /\ WF_vars(start_guest)
  /\ WF_vars(Loop) /\ WF_vars(impl_irq) /\ WF_vars(TimerExpires)

-----------------------------------------------------------------------------
(* Properties.                                                             *)

\* The variables have their types.
TypeOK ==
  /\ at \in {"soc_irq_init", "soc_timer_init", "setup", "guest", "cpu_irq_handler",
             "unknown_irq", "end_of_interrupt", "handler"}
  /\ irq \in Source \union {0, SPURIOUS}
  /\ irq_handlers \in [Handled -> Handler]
  /\ tick_handler \in BOOLEAN /\ timer_on \in BOOLEAN /\ gic_on \in BOOLEAN
  /\ line \subseteq Source /\ enabled \subseteq Source /\ active \subseteq Source
  /\ pri_mask \in 0 .. 255
  /\ prio \in [Source -> 0 .. 255]

\* A handler runs only for a source that is enabled and asserted, although
\* the end of the interrupt was written before (soc_irq.c:127-131).
HandlerHasCause ==
  at \in {"end_of_interrupt", "handler"} => irq \in line \intersect enabled

\* Nothing is left active when the loop ends or a handler is called: a source
\* left active would block itself and all that are less urgent for good
\* (soc_irq.c:114-127).
NothingLeftActive ==
  at \in {"guest", "handler", "cpu_irq_handler"} => active = {}

\* The machine stops only for an interrupt that was enabled and has no entry
\* in the table, never for a spurious one (soc_irq.c:116-124).
StopsOnlyForUnknown ==
  at = "unknown_irq" => irq \in enabled \ Handled

\* With the controller, its driver and other devices between them, the timer
\* and the tick handler are joined by one line: no tick is lost, made up or
\* handled twice (soc_irq.c:112-132, soc_timer.c:20-30).
Tick == INSTANCE TickLine WITH
  where   <- IF at = "cpu_irq_handler" THEN "loop"
             ELSE IF at \in {"end_of_interrupt", "handler"} /\ irq = IRQ_TIMER0 THEN "handler"
             ELSE IF at \in {"end_of_interrupt", "handler", "unknown_irq"} THEN "loop"
             ELSE "outside",
  running <- timer_on /\ tick_handler,
  tick    <- IRQ_TIMER0 \in line
TickSpec == Tick!Spec

\* The other drivers keep to the timer's example: each source they enable is in
\* the table with a handler of theirs and is less urgent than the timer.
Orderly ==
  \A n \in enabled \ {IRQ_TIMER0} :
    n \in Handled /\ irq_handlers[n] = "driver" /\ prio[n] > 6

\* With such drivers each expiry of the timer is followed by its handler,
\* however often other devices interrupt (soc_irq_init, soc_timer_init,
\* cpu_irq_handler).
TickServed ==
  [](at = "guest" => Orderly)
    => (at = "guest" /\ IRQ_TIMER0 \in line) ~> (at = "handler" /\ irq = IRQ_TIMER0)
=============================================================================
