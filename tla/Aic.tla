--------------------------------- MODULE Aic ---------------------------------
(***************************************************************************)
(* Interrupts on the OVP ARM926 board: the advanced interrupt controller,  *)
(* which holds the addresses of the handlers itself, its driver            *)
(* (soc_interrupt.c), the vector that calls them                           *)
(* (soc_interrupt_vector.S) and the timer (soc_timer.c).  Sources are      *)
(* level-sensitive and keep their line up until a handler has served them. *)
(***************************************************************************)
EXTENDS Integers, Sequences, SequencesExt, FiniteSets

CONSTANTS
  IRQ_COUNT,
  AIC_IRQ_NUM_TIMER1,
  Devices,     \* the other sources that may be asserted
  Numbers,     \* the numbers drivers give to the functions of hw.h
  Priorities   \* the priorities they choose

Source == Devices \union {AIC_IRQ_NUM_TIMER1}

VARIABLES
  at,
  svr,          \* the handler of each source, as the controller has it
  tick_handler,
  timer_on,
  line,
  enabled, prio,
  in_service,   \* what was acknowledged and has not ended, the last one last
  wanted        \* the sources their drivers enabled last

aic == <<svr, enabled, prio, in_service>>
vars == <<at, tick_handler, timer_on, line, aic, wanted>>

\* A higher number is more urgent, then a lower source.
precedes(n, k) == prio[n] > prio[k] \/ (prio[n] = prio[k] /\ n <= k)

\* What the controller signals: nothing that is not more urgent than what is in
\* service.
Candidates == {n \in line \intersect enabled : \A k \in Range(in_service) : prio[n] > prio[k]}

-----------------------------------------------------------------------------
(* Set-up, with IRQs masked.                                               *)

Init ==
  /\ at = "soc_init"
  /\ svr = [n \in Source |-> "null"] /\ tick_handler = FALSE /\ timer_on = FALSE
  /\ line = {} /\ enabled = {} /\ prio = [n \in Source |-> 0]
  /\ in_service = <<>> /\ wanted = {}

\* soc_interrupt_init, then soc_timer_init.
soc_init ==
  /\ at = "soc_init" /\ at' = "setup"
  /\ enabled' = {} /\ svr' = [n \in Source |-> "default_handler"]
  /\ timer_on' = FALSE
  /\ UNCHANGED <<tick_handler, line, prio, in_service, wanted>>

\* Numbers out of range are ignored.
cpu_irq_set_enable(n, enable) ==
  /\ at = "setup" /\ n \in Numbers
  /\ LET changed == IF n < 0 \/ n >= IRQ_COUNT THEN {} ELSE {n}
     IN /\ enabled' = IF enable THEN enabled \union changed ELSE enabled \ changed
        /\ wanted' = IF enable THEN wanted \union changed ELSE wanted \ changed
  /\ UNCHANGED <<at, svr, tick_handler, timer_on, line, prio, in_service>>

\* A null pointer stands for the default handler.
cpu_irq_set_handler(n, handler) ==
  /\ at = "setup" /\ n \in Numbers
  /\ svr' = IF n < 0 \/ n >= IRQ_COUNT THEN svr
            ELSE [svr EXCEPT ![n] = IF handler = "null" THEN "default_handler" ELSE handler]
  /\ UNCHANGED <<at, tick_handler, timer_on, line, enabled, prio, in_service, wanted>>

soc_interrupt_set_configuration(n, priority) ==
  /\ at = "setup" /\ n \in Numbers
  /\ prio' = IF n < 0 \/ n >= IRQ_COUNT THEN prio ELSE [prio EXCEPT ![n] = priority % 8]
  /\ UNCHANGED <<at, svr, tick_handler, timer_on, line, enabled, in_service, wanted>>

timer_tick_start ==
  /\ at = "setup"
  /\ line' = line \ {AIC_IRQ_NUM_TIMER1}
  /\ tick_handler' = TRUE
  /\ svr' = [svr EXCEPT ![AIC_IRQ_NUM_TIMER1] = "tick_handler_stub"]
  /\ prio' = [prio EXCEPT ![AIC_IRQ_NUM_TIMER1] = 6]
  /\ enabled' = enabled \union {AIC_IRQ_NUM_TIMER1}
  /\ wanted' = wanted \union {AIC_IRQ_NUM_TIMER1}
  /\ timer_on' = TRUE
  /\ UNCHANGED <<at, in_service>>

\* What was set up starts to run with IRQs on.
start_guest ==
  /\ at = "setup" /\ timer_on /\ at' = "guest"
  /\ UNCHANGED <<tick_handler, timer_on, line, aic, wanted>>

-----------------------------------------------------------------------------
(* Interrupts.                                                             *)

\* impl_irq as far as the call: the read of AIC_IVR acknowledges an interrupt
\* and answers the address of its handler.  It is not spurious: no line falls
\* while the processor is on its way here.
impl_irq ==
  /\ at = "guest"
  /\ \E n \in Candidates :
       /\ \A k \in Candidates : precedes(n, k)
       /\ in_service' = Append(in_service, n)
       /\ at' = svr[n]
  /\ UNCHANGED <<svr, enabled, prio, tick_handler, timer_on, line, wanted>>

current == Last(in_service)

\* The read of the timer's status drops its line; then the tick handler.
tick_handler_stub ==
  /\ at = "tick_handler_stub" /\ at' = "clear"
  /\ line' = line \ {AIC_IRQ_NUM_TIMER1}
  /\ UNCHANGED <<tick_handler, timer_on, aic, wanted>>

\* A driver's handler makes its device drop the line, and may disable the source.
driver_handler(disables) ==
  /\ at = "driver" /\ at' = "clear"
  /\ line' = line \ {current}
  /\ enabled' = IF disables THEN enabled \ {current} ELSE enabled
  /\ wanted' = IF disables THEN wanted \ {current} ELSE wanted
  /\ UNCHANGED <<svr, prio, in_service, tick_handler, timer_on>>

\* It only prints.
default_handler ==
  /\ at = "default_handler" /\ at' = "clear"
  /\ UNCHANGED <<tick_handler, timer_on, line, aic, wanted>>

\* Mutant: the end of the interrupt is not written.
clear_interrupt_forgotten ==
  /\ at = "clear" /\ at' = "guest"
  /\ enabled' = enabled \union {current}
  /\ UNCHANGED <<svr, prio, in_service, tick_handler, timer_on, line, wanted>>

\* Mutant: the "OVP hack" leaves the source disabled.
clear_interrupt_disables ==
  /\ at = "clear" /\ at' = "guest"
  /\ in_service' = Front(in_service)
  /\ enabled' = enabled \ {current}
  /\ UNCHANGED <<svr, prio, tick_handler, timer_on, line, wanted>>

\* AIC_ISR is read and AIC_EOICR written; the "OVP hack" disables and enables
\* the source, which leaves it enabled whatever its handler did.
clear_interrupt ==
  /\ at = "clear" /\ at' = "guest"
  /\ in_service' = Front(in_service)
  /\ enabled' = enabled \union {current}
  /\ UNCHANGED <<svr, prio, tick_handler, timer_on, line, wanted>>

-----------------------------------------------------------------------------

TimerExpires ==
  /\ timer_on /\ line' = line \union {AIC_IRQ_NUM_TIMER1}
  /\ UNCHANGED <<at, tick_handler, timer_on, aic, wanted>>

DeviceRaises(n) ==
  /\ line' = line \union {n}
  /\ UNCHANGED <<at, tick_handler, timer_on, aic, wanted>>

Driver ==
  \/ \E n \in Numbers, e \in BOOLEAN : cpu_irq_set_enable(n, e)
  \/ \E n \in Numbers, h \in {"null", "driver"} : cpu_irq_set_handler(n, h)
  \/ \E n \in Numbers, p \in Priorities : soc_interrupt_set_configuration(n, p)

Handlers ==
  tick_handler_stub \/ (\E d \in BOOLEAN : driver_handler(d)) \/ default_handler \/ clear_interrupt

Next ==
  \/ soc_init \/ Driver \/ timer_tick_start \/ start_guest
  \/ impl_irq \/ Handlers
  \/ TimerExpires \/ \E n \in Devices : DeviceRaises(n)

\* The code does not stop in the middle and the processor takes interrupts.
Fairness == WF_vars(Handlers) /\ WF_vars(impl_irq)

Spec == Init /\ [][Next]_vars

-----------------------------------------------------------------------------
(* Properties.                                                             *)

\* A handler runs for a source that is asserted and enabled, one at a time, and
\* is the one that was installed for it.  Outside, nothing is in service: a
\* source left in service would block all that are no more urgent for good.
HandlerHasCause ==
  /\ at \in {"tick_handler_stub", "driver", "default_handler"} =>
       Len(in_service) = 1 /\ current \in line \intersect enabled /\ at = svr[current]
  /\ at \in {"guest", "setup"} => in_service = <<>>
  /\ at # "null"

\* What the drivers enabled stays enabled.
StaysEnabled == wanted \subseteq enabled

Orderly ==
  \A n \in enabled \ {AIC_IRQ_NUM_TIMER1} : svr[n] = "driver" /\ prio[n] < prio[AIC_IRQ_NUM_TIMER1]

\* With drivers that serve their devices and leave the timer the most urgent
\* source, an expiry of the timer is followed by its handler.
TickServed ==
  [](at = "guest" => Orderly)
    => (at = "guest" /\ AIC_IRQ_NUM_TIMER1 \in line) ~> at = "tick_handler_stub"
=============================================================================
