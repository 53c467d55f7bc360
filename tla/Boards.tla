------------------------------- MODULE Boards -------------------------------
(***************************************************************************)
(* The interrupts of the two boards that have them modelled.  A machine is *)
(* one of the two: RealView (module Gic) or OVP (module Aic).  The other   *)
(* stays as it was before set-up.                                          *)
(***************************************************************************)
EXTENDS Gic, Sequences

CONSTANTS
  OVP_IRQ_COUNT, AIC_IRQ_NUM_TIMER1,
  OvpDevices, OvpNumbers, OvpPriorities

VARIABLES
  board,
  o_at, o_tick_handler, o_timer_on, o_line, o_svr, o_enabled, o_prio, o_in_service, o_wanted

ovp == <<o_at, o_tick_handler, o_timer_on, o_line, o_svr, o_enabled, o_prio, o_in_service, o_wanted>>

Ovp == INSTANCE Aic WITH
  IRQ_COUNT <- OVP_IRQ_COUNT,
  Devices <- OvpDevices, Numbers <- OvpNumbers, Priorities <- OvpPriorities,
  at <- o_at, tick_handler <- o_tick_handler, timer_on <- o_timer_on, line <- o_line,
  svr <- o_svr, enabled <- o_enabled, prio <- o_prio, in_service <- o_in_service, wanted <- o_wanted

BoardInit == board \in {"realview", "ovp"} /\ Init /\ Ovp!Init

BoardNext ==
  \/ board = "realview" /\ Next /\ UNCHANGED <<board, ovp>>
  \/ board = "ovp" /\ Ovp!Next /\ UNCHANGED <<board, vars>>

BoardSpec == BoardInit /\ [][BoardNext]_<<board, vars, ovp>>

FairBoardSpec ==
  /\ BoardSpec
  /\ (board = "realview" => Fairness)
  /\ (board = "ovp" => Ovp!Fairness)

-----------------------------------------------------------------------------
(* Properties of the OVP board.                                            *)

\* A handler runs for the interrupt that was acknowledged, one at a time and
\* with nothing left in service, and what drivers enable stays enabled
\* (soc_interrupt_vector.S:44-73).
OvpHandlers == Ovp!HandlerHasCause /\ Ovp!StaysEnabled

\* With orderly drivers each expiry of the timer is handled.
OvpTickServed == Ovp!TickServed
=============================================================================
