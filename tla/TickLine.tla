------------------------------ MODULE TickLine ------------------------------
(***************************************************************************)
(* The timer interrupt as the hypervisor sees it: one line, which is high  *)
(* from an expiry of the timer until the tick handler runs.  There is no   *)
(* controller here: it promises not to lose, repeat or make up a tick.     *)
(***************************************************************************)

VARIABLES
  where,    \* outside the interrupt code, in its loop, or committed to the handler
  running,  \* whether the timer was started
  tick      \* the line

vars == <<where, running, tick>>

Init == where = "outside" /\ running = FALSE /\ tick = FALSE

Start  == running' = TRUE /\ UNCHANGED <<where, tick>>
Expire == running /\ tick' = TRUE /\ UNCHANGED <<where, running>>

\* The processor is interrupted, possibly for something else than a tick.
Enter  == where = "outside" /\ where' = "loop" /\ UNCHANGED <<running, tick>>

Commit == where = "loop" /\ tick /\ where' = "handler" /\ UNCHANGED <<running, tick>>

\* The handler runs and the line drops.
Serve  == where = "handler" /\ where' = "loop" /\ tick' = FALSE /\ UNCHANGED running

\* The loop is not left while the line is high.
Leave  == where = "loop" /\ ~tick /\ where' = "outside" /\ UNCHANGED <<running, tick>>

Next == Start \/ Expire \/ Enter \/ Commit \/ Serve \/ Leave

Spec == Init /\ [][Next]_vars
=============================================================================
