------------------------------- MODULE MCGic -------------------------------
(***************************************************************************)
(* The RealView board with the timer, one device with an entry in the      *)
(* table and one without; the OVP board with the timer and two devices.    *)
(***************************************************************************)
EXTENDS Boards

Others == {33, 120}
MoreOrLessUrgent == {5, 7}
\* A mask of 7 shuts out the less urgent device.
AboveTimer == {255, 7}
=============================================================================
