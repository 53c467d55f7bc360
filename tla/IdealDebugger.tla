--------------------------- MODULE IdealDebugger ---------------------------
(***************************************************************************)
(* What a user expects of a debugger: a set of breakpoints that only the   *)
(* user changes, and commands that let the program run until one of them.  *)
(* The first instruction of a command may be one with a breakpoint, or the *)
(* program would never get past it.                                        *)
(***************************************************************************)

CONSTANTS
  Address,    \* the instructions of the program
  Place,      \* where the user sets breakpoints
  Successor   \* where each may go next; nowhere if it ends the program

VARIABLES
  breakpoints,
  pc,
  ended,      \* the program has ended
  session,    \* "idle", "busy" with a command, or "over"
  fresh       \* no command has run an instruction yet

vars == <<breakpoints, pc, ended, session, fresh>>

Init ==
  /\ breakpoints = {}
  /\ pc \in Address
  /\ ended = FALSE
  /\ session = "idle"
  /\ fresh = TRUE

Toggle(a) ==
  /\ session = "idle"
  /\ breakpoints' = IF a \in breakpoints THEN breakpoints \ {a} ELSE breakpoints \union {a}
  /\ UNCHANGED <<pc, ended, session, fresh>>

Command ==
  /\ session = "idle"
  /\ session' = "busy"
  /\ UNCHANGED <<breakpoints, pc, ended, fresh>>

\* An instruction, which may be the last one the command runs.
Execute ==
  /\ session = "busy" /\ ~ended
  /\ pc \in breakpoints => fresh
  /\ \/ pc' \in Successor[pc] /\ ended' = FALSE
     \/ Successor[pc] = {} /\ pc' = pc /\ ended' = TRUE
  /\ session' \in {"idle", "busy", "over"} /\ session' = "over" => ended'
  /\ fresh' = (session' # "busy")
  /\ UNCHANGED breakpoints

Return ==
  /\ session = "busy" /\ session' = "idle" /\ fresh' = TRUE
  /\ UNCHANGED <<breakpoints, pc, ended>>

Leave ==
  /\ session # "over" /\ session' = "over" /\ fresh' = TRUE
  /\ UNCHANGED <<breakpoints, pc, ended>>

Next == (\E a \in Place : Toggle(a)) \/ Command \/ Execute \/ Return \/ Leave

Spec == Init /\ [][Next]_vars
=============================================================================
