----------------------------- MODULE MCDebugger -----------------------------
(***************************************************************************)
(* A program of five instructions in two modes, with loops that all change *)
(* mode and a branch to its end; memory for three breakpoints.             *)
(***************************************************************************)
EXTENDS Debugger, TLC

CONSTANTS n1, n2, n3

Code == {0, 4, 8, 12, 16}
Branches == (0 :> {4}) @@ (4 :> {8, 12}) @@ (8 :> {12, 16}) @@ (12 :> {0, 4}) @@ (16 :> {})
ModeOf == [a \in Code |-> IF a < 8 THEN "svc" ELSE "usr"]
KindOf == (0 :> "mov") @@ (4 :> "ldr") @@ (8 :> "str") @@ (12 :> "mov") @@ (16 :> "ldr")
Memory == {n1, n2, n3}
=============================================================================
