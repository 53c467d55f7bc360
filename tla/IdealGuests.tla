----------------------------- MODULE IdealGuests -----------------------------
(***************************************************************************)
(* What the hypervisor promises its guests: every virtual machine behaves  *)
(* as if it had a processor of its own.  A machine has two sets of         *)
(* registers, one for each guest mode, and a mailbox with room for one     *)
(* message.  There is no scheduler here, no trap, no context and no tick:  *)
(* what one machine does leaves the registers of the others alone, and the *)
(* only thing that passes from one to another is the word in the mailbox.  *)
(***************************************************************************)
EXTENDS Integers

CONSTANTS
  VMS, next, config,                      \* the machines, as in the hypervisor
  GuestMode, HC_GM_TASK, HC_GM_INTERRUPT  \* and the modes of each

VARIABLES
  reg,    \* reg[v][m]: the registers machine v has in mode m
  mode,   \* the mode a machine is in
  full,   \* whether its mailbox holds a message it has not been given
  inbox   \* the message

vars == <<reg, mode, full, inbox>>

EntryRegs(v, m) ==
  [r0  |-> 0,
   r1  |-> 0,
   sp  |-> IF m = HC_GM_TASK THEN config[v].guest_entry_sp ELSE config[v].interrupt_sp,
   pc  |-> IF m = HC_GM_TASK THEN config[v].guest_entry_point ELSE config[v].message_handler,
   psr |-> 16]

Init ==
  /\ reg = [v \in VMS |-> [m \in GuestMode |-> EntryRegs(v, m)]]
  /\ mode = [v \in VMS |-> HC_GM_TASK]
  /\ full = [v \in VMS |-> FALSE]
  /\ inbox = [v \in VMS |-> 0]

\* The machine computes: the registers of its mode change, its processor
\* status does not (a guest cannot mask interrupts).
Run(v) ==
  /\ \A w \in VMS, m \in GuestMode :
       <<w, m>> # <<v, mode[v]>> => reg'[w][m] = reg[w][m]
  /\ reg'[v][mode[v]].psr = reg[v][mode[v]].psr
  /\ UNCHANGED <<mode, full, inbox>>

\* r1 goes to the mailbox of the next machine, over whatever was in it.
Send(v) ==
  /\ full' = [full EXCEPT ![next[v]] = TRUE]
  /\ inbox' = [inbox EXCEPT ![next[v]] = reg[v][mode[v]].r1]
  /\ UNCHANGED <<reg, mode>>

\* A machine in TASK mode is interrupted with the message, once.
Deliver(v) ==
  LET im == config[v].interrupt_mode
  IN  /\ full[v]
      /\ mode[v] = HC_GM_TASK
      /\ full' = [full EXCEPT ![v] = FALSE]
      /\ mode' = [mode EXCEPT ![v] = im]
      /\ reg' = [reg EXCEPT ![v][im].pc = config[v].message_handler,
                            ![v][im].r0 = inbox[v]]
      /\ UNCHANGED inbox

\* The machine leaves one mode and goes on in the other where it left it.
Release(v) ==
  /\ mode' = [mode EXCEPT ![v] = IF @ = HC_GM_TASK THEN HC_GM_INTERRUPT ELSE HC_GM_TASK]
  /\ UNCHANGED <<reg, full, inbox>>

Next == \E v \in VMS : Run(v) \/ Send(v) \/ Deliver(v) \/ Release(v)

Spec == Init /\ [][Next]_vars
=============================================================================
