------------------------------ MODULE Registers ------------------------------
(***************************************************************************)
(* The commands of the debugger that show registers (debugger.c): r, which *)
(* marks what changed since it was last given, and N, which prints what    *)
(* each instruction changes.                                               *)
(***************************************************************************)
EXTENDS Integers, Sequences

CONSTANTS
  Normal,  \* R0 to LR: what N looks at; r shows PC too
  Banked,  \* the registers of other modes
  Effects  \* what an instruction may write: functions from registers to values

\* The program status is the number of the mode it names.
user == 16
supervisor == 19
system == 31
Modes == {user, supervisor, system}
Shown == Normal \union {"CPSR", "SPSR"} \union Banked

VARIABLES
  at,     \* the prompt, or between two instructions of N
  regs,   \* the simulator's
  reg_values, reg_changed, reg_valid,
  work1, work2,
  before, \* what the simulator had when the last command or instruction began
  last,   \* what it had when each register was last read by r
  output

vars == <<at, regs, reg_values, reg_changed, reg_valid, work1, work2, before, last, output>>
r_only == <<reg_values, reg_changed, reg_valid, last>>

\* User and system mode have no saved status.
readable(x) == x = "SPSR" => regs["CPSR"] = supervisor

\* The registers r reads: none after the status in user mode.
visited == IF regs["CPSR"] = user THEN Normal \union {"CPSR"} ELSE Shown

\* What tmp holds after a read: a register that cannot be read leaves the value
\* of the one before, which for SPSR is CPSR.
tmp(x) == IF readable(x) THEN regs[x] ELSE regs["CPSR"]

doShowRegisters ==
  /\ at = "prompt"
  /\ reg_values' = [x \in Shown |-> IF x \in visited THEN tmp(x) ELSE reg_values[x]]
  /\ reg_changed' = [x \in Shown |-> IF x \in visited THEN tmp(x) # reg_values[x] ELSE reg_changed[x]]
  /\ reg_valid' = [x \in Shown |-> IF x \in visited THEN readable(x) ELSE reg_valid[x]]
  /\ before' = last
  /\ last' = [x \in Shown |-> IF x \in visited THEN regs[x] ELSE last[x]]
  /\ output' = [by |-> "r", lines |-> visited]
  /\ UNCHANGED <<at, regs, work1, work2>>

\* Mutant: the buffers are not exchanged.
work_registers_get_state_same(rs) == work1' = [x \in Normal |-> rs[x]] /\ UNCHANGED work2

\* The buffers are exchanged and the first is filled.
work_registers_get_state(rs) == work1' = [x \in Normal |-> rs[x]] /\ work2' = work1

work_registers_print_changed == {x \in Normal : work1'[x] # work2'[x]}

command_N ==
  /\ at = "prompt" /\ at' = "N"
  /\ work_registers_get_state(regs)
  /\ before' = regs /\ output' = [by |-> "N", lines |-> {}]
  /\ UNCHANGED <<regs, r_only>>

\* A turn of its loop; at a breakpoint the registers stay.
doNextInstruction(rs) ==
  /\ at = "N"
  /\ regs' = rs
  /\ work_registers_get_state(rs)
  /\ before' = regs
  /\ output' = [by |-> "N", lines |-> work_registers_print_changed]
  /\ UNCHANGED <<at, r_only>>

N_ends ==
  /\ at = "N" /\ at' = "prompt"
  /\ output' = [by |-> "none", lines |-> {}] /\ before' = last
  /\ UNCHANGED <<regs, work1, work2, r_only>>

\* Any other command that runs the program.
program_runs(rs) ==
  /\ at = "prompt" /\ regs' = rs
  /\ output' = [by |-> "none", lines |-> {}]
  /\ before' = last
  /\ UNCHANGED <<at, work1, work2, r_only>>

\* The initial value of reg_values, whose initialiser only reaches the first.
unseen == [x \in Shown |-> IF x = "R0" THEN -1 ELSE 0]

Init ==
  /\ at = "prompt" /\ regs = [x \in Shown |-> IF x = "CPSR" THEN supervisor ELSE 0]
  /\ reg_values = unseen /\ reg_changed = [x \in Shown |-> FALSE] /\ reg_valid = [x \in Shown |-> FALSE]
  /\ work1 = [x \in Normal |-> 0] /\ work2 = work1
  /\ before = unseen /\ last = unseen /\ output = [by |-> "none", lines |-> {}]

Results == {[x \in Shown |-> IF x \in DOMAIN e THEN e[x] ELSE regs[x]] : e \in Effects}

Next ==
  \/ doShowRegisters \/ command_N \/ N_ends
  \/ \E rs \in Results : doNextInstruction(rs) \/ program_runs(rs)

Spec == Init /\ [][Next]_vars

-----------------------------------------------------------------------------
(* Properties.                                                             *)

TypeOK ==
  /\ at \in {"prompt", "N"} /\ DOMAIN regs = Shown
  /\ reg_changed \in [Shown -> BOOLEAN] /\ reg_valid \in [Shown -> BOOLEAN]
  /\ output.lines \subseteq Shown

\* What r shows is what the simulator has, and it marks a register if that is
\* not what r showed of it the time before, however many commands and changes
\* of mode ago.  A register that cannot be read is not shown as a value, except
\* for the saved status.
ShownIsCurrent ==
  output.by = "r" =>
    \A x \in output.lines :
      x = "SPSR" \/ ( /\ reg_valid[x] /\ reg_values[x] = regs[x]
                      /\ reg_changed[x] = (regs[x] # before[x]))

\* N prints the registers the last instruction changed, those and no others,
\* whatever commands came between two of them.
ChangesPrinted ==
  output.by = "N" => output.lines = {x \in Normal : regs[x] # before[x]}

RegistersShown == ShownIsCurrent /\ ChangesPrinted
=============================================================================
