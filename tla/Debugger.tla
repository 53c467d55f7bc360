------------------------------ MODULE Debugger ------------------------------
(***************************************************************************)
(* The command loop of the debugger (simulation/ovp_common/debugger.c):    *)
(* its list of breakpoints and the commands that run the program.  The     *)
(* simulator behind it keeps breakpoints of its own, stops before an       *)
(* instruction that has one, and counts instructions down when asked to.   *)
(***************************************************************************)
EXTENDS Integers, FiniteSets, Functions

CONSTANTS
  Address, Successor,
  Mode,        \* Mode[a]: the processor mode the instruction at a runs in
  Kind,        \* Kind[a]: what the disassembler calls it
  Node,        \* the memory malloc has for breakpoints
  Number,      \* the numbers a user may type
  MAX_CYCLES

null == "null"

ASSUME DebuggerAssumption ==
  /\ Address \subseteq {n \in Nat : n % 4 = 0}
  /\ Successor \in [Address -> SUBSET Address]
  /\ DOMAIN Mode = Address /\ DOMAIN Kind = Address
  /\ null \notin Node /\ IsFiniteSet(Node)
  /\ Number \subseteq Nat
  /\ MAX_CYCLES \in Nat \ {0}

VARIABLES
  at,        \* the prompt, the command that runs, or the end
  bp,        \* the breakpoints: list and simulator
  pc, ended, \* the program
  i,         \* the loop counter of the command
  arg,       \* its argument
  start_pc, mode, \* what a command remembers of the state it started in
  icount,    \* the simulator's instruction count, 0 when off
  ran        \* instructions the command has run, as far as MAX_CYCLES

command == <<i, arg, start_pc, mode, icount, ran>>
vars == <<at, bp, pc, ended, command>>

-----------------------------------------------------------------------------
(* The list of breakpoints.                                                *)

\* The node reached from bp_root in k steps.
walk(b) == LET node[k \in 0 .. Cardinality(Node)] ==
                 IF k = 0 THEN b.root
                 ELSE IF node[k-1] = null THEN null ELSE b.next[node[k-1]]
           IN node
listed(b) == {walk(b)[k] : k \in 0 .. Cardinality(Node)} \ {null}

findBreakpoint(b, a) == {n \in listed(b) : b.adr[n] = a}
isBreakpoint(b, a) == findBreakpoint(b, a) # {}

\* What was in freed memory is not looked at again.
free(b, n) == [b EXCEPT !.adr[n] = 0, !.next[n] = null, !.prev[n] = null, !.used = @ \ {n}]

\* Mutant: the node that follows keeps its link to the freed one.
removeBreakpoint_dangling(b, a) ==
  IF ~isBreakpoint(b, a) THEN b
  ELSE LET n == CHOOSE x \in findBreakpoint(b, a) : TRUE
       IN free([b EXCEPT !.icm = @ \ {a},
                         !.next = IF b.prev[n] # null THEN [@ EXCEPT ![b.prev[n]] = b.next[n]] ELSE @,
                         !.root = IF b.prev[n] # null THEN @ ELSE b.next[n]], n)

removeBreakpoint(b, a) ==
  IF ~isBreakpoint(b, a) THEN b
  ELSE LET n == CHOOSE x \in findBreakpoint(b, a) : TRUE
       IN free([b EXCEPT !.icm = @ \ {a},
                         !.prev = IF b.next[n] # null THEN [@ EXCEPT ![b.next[n]] = b.prev[n]] ELSE @,
                         !.next = IF b.prev[n] # null THEN [@ EXCEPT ![b.prev[n]] = b.next[n]] ELSE @,
                         !.root = IF b.prev[n] # null THEN @ ELSE b.next[n]], n)

setBreakpoint(b, a) ==
  IF isBreakpoint(b, a) \/ Node \subseteq b.used THEN b
  ELSE LET n == CHOOSE x \in Node \ b.used : TRUE
       IN [b EXCEPT !.icm = @ \union {a},
                    !.adr[n] = a,
                    !.next[n] = b.root,
                    !.prev = IF b.root # null THEN [@ EXCEPT ![b.root] = n] ELSE @,
                    !.root = n,
                    !.used = @ \union {n}]

-----------------------------------------------------------------------------
(* The simulator.                                                          *)

\* What it may answer when asked to run one instruction.
icmSimulate(stops) ==
  IF ended THEN {[reason |-> "EXIT", pc |-> pc]}
  ELSE IF pc \in stops THEN {[reason |-> "BP_ADDRESS", pc |-> pc]}
  ELSE IF Successor[pc] = {} THEN {[reason |-> "EXIT", pc |-> pc]}
  ELSE {[reason |-> IF icount = 1 THEN "BP_ICOUNT" ELSE "SCHED", pc |-> a] : a \in Successor[pc]}

executes(r) == ~ended /\ r.reason # "BP_ADDRESS"

\* The program after answer r.
simulated(r) == pc' = r.pc /\ ended' = (r.reason = "EXIT")

isSimulationEnded(r) == r.reason = "EXIT"

\* Mutant: the breakpoint is not set again.
run_one_cycle_forgets(bypass, r) ==
  LET stopped == ~ended /\ pc \in bp.icm
  IN /\ r \in icmSimulate(IF stopped /\ bypass THEN bp.icm \ {pc} ELSE bp.icm)
     /\ bp' = IF stopped /\ bypass THEN removeBreakpoint(bp, pc) ELSE bp
     /\ simulated(r)

\* One instruction; bypass takes the breakpoint at pc away for the time of it.
run_one_cycle(bypass, r) ==
  LET stopped == ~ended /\ pc \in bp.icm
      without == removeBreakpoint(bp, pc)
  IN /\ r \in icmSimulate(IF stopped /\ bypass THEN without.icm ELSE bp.icm)
     /\ bp' = IF stopped /\ bypass /\ isBreakpoint(bp, pc) THEN setBreakpoint(without, pc) ELSE bp
     /\ simulated(r)

Answers == [reason : {"EXIT", "BP_ADDRESS", "BP_ICOUNT", "SCHED"}, pc : Address]

-----------------------------------------------------------------------------
(* Commands.  A search loop runs one instruction a step, because a signal  *)
(* may end the debugger between any two.                                   *)

Init ==
  /\ at = "prompt"
  /\ bp = [root |-> null, used |-> {}, icm |-> {}, adr |-> [n \in Node |-> 0],
           next |-> [n \in Node |-> null], prev |-> [n \in Node |-> null]]
  /\ pc \in Address /\ ended = FALSE
  /\ i = 0 /\ arg = 0 /\ start_pc = null /\ mode = null /\ icount = 0 /\ ran = 0

\* A command is read and its loop is entered with argument a.
enter(name, a, steps) ==
  /\ at = "prompt" /\ at' = name
  /\ i' = 0 /\ arg' = a /\ start_pc' = pc /\ mode' = Mode[pc] /\ icount' = steps /\ ran' = 0
  /\ UNCHANGED <<bp, pc, ended>>

\* Its variables are gone with it; the session ends if the simulation has.
leave(where) ==
  /\ at' = where
  /\ i' = 0 /\ arg' = 0 /\ start_pc' = null /\ mode' = null /\ icount' = 0 /\ ran' = 0

\* Mutant: the instruction run past a breakpoint is not counted.
goes_on_uncounted(r, where, turn) ==
  /\ at' = where /\ i' = turn
  /\ icount' = IF executes(r) /\ icount # 0 /\ at # "g_bypass" THEN icount - 1 ELSE icount
  /\ ran' = IF executes(r) /\ ran < MAX_CYCLES THEN ran + 1 ELSE ran
  /\ UNCHANGED <<arg, start_pc, mode>>

\* Mutant: the simulator's count is taken for the loop's.
goes_on_counts_turns(r, where, turn) ==
  /\ at' = where /\ i' = turn
  /\ icount' = icount - 1
  /\ ran' = IF executes(r) /\ ran < MAX_CYCLES THEN ran + 1 ELSE ran
  /\ UNCHANGED <<arg, start_pc, mode>>

\* The loop's next turn, after answer r.  The simulator counts if it was told to.
goes_on(r, where, turn) ==
  /\ at' = where /\ i' = turn
  /\ icount' = IF executes(r) /\ icount # 0 THEN icount - 1 ELSE icount
  /\ ran' = IF executes(r) /\ ran < MAX_CYCLES THEN ran + 1 ELSE ran
  /\ UNCHANGED <<arg, start_pc, mode>>

\* b: a number that is not a breakpoint yet sets one, and removes it otherwise.
doSetBreakPoint(n) ==
  LET adr == n - (n % 4)
  IN /\ at = "prompt"
     /\ bp' = IF isBreakpoint(bp, adr) THEN removeBreakpoint(bp, adr) ELSE setBreakpoint(bp, adr)
     /\ UNCHANGED <<at, pc, ended, command>>

\* n, N: without a number, one instruction.
doNextInstruction ==
  \/ \E count \in Number : enter("n", count, 0)
  \/ /\ at = "n" /\ i < arg
     /\ \E r \in Answers :
          /\ run_one_cycle(i = 0, r)
          /\ IF isSimulationEnded(r) THEN leave("exit") ELSE goes_on(r, at, i + 1)
  \/ at = "n" /\ i >= arg /\ leave("prompt") /\ UNCHANGED <<bp, pc, ended>>

\* Mutant: the loop's condition has "or" for "and".
doRunUntilModeChange_or ==
  \/ enter("c", 0, 0)
  \/ /\ at = "c"
     /\ \E r \in Answers :
          /\ run_one_cycle(i = 0, r)
          /\ IF isSimulationEnded(r) /\ Mode[r.pc] # mode THEN leave("exit") ELSE goes_on(r, at, 1)

\* c: only the first instruction is run past its breakpoint.
doRunUntilModeChange ==
  \/ enter("c", 0, 0)
  \/ /\ at = "c"
     /\ \E r \in Answers :
          /\ run_one_cycle(i = 0, r)
          /\ IF isSimulationEnded(r) THEN leave("exit")
             ELSE IF Mode[r.pc] # mode THEN leave("prompt") ELSE goes_on(r, at, 1)

\* Mutant: a stop at a breakpoint does not count as a cycle.
search_uncounted(name, found) ==
  \/ /\ at = name /\ i < MAX_CYCLES /\ ~found
     /\ \E r \in icmSimulate(bp.icm) :
          /\ simulated(r)
          /\ IF isSimulationEnded(r) THEN leave("exit")
             ELSE goes_on(r, at, IF r.reason = "BP_ADDRESS" THEN i ELSE i + 1)
     /\ UNCHANGED bp
  \/ at = name /\ (i = MAX_CYCLES \/ found) /\ leave("prompt") /\ UNCHANGED <<bp, pc, ended>>

\* The loop of f and u: nothing is run past a breakpoint, and reaching one
\* counts as a cycle.
search(name, found) ==
  \/ /\ at = name /\ i < MAX_CYCLES /\ ~found
     /\ \E r \in icmSimulate(bp.icm) :
          /\ simulated(r)
          /\ IF isSimulationEnded(r) THEN leave("exit") ELSE goes_on(r, at, i + 1)
     /\ UNCHANGED bp
  \/ at = name /\ (i = MAX_CYCLES \/ found) /\ leave("prompt") /\ UNCHANGED <<bp, pc, ended>>

doRunUntilInstruction ==
  \/ \E a \in Address : enter("f", Kind[a], 0)
  \/ search("f", i # 0 /\ Kind[pc] = arg)

doRunUntilPosition ==
  \/ \E adr \in Number : enter("u", adr, 0)
  \/ search("u", pc = arg)

\* g: the platform runs until a breakpoint or the count stops it.  A program
\* that ends stops it too, again and again: nothing here leaves the loop then.
doRun ==
  \/ \E steps \in (Number \ {0}) \union {MAX_CYCLES} : enter("g", steps, steps)
  \/ /\ at = "g"
     /\ \E r \in icmSimulate(bp.icm) :
          /\ simulated(r)
          /\ IF r.reason = "BP_ADDRESS" /\ r.pc = start_pc /\ i = 0 THEN goes_on(r, "g_bypass", 0)
             ELSE IF r.reason \in {"BP_ADDRESS", "BP_ICOUNT"} THEN leave("prompt")
             ELSE goes_on(r, at, IF r.reason = "EXIT" THEN 1 ELSE i)
     /\ UNCHANGED bp
  \/ /\ at = "g_bypass"
     /\ \E r \in Answers :
          /\ run_one_cycle(TRUE, r)
          /\ IF r.reason = "BP_ICOUNT" THEN leave("prompt") ELSE goes_on(r, "g", 1)

\* q, and the signal handler.
doTerminate == leave("exit") /\ UNCHANGED <<bp, pc, ended>>

quit == at = "prompt" /\ doTerminate
int_handler == at # "exit" /\ doTerminate
exited == at = "exit" /\ UNCHANGED vars

command_loop ==
  \/ doNextInstruction \/ doRunUntilModeChange \/ doRunUntilInstruction \/ doRunUntilPosition
  \/ doRun

Next ==
  \/ command_loop \/ quit \/ int_handler \/ exited
  \/ \E n \in Number : doSetBreakPoint(n)

Spec == Init /\ [][Next]_vars

\* The debugger is a program: inside a command it goes on.
FairSpec == Spec /\ WF_vars(at # "prompt" /\ command_loop)

-----------------------------------------------------------------------------
(* Properties.                                                             *)

TypeOK ==
  /\ at \in {"prompt", "n", "c", "f", "u", "g", "g_bypass", "exit"}
  /\ bp \in [root : Node \union {null}, used : SUBSET Node, icm : SUBSET Nat,
             adr : [Node -> Nat], next : [Node -> Node \union {null}],
             prev : [Node -> Node \union {null}]]
  /\ pc \in Address /\ ended \in BOOLEAN
  /\ i \in Nat /\ icount \in Nat /\ ran \in 0 .. MAX_CYCLES
  /\ at \notin {"prompt", "exit"} => start_pc \in Address /\ mode \in Range(Mode)

\* The list and the simulator have the same breakpoints, each once: whatever
\* was set, removed and bypassed, the links lead through all nodes in use and
\* back, and no node is lost.
ListWhole ==
  /\ listed(bp) = bp.used
  /\ walk(bp)[Cardinality(Node)] = null
  /\ bp.root # null => bp.prev[bp.root] = null
  /\ \A n \in bp.used : bp.next[n] # null => bp.prev[bp.next[n]] = n
  /\ \A n, m \in bp.used : bp.adr[n] = bp.adr[m] => n = m
  /\ bp.icm = {bp.adr[n] : n \in bp.used}

\* A session is one of the ideal debugger: the user alone changes what stops
\* the program, and no instruction with a breakpoint is run except as the first
\* of a command (run_one_cycle takes the breakpoint away only for that one).
Ideal == INSTANCE IdealDebugger WITH
  Place <- {n - (n % 4) : n \in Number},
  breakpoints <- bp.icm,
  session <- IF at = "prompt" THEN "idle" ELSE IF at = "exit" THEN "over" ELSE "busy",
  fresh <- ran = 0
IdealSpec == Ideal!Spec

\* A count given to n or g bounds what is run, whichever call of the simulator
\* runs it: the one that bypasses a breakpoint counts too.
CountKept == at \in {"n", "g", "g_bypass"} => ran <= arg

\* n gives the prompt back by its count, the searches by MAX_CYCLES, and g by its
\* count too unless the program ends under it: then its loop has no way out.
CountedReturn ==
  at \in {"n", "f", "u", "g"} ~> at \in {"prompt", "exit"} \/ (at = "g" /\ ended)

\* So does c without breakpoints, if the program keeps changing mode.
ModeChangeReached == (at = "c" /\ bp.icm = {}) ~> at \in {"prompt", "exit"}

CommandsReturn == CountedReturn /\ ModeChangeReached

\* The help text: "Next instruction until an ARM mode change is detected".
StopsAtModeChange == at = "c" ~> at \in {"prompt", "exit"}
=============================================================================
