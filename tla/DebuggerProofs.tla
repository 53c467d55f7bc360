--------------------------- MODULE DebuggerProofs ---------------------------
(***************************************************************************)
(* Theorems about Debugger, for any program, any memory for breakpoints    *)
(* and any numbers: first what commands count, then the list of            *)
(* breakpoints, and with both the session.                                 *)
(***************************************************************************)
EXTENDS Debugger, FiniteSetTheorems, NumberFacts, TLAPS

-----------------------------------------------------------------------------
(* The counts.                                                             *)

CountTypeOK == i \in Nat /\ icount \in Nat /\ ran \in 0 .. MAX_CYCLES

\* n counts turns of its loop, some of which run nothing.
TurnsCounted == at = "n" => arg \in Nat /\ ran <= i /\ i <= arg

\* g has the simulator count: what has run and what is left make the argument,
\* and the count is on until the program ends.
StepsCounted ==
  at \in {"g", "g_bypass"} => arg \in Nat /\ ran + icount <= arg /\ (~ended => icount >= 1)

IInv == CountTypeOK /\ TurnsCounted /\ StepsCounted

\* What the counts need of the constants.
LEMMA Counts == MAX_CYCLES \in Nat /\ MAX_CYCLES # 0 /\ Number \subseteq Nat
BY DebuggerAssumption

LEMMA InitIInv == Init => IInv
BY Counts DEF Init, IInv, CountTypeOK, TurnsCounted, StepsCounted

\* Leaving a command forgets its counts.
LEMMA LeaveIInv ==
  ASSUME IInv, NEW where \in {"prompt", "exit"}, leave(where)
  PROVE  IInv'
BY Counts DEF leave, IInv, CountTypeOK, TurnsCounted, StepsCounted

\* A new command starts its counts at nothing.
LEMMA EnterIInv ==
  ASSUME IInv, NEW name, NEW a, NEW steps \in Nat, enter(name, a, steps),
         name = "n" => a \in Nat,
         name \in {"g", "g_bypass"} => a \in Nat /\ steps = a /\ a >= 1
  PROVE  IInv'
BY Counts DEF enter, IInv, CountTypeOK, TurnsCounted, StepsCounted

\* What the simulator's answers mean.  Only an instruction that is run lowers
\* the count, and never from one to zero without saying so.
LEMMA Answer ==
  ASSUME NEW stops, NEW r \in icmSimulate(stops), IInv
  PROVE  /\ r.reason = "SCHED" => ~ended /\ icount # 1
         /\ r.reason = "BP_ADDRESS" => ~ended
         /\ r.reason \in {"EXIT", "BP_ADDRESS", "BP_ICOUNT", "SCHED"}
<1>1. CASE ended
  BY <1>1 DEF icmSimulate
<1>2. CASE ~ended /\ pc \in stops
  BY <1>2 DEF icmSimulate
<1>3. CASE ~ended /\ pc \notin stops /\ Successor[pc] = {}
  BY <1>3 DEF icmSimulate
<1>4. CASE ~ended /\ pc \notin stops /\ Successor[pc] # {}
  <2>1. PICK a \in Successor[pc] :
          r = [reason |-> IF icount = 1 THEN "BP_ICOUNT" ELSE "SCHED", pc |-> a]
    BY <1>4 DEF icmSimulate
  <2> QED BY <1>4, <2>1
<1> QED BY <1>1, <1>2, <1>3, <1>4

\* A turn of a loop that does not count with the simulator.
LEMMA TurnIInv ==
  ASSUME IInv, NEW r, NEW turn \in Nat, goes_on(r, at, turn),
         at \in {"n", "c", "f", "u"},
         at = "n" => turn = i + 1 /\ i < arg
  PROVE  IInv'
<1>1. at' = at /\ i' = turn /\ arg' = arg
  BY DEF goes_on
<1>2. ran' \in 0 .. MAX_CYCLES /\ ran' <= ran + 1 /\ icount' \in Nat
  BY Counts DEF goes_on, IInv, CountTypeOK
<1> QED BY <1>1, <1>2, Counts DEF IInv, CountTypeOK, TurnsCounted, StepsCounted

\* One more has run, one less is left.
LEMMA OneMore ==
  ASSUME NEW x \in Nat, NEW y \in Nat, NEW m \in Nat, x + y <= m, y >= 1,
         NEW z \in Nat, z <= x + 1
  PROVE  y - 1 \in Nat /\ z + (y - 1) <= m
OBVIOUS

\* A turn of g, or its one call past a breakpoint.
LEMMA StepIInv ==
  ASSUME IInv, NEW stops, NEW r \in icmSimulate(stops), simulated(r),
         NEW where \in {"g", "g_bypass"}, NEW turn \in Nat, goes_on(r, where, turn),
         at \in {"g", "g_bypass"}, r.reason # "BP_ICOUNT"
  PROVE  IInv'
<1>1. at' = where /\ i' = turn /\ arg' = arg /\ ended' = (r.reason = "EXIT")
  BY DEF goes_on, simulated
<1>2. ended \/ icount >= 1
  BY DEF IInv, StepsCounted
<1>3. ran \in 0 .. MAX_CYCLES /\ icount \in Nat /\ arg \in Nat /\ ran + icount <= arg
  BY DEF IInv, CountTypeOK, StepsCounted
<1>4. CASE executes(r)
  <2>1. ~ended /\ icount >= 1
    BY <1>2, <1>4 DEF executes
  <2>2. icount' = icount - 1 /\ ran' \in 0 .. MAX_CYCLES /\ ran' <= ran + 1
    <3>1. icount' = icount - 1 /\ ran' = IF ran < MAX_CYCLES THEN ran + 1 ELSE ran
      BY <1>3, <1>4, <2>1 DEF goes_on
    <3> QED BY <1>3, <3>1, Counts
  <2>3. r.reason = "EXIT" \/ icount # 1
    BY <1>4, Answer DEF executes
  <2>4. icount' \in Nat /\ ran' + icount' <= arg
    <3>1. ran' \in Nat /\ ran \in Nat /\ icount \in Nat /\ icount >= 1 /\ arg \in Nat
      BY <1>3, <2>1, <2>2, Counts
    <3> QED BY <1>3, <2>2, <3>1, OneMore
  <2>5. ended' \/ icount' >= 1
    <3>1. CASE r.reason = "EXIT"
      BY <3>1, Zenon DEF simulated
    <3>2. CASE icount # 1
      <4>1. icount >= 1 /\ icount \in Nat /\ icount' = icount - 1
        BY <1>3, <2>1, <2>2
      <4> QED BY <3>2, <4>1
    <3> QED BY <2>3, <3>1, <3>2
  <2> QED BY <1>1, <1>3, <2>2, <2>4, <2>5 DEF IInv, CountTypeOK, TurnsCounted, StepsCounted
<1>5. CASE ~executes(r)
  <2>1. icount' = icount /\ ran' = ran
    BY <1>5 DEF goes_on
  <2>2. ended \/ r.reason = "BP_ADDRESS"
    BY <1>5 DEF executes
  <2>3. ended' \/ icount >= 1
    BY <1>1, <1>2, <2>2, Answer
  <2> QED BY <1>1, <1>3, <2>1, <2>3 DEF IInv, CountTypeOK, TurnsCounted, StepsCounted
<1> QED BY <1>4, <1>5

LEMMA NextInstructionIInv == ASSUME IInv, doNextInstruction PROVE IInv'
<1>1. CASE \E count \in Number : enter("n", count, 0)
  BY <1>1, EnterIInv, Counts
<1>2. CASE /\ at = "n" /\ i < arg
           /\ \E r \in Answers :
                /\ run_one_cycle(i = 0, r)
                /\ IF isSimulationEnded(r) THEN leave("exit") ELSE goes_on(r, at, i + 1)
  <2>1. PICK r \in Answers :
          /\ run_one_cycle(i = 0, r)
          /\ IF isSimulationEnded(r) THEN leave("exit") ELSE goes_on(r, at, i + 1)
    BY <1>2
  <2>2. i + 1 \in Nat
    BY DEF IInv, CountTypeOK
  <2>3. CASE leave("exit")
    BY <2>3, LeaveIInv
  <2>4. CASE goes_on(r, at, i + 1)
    BY <1>2, <2>2, <2>4, TurnIInv
  <2> QED BY <2>1, <2>3, <2>4
<1>3. CASE leave("prompt") /\ UNCHANGED <<bp, pc, ended>>
  BY <1>3, LeaveIInv
<1> QED BY <1>1, <1>2, <1>3 DEF doNextInstruction

LEMMA ModeChangeIInv == ASSUME IInv, doRunUntilModeChange PROVE IInv'
<1>1. CASE enter("c", 0, 0)
  BY <1>1, EnterIInv
<1>2. CASE /\ at = "c"
           /\ \E r \in Answers :
                /\ run_one_cycle(i = 0, r)
                /\ IF isSimulationEnded(r) THEN leave("exit")
                   ELSE IF Mode[r.pc] # mode THEN leave("prompt") ELSE goes_on(r, at, 1)
  <2>1. PICK r \in Answers :
          /\ run_one_cycle(i = 0, r)
          /\ leave("exit") \/ leave("prompt") \/ goes_on(r, at, 1)
    BY <1>2
  <2>2. CASE leave("exit") \/ leave("prompt")
    BY <2>2, LeaveIInv
  <2>3. CASE goes_on(r, at, 1)
    BY <1>2, <2>3, TurnIInv
  <2> QED BY <2>1, <2>2, <2>3
<1> QED BY <1>1, <1>2 DEF doRunUntilModeChange

LEMMA SearchIInv ==
  ASSUME IInv, NEW name \in {"f", "u"}, NEW found, search(name, found)
  PROVE  IInv'
<1>1. CASE /\ at = name
           /\ \E r \in icmSimulate(bp.icm) :
                /\ simulated(r)
                /\ IF isSimulationEnded(r) THEN leave("exit") ELSE goes_on(r, at, i + 1)
  <2>1. PICK r \in icmSimulate(bp.icm) :
          /\ simulated(r)
          /\ leave("exit") \/ goes_on(r, at, i + 1)
    BY <1>1
  <2>2. i + 1 \in Nat
    BY DEF IInv, CountTypeOK
  <2>3. CASE leave("exit")
    BY <2>3, LeaveIInv
  <2>4. CASE goes_on(r, at, i + 1)
    BY <1>1, <2>2, <2>4, TurnIInv
  <2> QED BY <2>1, <2>3, <2>4
<1>2. CASE leave("prompt") /\ UNCHANGED <<bp, pc, ended>>
  BY <1>2, LeaveIInv
<1> QED BY <1>1, <1>2 DEF search

LEMMA RunIInv == ASSUME IInv, doRun PROVE IInv'
<1>1. CASE \E steps \in (Number \ {0}) \union {MAX_CYCLES} : enter("g", steps, steps)
  <2>1. PICK steps \in (Number \ {0}) \union {MAX_CYCLES} : enter("g", steps, steps)
    BY <1>1
  <2>2. steps \in Nat /\ steps >= 1
    BY Counts
  <2> QED BY <2>1, <2>2, EnterIInv
<1>2. CASE /\ at = "g"
           /\ \E r \in icmSimulate(bp.icm) :
                /\ simulated(r)
                /\ IF r.reason = "BP_ADDRESS" /\ r.pc = start_pc /\ i = 0 THEN goes_on(r, "g_bypass", 0)
                   ELSE IF r.reason \in {"BP_ADDRESS", "BP_ICOUNT"} THEN leave("prompt")
                   ELSE goes_on(r, at, IF r.reason = "EXIT" THEN 1 ELSE i)
  <2>1. PICK r \in icmSimulate(bp.icm) :
          /\ simulated(r)
          /\ IF r.reason = "BP_ADDRESS" /\ r.pc = start_pc /\ i = 0 THEN goes_on(r, "g_bypass", 0)
             ELSE IF r.reason \in {"BP_ADDRESS", "BP_ICOUNT"} THEN leave("prompt")
             ELSE goes_on(r, at, IF r.reason = "EXIT" THEN 1 ELSE i)
    BY <1>2
  <2>2. CASE leave("prompt")
    BY <2>2, LeaveIInv
  <2>3. CASE r.reason # "BP_ICOUNT" /\ goes_on(r, "g_bypass", 0)
    BY <1>2, <2>1, <2>3, StepIInv
  <2>4. CASE r.reason # "BP_ICOUNT" /\ goes_on(r, "g", IF r.reason = "EXIT" THEN 1 ELSE i)
    <3>1. (IF r.reason = "EXIT" THEN 1 ELSE i) \in Nat
      BY DEF IInv, CountTypeOK
    <3> QED BY <1>2, <2>1, <2>4, <3>1, StepIInv
  <2> QED BY <1>2, <2>1, <2>2, <2>3, <2>4
<1>3. CASE /\ at = "g_bypass"
           /\ \E r \in Answers :
                /\ run_one_cycle(TRUE, r)
                /\ IF r.reason = "BP_ICOUNT" THEN leave("prompt") ELSE goes_on(r, "g", 1)
  <2>1. PICK r \in Answers :
          /\ run_one_cycle(TRUE, r)
          /\ IF r.reason = "BP_ICOUNT" THEN leave("prompt") ELSE goes_on(r, "g", 1)
    BY <1>3
  <2>2. simulated(r) /\ \E stops : r \in icmSimulate(stops)
    BY <2>1 DEF run_one_cycle
  <2>3. CASE leave("prompt")
    BY <2>3, LeaveIInv
  <2>4. CASE r.reason # "BP_ICOUNT" /\ goes_on(r, "g", 1)
    BY <1>3, <2>2, <2>4, StepIInv
  <2> QED BY <2>1, <2>3, <2>4
<1> QED BY <1>1, <1>2, <1>3 DEF doRun

LEMMA OtherIInv ==
  ASSUME IInv, quit \/ int_handler \/ exited \/ \E n \in Number : doSetBreakPoint(n)
  PROVE  IInv'
<1>1. CASE doTerminate
  BY <1>1, LeaveIInv DEF doTerminate
<1>2. CASE exited \/ \E n \in Number : doSetBreakPoint(n)
  BY <1>2 DEF exited, doSetBreakPoint, vars, command, IInv, CountTypeOK, TurnsCounted, StepsCounted
<1> QED BY <1>1, <1>2 DEF quit, int_handler

\* n and g never run more instructions than they were told to, through
\* whichever call of the simulator, and wherever breakpoints are.
THEOREM CountKeptCorrect == Spec => []CountKept
<1>1. IInv /\ [Next]_vars => IInv'
  <2> SUFFICES ASSUME IInv, [Next]_vars PROVE IInv'
    OBVIOUS
  <2>1. CASE doNextInstruction
    BY <2>1, NextInstructionIInv
  <2>2. CASE doRunUntilModeChange
    BY <2>2, ModeChangeIInv
  <2>3. CASE doRunUntilInstruction
    <3>1. CASE \E a \in Address : enter("f", Kind[a], 0)
      BY <3>1, EnterIInv
    <3> QED BY <2>3, <3>1, SearchIInv DEF doRunUntilInstruction
  <2>4. CASE doRunUntilPosition
    <3>1. CASE \E adr \in Number : enter("u", adr, 0)
      BY <3>1, EnterIInv
    <3> QED BY <2>4, <3>1, SearchIInv DEF doRunUntilPosition
  <2>5. CASE doRun
    BY <2>5, RunIInv
  <2>6. CASE quit \/ int_handler \/ exited \/ \E n \in Number : doSetBreakPoint(n)
    BY <2>6, OtherIInv
  <2>7. CASE UNCHANGED vars
    BY <2>7 DEF vars, command, IInv, CountTypeOK, TurnsCounted, StepsCounted
  <2> QED BY <2>1, <2>2, <2>3, <2>4, <2>5, <2>6, <2>7 DEF Next, command_loop
<1>2. IInv => CountKept
  <2> SUFFICES ASSUME IInv, at \in {"n", "g", "g_bypass"} PROVE ran <= arg
    BY DEF CountKept
  <2>1. ran \in Nat /\ i \in Nat /\ icount \in Nat
    BY Counts DEF IInv, CountTypeOK
  <2>2. CASE at = "n"
    BY <2>1, <2>2 DEF IInv, TurnsCounted
  <2>3. CASE at \in {"g", "g_bypass"}
    BY <2>1, <2>3 DEF IInv, StepsCounted
  <2> QED BY <2>2, <2>3
<1> QED BY <1>1, <1>2, InitIInv, PTL DEF Spec

-----------------------------------------------------------------------------
(* The list of breakpoints.                                                *)

BpType == [root : Node \union {null}, used : SUBSET Node, icm : SUBSET Nat,
           adr : [Node -> Nat], next : [Node -> Node \union {null}],
           prev : [Node -> Node \union {null}]]

\* s is the list from its root: the nodes in use, each once and linked both
\* ways.  A node that is free has no predecessor, which setBreakpoint relies on.
Chain(b, L, s) ==
  /\ b.root = IF L = 0 THEN null ELSE s[1]
  /\ b.used = {s[k] : k \in 1 .. L}
  /\ \A j, k \in 1 .. L : s[j] = s[k] => j = k
  /\ \A k \in 1 .. L : b.next[s[k]] = IF k = L THEN null ELSE s[k+1]
  /\ \A k \in 1 .. L : b.prev[s[k]] = IF k = 1 THEN null ELSE s[k-1]
  /\ \A n \in Node \ b.used : b.prev[n] = null

\* The simulator has the breakpoints of the list, and the list has each once.
Agreed(b) ==
  /\ \A n, m \in b.used : b.adr[n] = b.adr[m] => n = m
  /\ b.icm = {b.adr[n] : n \in b.used}

Linked(b) ==
  /\ b \in BpType /\ Agreed(b)
  /\ \E L \in Nat : \E s \in [1 .. L -> Node] : Chain(b, L, s)

LEMMA Nodes == null \notin Node /\ IsFiniteSet(Node) /\ Cardinality(Node) \in Nat
<1>1. null \notin Node /\ IsFiniteSet(Node)
  BY DebuggerAssumption
<1> QED BY <1>1, FS_CardinalityType

\* No list is longer than the memory for it.
LEMMA ChainFits ==
  ASSUME NEW b, NEW L \in Nat, NEW s \in [1 .. L -> Node], Chain(b, L, s)
  PROVE  L <= Cardinality(Node)
<1>1. s \in Injection(1 .. L, Node)
  BY DEF Chain, Injection, IsInjective
<1>2. Cardinality(1 .. L) <= Cardinality(Node)
  BY <1>1, Nodes, FS_Injection
<1>3. Cardinality(1 .. L) = L
  BY FS_Interval
<1> QED BY <1>2, <1>3

\* The node k links away from the root of the list.
Reached(L, s, k) == IF k < L THEN s[k+1] ELSE null

LEMMA OneLink ==
  ASSUME NEW b, NEW L \in Nat, NEW s \in [1 .. L -> Node], Chain(b, L, s)
  PROVE  /\ b.root = Reached(L, s, 0)
         /\ \A k \in Nat \ {0} :
              Reached(L, s, k) = IF Reached(L, s, k-1) = null THEN null ELSE b.next[Reached(L, s, k-1)]
<1>1. b.root = Reached(L, s, 0)
  BY DEF Chain, Reached
<1>2. ASSUME NEW k \in Nat \ {0}
      PROVE  Reached(L, s, k) = IF Reached(L, s, k-1) = null THEN null ELSE b.next[Reached(L, s, k-1)]
  <2>1. CASE k <= L
    <3>1. k \in 1 .. L /\ Reached(L, s, k-1) = s[k] /\ s[k] \in Node
      BY <2>1 DEF Reached
    <3>2. b.next[s[k]] = IF k = L THEN null ELSE s[k+1]
      BY <3>1 DEF Chain
    <3> QED BY <2>1, <3>1, <3>2, Nodes DEF Reached
  <2>2. CASE k > L
    BY <2>2 DEF Reached
  <2> QED BY <2>1, <2>2
<1> QED BY <1>1, <1>2

\* One turn of walk's recursion.
Turn(b, W, k) == IF k = 0 THEN b.root ELSE IF W[k-1] = null THEN null ELSE b.next[W[k-1]]

LEMMA WalkExists ==
  ASSUME NEW b, NEW W, W = [k \in 0 .. Cardinality(Node) |-> Turn(b, W, k)]
  PROVE  walk(b) = [k \in 0 .. Cardinality(Node) |-> Turn(b, walk(b), k)]
BY Zenon DEF walk, Turn

\* walk follows the list.
LEMMA WalkChain ==
  ASSUME NEW b, NEW L \in Nat, NEW s \in [1 .. L -> Node], Chain(b, L, s)
  PROVE  \A k \in 0 .. Cardinality(Node) : walk(b)[k] = Reached(L, s, k)
<1> DEFINE N == Cardinality(Node)
           W == [k \in 0 .. N |-> Reached(L, s, k)]
<1>1. \A k \in 0 .. N : Reached(L, s, k) = Turn(b, W, k)
  <2> SUFFICES ASSUME NEW k \in 0 .. N PROVE Reached(L, s, k) = Turn(b, W, k)
    OBVIOUS
  <2>1. CASE k = 0
    BY <2>1, OneLink DEF Turn
  <2>2. CASE k # 0
    <3>1. k \in Nat \ {0} /\ k - 1 \in 0 .. N
      BY <2>2, Nodes
    <3>2. W[k-1] = Reached(L, s, k-1)
      BY <3>1
    <3> QED BY <2>2, <3>1, <3>2, OneLink, ZenonT(40) DEF Turn
  <2> QED BY <2>1, <2>2
<1>2. W = [k \in 0 .. N |-> Turn(b, W, k)]
  BY <1>1
<1> HIDE DEF W
<1>3. walk(b) = [k \in 0 .. N |-> Turn(b, walk(b), k)]
  BY <1>2, WalkExists
<1> DEFINE Astray == {k \in 0 .. N : walk(b)[k] # Reached(L, s, k)}
<1>4. SUFFICES ASSUME Astray # {} PROVE FALSE
  OBVIOUS
<1>5. PICK k \in Astray : \A j \in Astray : k <= j
  <2> HIDE DEF N
  <2>1. Astray \subseteq Nat
    OBVIOUS
  <2> HIDE DEF Astray
  <2> QED BY <1>4, <2>1, Least
<1>6. k \in 0 .. N /\ walk(b)[k] # Reached(L, s, k) /\ walk(b)[k] = Turn(b, walk(b), k)
  BY <1>3
<1>7. CASE k = 0
  BY <1>6, <1>7, OneLink DEF Turn
<1>8. CASE k # 0
  <2>1. k \in Nat \ {0} /\ k - 1 \in 0 .. N /\ ~ (k <= k - 1)
    BY <1>6, <1>8, Nodes
  <2>2. walk(b)[k-1] = Reached(L, s, k-1)
    BY <1>5, <2>1
  <2>3. walk(b)[k] = IF Reached(L, s, k-1) = null THEN null ELSE b.next[Reached(L, s, k-1)]
    BY <1>6, <1>8, <2>2, Zenon DEF Turn
  <2>4. Reached(L, s, k) = IF Reached(L, s, k-1) = null THEN null ELSE b.next[Reached(L, s, k-1)]
    BY <2>1, OneLink, SMTT(20)
  <2> QED BY <1>6, <2>3, <2>4, Zenon
<1> QED BY <1>7, <1>8

\* So the nodes found by following the links are those in use.
LEMMA ListedChain ==
  ASSUME NEW b, Linked(b)
  PROVE  listed(b) = b.used /\ walk(b)[Cardinality(Node)] = null
<1>1. PICK L \in Nat : \E s \in [1 .. L -> Node] : Chain(b, L, s)
  BY DEF Linked
<1>2. PICK s \in [1 .. L -> Node] : Chain(b, L, s)
  BY <1>1
<1>3. L <= Cardinality(Node)
  BY <1>2, ChainFits
<1>4. \A k \in 0 .. Cardinality(Node) : walk(b)[k] = Reached(L, s, k)
  BY <1>2, WalkChain
<1>5. listed(b) = {Reached(L, s, k) : k \in 0 .. Cardinality(Node)} \ {null}
  BY <1>4 DEF listed
<1>6. b.used = {s[k] : k \in 1 .. L}
  BY <1>2 DEF Chain
<1>7. ASSUME NEW n \in listed(b) PROVE n \in b.used
  <2>1. PICK k \in 0 .. Cardinality(Node) : n = Reached(L, s, k) /\ n # null
    BY <1>5
  <2>2. k + 1 \in 1 .. L /\ n = s[k+1]
    BY <2>1, Nodes DEF Reached
  <2> QED BY <1>6, <2>2
<1>8. ASSUME NEW n \in b.used PROVE n \in listed(b)
  <2>1. PICK k \in 1 .. L : n = s[k]
    BY <1>6
  <2>2. k - 1 \in 0 .. Cardinality(Node) /\ n = Reached(L, s, k-1)
    BY <1>3, <2>1, Nodes DEF Reached
  <2>3. n # null
    BY <2>1, Nodes
  <2> QED BY <1>5, <2>2, <2>3
<1>9. walk(b)[Cardinality(Node)] = null
  BY <1>3, <1>4, Nodes DEF Reached
<1> QED BY <1>7, <1>8, <1>9

\* setBreakpoint puts a new node in front.
LEMMA Prepend ==
  ASSUME NEW b \in BpType, NEW L \in Nat, NEW s \in [1 .. L -> Node], Chain(b, L, s),
         NEW n \in Node \ b.used, NEW c \in BpType,
         c.root = n, c.used = b.used \union {n},
         c.next = [b.next EXCEPT ![n] = b.root],
         c.prev = IF b.root # null THEN [b.prev EXCEPT ![b.root] = n] ELSE b.prev
  PROVE  \E t \in [1 .. L+1 -> Node] : Chain(c, L+1, t)
<1> DEFINE t == [k \in 1 .. L+1 |-> IF k = 1 THEN n ELSE s[k-1]]
<1>1. t \in [1 .. L+1 -> Node] /\ t[1] = n /\ \A k \in 1 .. L : k + 1 \in 1 .. L+1 /\ t[k+1] = s[k]
  OBVIOUS
<1>2. \A k \in 1 .. L+1 : k = 1 \/ \E j \in 1 .. L : k = j + 1
  <2> SUFFICES ASSUME NEW k \in 1 .. L+1, k # 1 PROVE \E j \in 1 .. L : k = j + 1
    OBVIOUS
  <2>1. k - 1 \in 1 .. L /\ k = (k - 1) + 1
    OBVIOUS
  <2> QED BY <2>1
<1> HIDE DEF t
<1>3. b.used = {s[k] : k \in 1 .. L} /\ \A k \in 1 .. L : s[k] \in Node /\ s[k] # n
  BY DEF Chain
<1>4. b.next \in [Node -> Node \union {null}] /\ b.prev \in [Node -> Node \union {null}]
  BY DEF BpType
<1>5. c.root = t[1] /\ c.used = {t[k] : k \in 1 .. L+1}
  <2>1. {t[k] : k \in 1 .. L+1} = {s[k] : k \in 1 .. L} \union {n}
    <3>1. \A k \in 1 .. L+1 : t[k] \in {s[j] : j \in 1 .. L} \union {n}
      BY <1>1, <1>2
    <3>2. n \in {t[k] : k \in 1 .. L+1}
      <4>1. 1 \in 1 .. L+1
        OBVIOUS
      <4> QED BY <1>1, <4>1
    <3>3. \A j \in 1 .. L : s[j] \in {t[k] : k \in 1 .. L+1}
      BY <1>1
    <3> QED BY <3>1, <3>2, <3>3
  <2> QED BY <1>1, <1>3, <2>1
<1>6. \A j, k \in 1 .. L+1 : t[j] = t[k] => j = k
  <2> SUFFICES ASSUME NEW j \in 1 .. L+1, NEW k \in 1 .. L+1, t[j] = t[k] PROVE j = k
    OBVIOUS
  <2>1. CASE j = 1 \/ k = 1
    <3>1. ASSUME NEW x \in 1 .. L+1, x # 1 PROVE t[x] # n
      <4>1. PICK y \in 1 .. L : x = y + 1
        BY <1>2, <3>1
      <4> QED BY <1>1, <1>3, <4>1
    <3> QED BY <1>1, <2>1, <3>1
  <2>2. CASE j # 1 /\ k # 1
    <3>1. PICK x \in 1 .. L, y \in 1 .. L : j = x + 1 /\ k = y + 1
      BY <1>2, <2>2
    <3> QED BY <1>1, <3>1, SMTT(20) DEF Chain
  <2> QED BY <2>1, <2>2
<1>7. b.root = IF L = 0 THEN null ELSE s[1]
  BY DEF Chain
<1>8. \A k \in 1 .. L+1 : c.next[t[k]] = IF k = L+1 THEN null ELSE t[k+1]
  <2> SUFFICES ASSUME NEW k \in 1 .. L+1 PROVE c.next[t[k]] = IF k = L+1 THEN null ELSE t[k+1]
    OBVIOUS
  <2>1. CASE k = 1
    <3>1. c.next[t[k]] = b.root
      BY <1>1, <1>4, <2>1
    <3>2. L = 0 \/ (1 \in 1 .. L /\ t[k+1] = s[1])
      BY <1>1, <2>1
    <3> QED BY <1>7, <2>1, <3>1, <3>2
  <2>2. CASE k # 1
    <3>1. PICK j \in 1 .. L : k = j + 1
      BY <1>2, <2>2
    <3>2. c.next[t[k]] = b.next[s[j]]
      BY <1>1, <1>3, <1>4, <3>1
    <3>3. b.next[s[j]] = IF j = L THEN null ELSE s[j+1]
      BY DEF Chain
    <3>4. j = L \/ (k \in 1 .. L /\ t[k+1] = s[j+1])
      BY <1>1, <3>1
    <3> QED BY <3>1, <3>2, <3>3, <3>4
  <2> QED BY <2>1, <2>2
<1>9. \A k \in 1 .. L+1 : c.prev[t[k]] = IF k = 1 THEN null ELSE t[k-1]
  <2> SUFFICES ASSUME NEW k \in 1 .. L+1 PROVE c.prev[t[k]] = IF k = 1 THEN null ELSE t[k-1]
    OBVIOUS
  <2>1. CASE k = 1
    <3>1. b.root # n /\ b.prev[n] = null
      BY <1>3, <1>7, Nodes DEF Chain
    <3> QED BY <1>1, <1>4, <2>1, <3>1
  <2>2. CASE k # 1
    <3>1. PICK j \in 1 .. L : k = j + 1
      BY <1>2, <2>2
    <3>2. b.prev[s[j]] = IF j = 1 THEN null ELSE s[j-1]
      BY DEF Chain
    <3>3. b.root = s[1] /\ b.root # null /\ (j # 1 => s[j] # s[1])
      <4>1. 1 \in 1 .. L /\ L # 0
        OBVIOUS
      <4> QED BY <1>3, <1>7, <4>1, Nodes DEF Chain
    <3>4. CASE j = 1
      BY <1>1, <1>3, <1>4, <3>1, <3>3, <3>4
    <3>5. CASE j # 1
      <4>1. c.prev[s[j]] = s[j-1]
        BY <1>3, <1>4, <3>2, <3>3, <3>5
      <4>2. t[k] = s[j] /\ t[k-1] = s[j-1]
        <5>1. j - 1 \in 1 .. L /\ k - 1 = (j - 1) + 1
          BY <3>1, <3>5
        <5> QED BY <1>1, <3>1, <5>1
      <4> QED BY <2>2, <4>1, <4>2
    <3> QED BY <3>4, <3>5
  <2> QED BY <2>1, <2>2
<1>10. \A m \in Node \ c.used : c.prev[m] = null
  <2> SUFFICES ASSUME NEW m \in Node \ c.used PROVE c.prev[m] = null
    OBVIOUS
  <2>1. m # b.root
    <3>1. L # 0 => 1 \in 1 .. L
      OBVIOUS
    <3> QED BY <1>3, <1>7, <3>1, Nodes
  <2>2. b.prev[m] = null
    BY DEF Chain
  <2> QED BY <1>4, <2>1, <2>2
<1>11. c.root = IF L+1 = 0 THEN null ELSE t[1]
  <2>1. L+1 # 0
    OBVIOUS
  <2> QED BY <1>5, <2>1
<1>12. Chain(c, L+1, t)
  <2>1. c.used = {t[k] : k \in 1 .. L+1}
    BY <1>5
  <2> QED BY <1>6, <1>8, <1>9, <1>10, <1>11, <2>1, Zenon DEF Chain
<1> QED BY <1>1, <1>12, Zenon

\* c is b without node n.
Unlinked(b, n, c) ==
  /\ c.root = IF b.prev[n] # null THEN b.root ELSE b.next[n]
  /\ c.used = b.used \ {n}
  /\ c.next = [IF b.prev[n] # null THEN [b.next EXCEPT ![b.prev[n]] = b.next[n]] ELSE b.next
                 EXCEPT ![n] = null]
  /\ c.prev = [IF b.next[n] # null THEN [b.prev EXCEPT ![b.next[n]] = b.prev[n]] ELSE b.prev
                 EXCEPT ![n] = null]

\* removeBreakpoint links the neighbours of the node in place p to each other.
LEMMA Drop ==
  ASSUME NEW b \in BpType, NEW L \in Nat, NEW s \in [1 .. L -> Node], Chain(b, L, s),
         NEW p \in 1 .. L, NEW c \in BpType, Unlinked(b, s[p], c)
  PROVE  \E t \in [1 .. L-1 -> Node] : Chain(c, L-1, t)
<1> DEFINE n == s[p]
<1>1. n = s[p]
  OBVIOUS
<1> HIDE DEF n
<1>2. /\ c.root = IF b.prev[n] # null THEN b.root ELSE b.next[n]
      /\ c.used = b.used \ {n}
      /\ c.next = [IF b.prev[n] # null THEN [b.next EXCEPT ![b.prev[n]] = b.next[n]] ELSE b.next
                     EXCEPT ![n] = null]
      /\ c.prev = [IF b.next[n] # null THEN [b.prev EXCEPT ![b.next[n]] = b.prev[n]] ELSE b.prev
                     EXCEPT ![n] = null]
  BY <1>1 DEF Unlinked
<1> USE <1>1, <1>2
<1> DEFINE t == [k \in 1 .. L-1 |-> IF k < p THEN s[k] ELSE s[k+1]]
<1>3. /\ t \in [1 .. L-1 -> Node]
      /\ \A k \in 1 .. L-1 : k < p => k \in 1 .. L /\ t[k] = s[k]
      /\ \A k \in 1 .. L-1 : k >= p => k + 1 \in 1 .. L /\ t[k] = s[k+1]
  OBVIOUS
<1> HIDE DEF t
<1>4. /\ \A j, k \in 1 .. L : s[j] = s[k] => j = k
      /\ \A k \in 1 .. L : s[k] \in Node /\ s[k] # null
      /\ b.used = {s[k] : k \in 1 .. L}
      /\ b.root = s[1]
  <2>1. L # 0
    OBVIOUS
  <2> QED BY <2>1, Nodes DEF Chain
<1>5. b.next \in [Node -> Node \union {null}] /\ b.prev \in [Node -> Node \union {null}]
  BY DEF BpType
<1>6. /\ \A k \in 1 .. L : b.next[s[k]] = IF k = L THEN null ELSE s[k+1]
      /\ \A k \in 1 .. L : b.prev[s[k]] = IF k = 1 THEN null ELSE s[k-1]
  BY DEF Chain
<1>7. /\ p = L => b.next[n] = null
      /\ p # L => p + 1 \in 1 .. L /\ b.next[n] = s[p+1]
      /\ p = 1 => b.prev[n] = null
      /\ p # 1 => p - 1 \in 1 .. L /\ b.prev[n] = s[p-1]
  BY <1>6
<1>8. \A k \in 1 .. L-1 : t[k] # n
  BY <1>3, <1>4
<1>9. ASSUME NEW k \in 1 .. L, k # p
      PROVE  c.next[s[k]] = IF k = p - 1 THEN b.next[n] ELSE b.next[s[k]]
  <2>1. s[k] # n /\ s[k] \in Node
    BY <1>4, <1>9
  <2>2. c.next[s[k]] = IF b.prev[n] # null /\ s[k] = b.prev[n] THEN b.next[n] ELSE b.next[s[k]]
    BY <1>5, <2>1
  <2>3. (b.prev[n] # null /\ s[k] = b.prev[n]) <=> k = p - 1
    <3>1. CASE p = 1
      BY <1>7, <3>1
    <3>2. CASE p # 1
      BY <1>4, <1>7, <3>2
    <3> QED BY <3>1, <3>2
  <2> QED BY <2>2, <2>3, Zenon
<1>10. ASSUME NEW k \in 1 .. L, k # p
      PROVE  c.prev[s[k]] = IF k = p + 1 THEN b.prev[n] ELSE b.prev[s[k]]
  <2>1. s[k] # n /\ s[k] \in Node
    BY <1>4, <1>10
  <2>2. c.prev[s[k]] = IF b.next[n] # null /\ s[k] = b.next[n] THEN b.prev[n] ELSE b.prev[s[k]]
    BY <1>5, <2>1
  <2>3. (b.next[n] # null /\ s[k] = b.next[n]) <=> k = p + 1
    <3>1. CASE p = L
      BY <1>7, <3>1
    <3>2. CASE p # L
      BY <1>4, <1>7, <3>2
    <3> QED BY <3>1, <3>2
  <2> QED BY <2>2, <2>3, Zenon
<1>11. c.root = IF L - 1 = 0 THEN null ELSE t[1]
  <2>1. CASE p = 1
    <3>1. L = 1 \/ (1 \in 1 .. L-1 /\ t[1] = s[2])
      BY <1>3, <2>1
    <3> QED BY <1>7, <2>1, <3>1
  <2>2. CASE p # 1
    <3>1. b.prev[n] # null
      BY <1>4, <1>7, <2>2
    <3>2. 1 \in 1 .. L-1 /\ t[1] = s[1]
      BY <1>3, <2>2
    <3> QED BY <1>4, <3>1, <3>2
  <2> QED BY <2>1, <2>2
<1>12. c.used = {t[k] : k \in 1 .. L-1}
  <2>1. \A k \in 1 .. L-1 : t[k] \in {s[j] : j \in 1 .. L}
    BY <1>3
  <2>2. ASSUME NEW m \in b.used, m # n PROVE m \in {t[k] : k \in 1 .. L-1}
    <3>1. PICK k \in 1 .. L : m = s[k] /\ k # p
      BY <1>4, <2>2
    <3>2. CASE k < p
      <4>1. k \in 1 .. L-1
        BY <3>2
      <4> QED BY <1>3, <3>1, <3>2, <4>1
    <3>3. CASE k > p
      <4>1. k - 1 \in 1 .. L-1 /\ k - 1 >= p /\ k = (k - 1) + 1
        BY <3>3
      <4> QED BY <1>3, <3>1, <4>1
    <3> QED BY <3>1, <3>2, <3>3
  <2>3. \A k \in 1 .. L-1 : t[k] \in c.used
    BY <1>4, <1>8, <2>1
  <2>4. \A m \in c.used : m \in {t[k] : k \in 1 .. L-1}
    BY <2>2
  <2> QED BY <2>3, <2>4
<1>13. \A j, k \in 1 .. L-1 : t[j] = t[k] => j = k
  <2> SUFFICES ASSUME NEW j \in 1 .. L-1, NEW k \in 1 .. L-1, t[j] = t[k] PROVE j = k
    OBVIOUS
  <2> DEFINE old(x) == IF x < p THEN x ELSE x + 1
  <2>1. \A x \in 1 .. L-1 : old(x) \in 1 .. L /\ t[x] = s[old(x)]
    BY <1>3
  <2>2. \A x, y \in 1 .. L-1 : old(x) = old(y) => x = y
    OBVIOUS
  <2> HIDE DEF old
  <2>3. old(j) = old(k)
    BY <1>4, <2>1
  <2> QED BY <2>2, <2>3
<1>14. ASSUME NEW k \in 1 .. L-1
       PROVE  c.next[t[k]] = IF k = L - 1 THEN null ELSE t[k+1]
  <2>1. CASE k < p
    <3>1. k \in 1 .. L /\ k # p /\ t[k] = s[k]
      BY <1>3, <2>1
    <3>2. CASE k = p - 1
      <4>1. c.next[t[k]] = b.next[n] /\ k + 1 = p
        BY <1>9, <3>1, <3>2
      <4>2. CASE p = L
        BY <1>7, <3>2, <4>1, <4>2
      <4>3. CASE p # L
        <5>1. p \in 1 .. L-1 /\ p >= p /\ k # L - 1
          BY <3>2, <4>3
        <5>2. t[p] = s[p+1]
          BY <1>3, <5>1
        <5> QED BY <1>7, <4>1, <4>3, <5>1, <5>2
      <4> QED BY <4>2, <4>3
    <3>3. CASE k # p - 1
      <4>1. k + 1 \in 1 .. L-1 /\ k + 1 < p /\ k # L - 1 /\ k # L
        BY <2>1, <3>3
      <4>2. c.next[t[k]] = b.next[s[k]]
        BY <1>9, <3>1, <3>3, SMTT(20)
      <4>3. t[k+1] = s[k+1]
        BY <1>3, <4>1
      <4>4. b.next[s[k]] = s[k+1]
        BY <1>6, <3>1, <4>1
      <4> QED BY <4>1, <4>2, <4>3, <4>4
    <3> QED BY <3>2, <3>3
  <2>2. CASE k >= p
    <3>1. k + 1 \in 1 .. L /\ k + 1 # p /\ k + 1 # p - 1 /\ t[k] = s[k+1]
      BY <1>3, <2>2
    <3>2. c.next[t[k]] = b.next[s[k+1]]
      BY <1>9, <3>1
    <3>3. CASE k = L - 1
      <4>1. k + 1 = L
        BY <3>3
      <4> QED BY <1>6, <3>1, <3>2, <3>3, <4>1
    <3>4. CASE k # L - 1
      <4>1. k + 1 \in 1 .. L-1 /\ k + 1 >= p /\ k + 1 # L
        BY <2>2, <3>4
      <4>2. t[k+1] = s[(k+1)+1]
        BY <1>3, <4>1
      <4>3. b.next[s[k+1]] = s[(k+1)+1]
        BY <1>6, <3>1, <4>1
      <4> QED BY <3>2, <3>4, <4>2, <4>3
    <3> QED BY <3>3, <3>4
  <2> QED BY <2>1, <2>2
<1>15. ASSUME NEW k \in 1 .. L-1
       PROVE  c.prev[t[k]] = IF k = 1 THEN null ELSE t[k-1]
  <2>1. CASE k < p
    <3>1. k \in 1 .. L /\ k # p /\ k # p + 1 /\ t[k] = s[k]
      BY <1>3, <2>1
    <3>2. c.prev[t[k]] = b.prev[s[k]]
      BY <1>10, <3>1
    <3>3. k = 1 \/ (k - 1 \in 1 .. L-1 /\ k - 1 < p)
      BY <2>1
    <3>4. k = 1 \/ t[k-1] = s[k-1]
      BY <1>3, <3>3
    <3> QED BY <1>6, <3>1, <3>2, <3>4
  <2>2. CASE k = p
    <3>1. k + 1 \in 1 .. L /\ k + 1 # p /\ k + 1 = p + 1 /\ t[k] = s[k+1]
      BY <1>3, <2>2
    <3>2. c.prev[t[k]] = b.prev[n]
      BY <1>10, <3>1
    <3>3. k = 1 \/ (k - 1 \in 1 .. L-1 /\ k - 1 < p)
      BY <2>2
    <3>4. k = 1 \/ t[k-1] = s[k-1]
      BY <1>3, <3>3
    <3> QED BY <1>7, <2>2, <3>2, <3>4
  <2>3. CASE k > p
    <3>1. k + 1 \in 1 .. L /\ k + 1 # p /\ k + 1 # p + 1 /\ k + 1 # 1 /\ k # 1 /\ t[k] = s[k+1]
      BY <1>3, <2>3
    <3>2. c.prev[t[k]] = b.prev[s[k+1]]
      BY <1>10, <3>1
    <3>3. b.prev[s[k+1]] = s[k]
      BY <1>6, <3>1
    <3>4. k - 1 \in 1 .. L-1 /\ k - 1 >= p /\ (k - 1) + 1 = k
      BY <2>3
    <3>5. t[k-1] = s[k]
      BY <1>3, <3>4
    <3> QED BY <3>1, <3>2, <3>3, <3>5
  <2> QED BY <2>1, <2>2, <2>3
<1>16. \A m \in Node \ c.used : c.prev[m] = null
  <2> SUFFICES ASSUME NEW m \in Node \ c.used PROVE c.prev[m] = null
    OBVIOUS
  <2>1. CASE m = n
    BY <1>5, <2>1
  <2>2. CASE m # n
    <3>1. m \notin b.used /\ b.prev[m] = null
      BY <2>2 DEF Chain
    <3>2. m # b.next[n]
      BY <1>4, <1>7, <3>1, Nodes
    <3> QED BY <1>5, <2>2, <3>1, <3>2
  <2> QED BY <2>1, <2>2
<1> QED BY <1>3, <1>11, <1>12, <1>13, <1>14, <1>15, <1>16 DEF Chain

\* The list and the simulator agree on what is a breakpoint.
LEMMA Known ==
  ASSUME NEW b, Linked(b), NEW a
  PROVE  /\ findBreakpoint(b, a) = {n \in b.used : b.adr[n] = a}
         /\ isBreakpoint(b, a) <=> a \in b.icm
<1>1. findBreakpoint(b, a) = {n \in b.used : b.adr[n] = a}
  BY ListedChain DEF findBreakpoint
<1> QED BY <1>1 DEF isBreakpoint, Linked, Agreed

LEMMA SetLinked ==
  ASSUME NEW b, Linked(b), NEW a \in Nat
  PROVE  /\ Linked(setBreakpoint(b, a))
         /\ setBreakpoint(b, a).icm = IF Node \subseteq b.used THEN b.icm ELSE b.icm \union {a}
<1>1. CASE isBreakpoint(b, a) \/ Node \subseteq b.used
  <2>1. setBreakpoint(b, a) = b
    BY <1>1 DEF setBreakpoint
  <2>2. ~ (Node \subseteq b.used) => b.icm = b.icm \union {a}
    BY <1>1, Known
  <2> QED BY <2>1, <2>2
<1>2. CASE ~ (isBreakpoint(b, a) \/ Node \subseteq b.used)
  <2> DEFINE n == CHOOSE x \in Node \ b.used : TRUE
             c == setBreakpoint(b, a)
  <2>1. n \in Node \ b.used
    BY <1>2
  <2>2. c = [b EXCEPT !.icm = @ \union {a},
                      !.adr[n] = a,
                      !.next[n] = b.root,
                      !.prev = IF b.root # null THEN [@ EXCEPT ![b.root] = n] ELSE @,
                      !.root = n,
                      !.used = @ \union {n}]
    BY <1>2, Zenon DEF setBreakpoint
  <2> HIDE DEF n, c
  <2>3. b \in BpType /\ Agreed(b)
    BY DEF Linked
  <2>4. /\ c.icm = b.icm \union {a} /\ c.adr = [b.adr EXCEPT ![n] = a]
        /\ c.next = [b.next EXCEPT ![n] = b.root]
        /\ c.prev = IF b.root # null THEN [b.prev EXCEPT ![b.root] = n] ELSE b.prev
        /\ c.root = n /\ c.used = b.used \union {n}
        /\ c = [root |-> c.root, used |-> c.used, icm |-> c.icm,
                adr |-> c.adr, next |-> c.next, prev |-> c.prev]
    BY <2>2, <2>3 DEF BpType
  <2>5. c \in BpType
    <3>1. /\ b.root \in Node \union {null} /\ b.used \subseteq Node /\ b.icm \subseteq Nat
          /\ b.adr \in [Node -> Nat] /\ b.next \in [Node -> Node \union {null}]
          /\ b.prev \in [Node -> Node \union {null}]
      BY <2>3 DEF BpType
    <3>2. c.next \in [Node -> Node \union {null}] /\ c.prev \in [Node -> Node \union {null}]
      BY <2>1, <2>4, <3>1
    <3>3. c.adr \in [Node -> Nat] /\ c.icm \subseteq Nat /\ c.root \in Node \union {null}
          /\ c.used \subseteq Node
      BY <2>1, <2>4, <3>1
    <3> QED BY <2>4, <3>2, <3>3 DEF BpType
  <2>6. \E L \in Nat : \E s \in [1 .. L -> Node] : Chain(c, L, s)
    <3>1. PICK L \in Nat : \E s \in [1 .. L -> Node] : Chain(b, L, s)
      BY DEF Linked
    <3>2. PICK s \in [1 .. L -> Node] : Chain(b, L, s)
      BY <3>1
    <3>3. \E t \in [1 .. L+1 -> Node] : Chain(c, L+1, t)
      BY <2>1, <2>3, <2>4, <2>5, <3>2, Prepend
    <3>4. L + 1 \in Nat
      OBVIOUS
    <3> QED BY <3>3, <3>4
  <2>7. Agreed(c)
    <3>1. a \notin b.icm
      BY <1>2, Known
    <3>2. /\ \A m \in b.used : c.adr[m] = b.adr[m] /\ c.adr[m] # a
          /\ c.adr[n] = a
      <4>1. b.adr \in [Node -> Nat] /\ b.used \subseteq Node
        BY <2>3 DEF BpType
      <4>2. \A m \in b.used : b.adr[m] # a
        BY <2>3, <3>1 DEF Agreed
      <4> QED BY <2>1, <2>4, <4>1, <4>2
    <3>3. \A x, y \in c.used : c.adr[x] = c.adr[y] => x = y
      BY <2>3, <2>4, <3>2 DEF Agreed
    <3>4. c.icm = {c.adr[x] : x \in c.used}
      <4>1. \A x \in c.used : c.adr[x] \in c.icm
        BY <2>3, <2>4, <3>2 DEF Agreed
      <4>2. \A y \in c.icm : \E x \in c.used : y = c.adr[x]
        BY <2>3, <2>4, <3>2 DEF Agreed
      <4> QED BY <4>1, <4>2
    <3> QED BY <3>3, <3>4 DEF Agreed
  <2> QED BY <1>2, <2>4, <2>5, <2>6, <2>7 DEF c, Linked
<1> QED BY <1>1, <1>2

\* A breakpoint that is removed leaves its node free.
LEMMA RemoveLinked ==
  ASSUME NEW b, Linked(b), NEW a
  PROVE  /\ Linked(removeBreakpoint(b, a))
         /\ removeBreakpoint(b, a).icm = b.icm \ {a}
         /\ isBreakpoint(b, a) => ~ (Node \subseteq removeBreakpoint(b, a).used)
<1>1. CASE ~isBreakpoint(b, a)
  <2>1. removeBreakpoint(b, a) = b
    BY <1>1 DEF removeBreakpoint
  <2>2. b.icm = b.icm \ {a}
    BY <1>1, Known
  <2> QED BY <1>1, <2>1, <2>2
<1>2. CASE isBreakpoint(b, a)
  <2> DEFINE n == CHOOSE x \in findBreakpoint(b, a) : TRUE
             c == removeBreakpoint(b, a)
  <2>1. n \in b.used /\ b.adr[n] = a
    <3>1. n \in findBreakpoint(b, a)
      BY <1>2 DEF isBreakpoint
    <3> HIDE DEF n
    <3> QED BY <3>1, Known
  <2>2. c = free([b EXCEPT !.icm = @ \ {a},
                   !.prev = IF b.next[n] # null THEN [@ EXCEPT ![b.next[n]] = b.prev[n]] ELSE @,
                   !.next = IF b.prev[n] # null THEN [@ EXCEPT ![b.prev[n]] = b.next[n]] ELSE @,
                   !.root = IF b.prev[n] # null THEN @ ELSE b.next[n]], n)
    BY <1>2, Zenon DEF removeBreakpoint
  <2> HIDE DEF n, c
  <2>3. b \in BpType /\ Agreed(b)
    BY DEF Linked
  <2>4. /\ b.root \in Node \union {null} /\ b.used \subseteq Node /\ b.icm \subseteq Nat
        /\ b.adr \in [Node -> Nat] /\ b.next \in [Node -> Node \union {null}]
        /\ b.prev \in [Node -> Node \union {null}] /\ n \in Node
    BY <2>1, <2>3 DEF BpType
  <2>5. /\ c.icm = b.icm \ {a} /\ c.adr = [b.adr EXCEPT ![n] = 0]
        /\ c.next = [IF b.prev[n] # null THEN [b.next EXCEPT ![b.prev[n]] = b.next[n]] ELSE b.next
                       EXCEPT ![n] = null]
        /\ c.prev = [IF b.next[n] # null THEN [b.prev EXCEPT ![b.next[n]] = b.prev[n]] ELSE b.prev
                       EXCEPT ![n] = null]
        /\ c.root = IF b.prev[n] # null THEN b.root ELSE b.next[n]
        /\ c.used = b.used \ {n}
        /\ c = [root |-> c.root, used |-> c.used, icm |-> c.icm,
                adr |-> c.adr, next |-> c.next, prev |-> c.prev]
    BY <2>2, <2>3 DEF BpType, free
  <2>6. c \in BpType
    <3>1. c.next \in [Node -> Node \union {null}] /\ c.prev \in [Node -> Node \union {null}]
      BY <2>4, <2>5
    <3>2. c.adr \in [Node -> Nat] /\ c.icm \subseteq Nat /\ c.root \in Node \union {null}
          /\ c.used \subseteq Node
      BY <2>4, <2>5
    <3> QED BY <2>5, <3>1, <3>2 DEF BpType
  <2>7. \E L \in Nat : \E s \in [1 .. L -> Node] : Chain(c, L, s)
    <3>1. PICK L \in Nat : \E s \in [1 .. L -> Node] : Chain(b, L, s)
      BY DEF Linked
    <3>2. PICK s \in [1 .. L -> Node] : Chain(b, L, s)
      BY <3>1
    <3>3. PICK p \in 1 .. L : n = s[p]
      BY <2>1, <3>2 DEF Chain
    <3>4. \E t \in [1 .. L-1 -> Node] : Chain(c, L-1, t)
      <4>1. Unlinked(b, s[p], c)
        BY <2>5, <3>3 DEF Unlinked
      <4> QED BY <2>3, <2>6, <3>2, <4>1, Drop
    <3>5. L - 1 \in Nat
      OBVIOUS
    <3> QED BY <3>4, <3>5
  <2>8. Agreed(c)
    <3>1. \A m \in c.used : m \in b.used /\ c.adr[m] = b.adr[m] /\ c.adr[m] # a
      BY <2>1, <2>3, <2>4, <2>5 DEF Agreed
    <3>2. \A y \in c.icm : \E x \in c.used : y = c.adr[x]
      BY <2>1, <2>3, <2>5, <3>1 DEF Agreed
    <3>3. \A x \in c.used : c.adr[x] \in c.icm
      BY <2>3, <2>5, <3>1 DEF Agreed
    <3>4. \A x, y \in c.used : c.adr[x] = c.adr[y] => x = y
      BY <2>3, <3>1 DEF Agreed
    <3> QED BY <3>2, <3>3, <3>4 DEF Agreed
  <2>9. ~ (Node \subseteq c.used)
    BY <2>4, <2>5
  <2> QED BY <2>5, <2>6, <2>7, <2>8, <2>9 DEF c, Linked
<1> QED BY <1>1, <1>2

-----------------------------------------------------------------------------
(* The session.                                                            *)

Busy == {"n", "c", "f", "u", "g", "g_bypass"}

\* What a command has run while it may still be at its first instruction.  With i
\* at 0, g has not met its breakpoint: it is where it started and has run nothing,
\* or it started where there is none, and its starting point has none since.
Entered ==
  /\ at \in {"prompt", "exit"} => ran = 0
  /\ (at = "c" /\ i = 0) => ran = 0
  /\ (at = "g" /\ i = 0) => (ran = 0 /\ pc = start_pc) \/ start_pc \notin bp.icm
  /\ at = "g_bypass" => ran = 0

SInv == IInv /\ TypeOK /\ Linked(bp) /\ Entered

Executed ==
  /\ ~ended
  /\ \/ pc' \in Successor[pc] /\ ended' = FALSE
     \/ Successor[pc] = {} /\ pc' = pc /\ ended' = TRUE

\* What the program and the breakpoints do when the simulator answers r.  An
\* instruction with a breakpoint is run only if it is to be passed.
Answered(r, passing) ==
  /\ pc' \in Address /\ Linked(bp') /\ bp'.icm = bp.icm
  /\ r.pc = pc' /\ ended' = (r.reason = "EXIT")
  /\ executes(r) => Executed /\ (pc \in bp.icm => passing)
  /\ ~executes(r) => pc' = pc /\ ended' = ended
  /\ r.reason = "BP_ADDRESS" => pc \in bp.icm
  /\ r.reason = "BP_ICOUNT" => executes(r)
  /\ r.reason \in {"EXIT", "BP_ADDRESS", "BP_ICOUNT", "SCHED"}

\* The four answers: no breakpoint is passed but one taken away from the simulator.
LEMMA SimulateAnswered ==
  ASSUME TypeOK, NEW stops, stops \subseteq bp.icm, NEW r \in icmSimulate(stops), simulated(r),
         Linked(bp'), bp'.icm = bp.icm, NEW passing, (pc \in bp.icm /\ pc \notin stops) => passing
  PROVE  Answered(r, passing)
<1>1. pc \in Address /\ ended \in BOOLEAN /\ \A a \in Successor[pc] : a \in Address
  BY DebuggerAssumption DEF TypeOK
<1>2. pc' = r.pc /\ ended' = (r.reason = "EXIT")
  BY DEF simulated
<1>3. CASE ended
  <2>1. r = [reason |-> "EXIT", pc |-> pc]
    BY <1>3 DEF icmSimulate
  <2> QED BY <1>1, <1>2, <1>3, <2>1 DEF Answered, executes
<1>4. CASE ~ended /\ pc \in stops
  <2>1. r = [reason |-> "BP_ADDRESS", pc |-> pc]
    BY <1>4 DEF icmSimulate
  <2> QED BY <1>1, <1>2, <1>4, <2>1 DEF Answered, executes
<1>5. CASE ~ended /\ pc \notin stops /\ Successor[pc] = {}
  <2>1. r = [reason |-> "EXIT", pc |-> pc]
    BY <1>5 DEF icmSimulate
  <2> QED BY <1>1, <1>2, <1>5, <2>1 DEF Answered, executes, Executed
<1>6. CASE ~ended /\ pc \notin stops /\ Successor[pc] # {}
  <2>1. PICK a \in Successor[pc] :
          r = [reason |-> IF icount = 1 THEN "BP_ICOUNT" ELSE "SCHED", pc |-> a]
    BY <1>6 DEF icmSimulate
  <2>2. r.reason \in {"BP_ICOUNT", "SCHED"} /\ r.pc = a /\ executes(r)
    BY <1>6, <2>1 DEF executes
  <2> QED BY <1>1, <1>2, <1>6, <2>2 DEF Answered, Executed
<1> QED BY <1>3, <1>4, <1>5, <1>6

\* run_one_cycle leaves the breakpoints as they were, although it may take one
\* away for the time of an instruction.
LEMMA CycleAnswered ==
  ASSUME TypeOK, Linked(bp), NEW bypass \in BOOLEAN, NEW r, run_one_cycle(bypass, r)
  PROVE  Answered(r, bypass)
<1>1. simulated(r) /\ pc \in Nat
  BY DebuggerAssumption DEF run_one_cycle, TypeOK
<1>2. CASE ~ended /\ pc \in bp.icm /\ bypass
  <2> DEFINE without == removeBreakpoint(bp, pc)
  <2>1. /\ r \in icmSimulate(without.icm)
        /\ bp' = IF isBreakpoint(bp, pc) THEN setBreakpoint(without, pc) ELSE bp
    BY <1>2 DEF run_one_cycle
  <2>2. isBreakpoint(bp, pc)
    BY <1>2, Known
  <2>3. Linked(without) /\ without.icm = bp.icm \ {pc} /\ ~ (Node \subseteq without.used)
    BY <2>2, RemoveLinked
  <2>4. bp' = setBreakpoint(without, pc)
    BY <2>1, <2>2
  <2> HIDE DEF without
  <2>5. Linked(bp') /\ bp'.icm = bp.icm
    <3>1. Linked(setBreakpoint(without, pc)) /\ setBreakpoint(without, pc).icm = without.icm \union {pc}
      BY <1>1, <2>3, SetLinked
    <3> QED BY <1>2, <2>3, <2>4, <3>1
  <2>6. without.icm \subseteq bp.icm
    BY <2>3
  <2> QED BY <1>1, <1>2, <2>1, <2>5, <2>6, SimulateAnswered
<1>3. CASE ~ (~ended /\ pc \in bp.icm /\ bypass)
  <2>1. r \in icmSimulate(bp.icm) /\ bp' = bp
    BY <1>3 DEF run_one_cycle
  <2> QED BY <1>1, <2>1, SimulateAnswered
<1> QED BY <1>2, <1>3

\* The other calls pass none.
LEMMA PlainAnswered ==
  ASSUME TypeOK, Linked(bp), UNCHANGED bp, NEW r \in icmSimulate(bp.icm), simulated(r)
  PROVE  Answered(r, FALSE)
BY SimulateAnswered

\* A loop's next turn is an instruction of the ideal debugger's, or nothing.
LEMMA TurnRefines ==
  ASSUME SInv, NEW r, NEW passing, Answered(r, passing), passing => ran = 0,
         NEW where \in Busy, NEW turn, goes_on(r, where, turn), at \in Busy
  PROVE  [Ideal!Next]_(Ideal!vars)
<1>1. at' = where /\ ran' = IF executes(r) /\ ran < MAX_CYCLES THEN ran + 1 ELSE ran
  BY DEF goes_on
<1>2. ran \in 0 .. MAX_CYCLES
  BY DEF SInv, TypeOK
<1>3. CASE executes(r)
  <2>1. ran' # 0
    BY <1>1, <1>2, <1>3, Counts
  <2>2. pc \in bp.icm => ran = 0
    BY <1>3 DEF Answered
  <2>3. Ideal!Execute
    BY <1>1, <1>3, <2>1, <2>2 DEF Ideal!Execute, Answered, Executed, Busy
  <2> QED BY <2>3 DEF Ideal!Next
<1>4. CASE ~executes(r)
  <2>1. ran' = ran
    BY <1>1, <1>4
  <2>2. bp'.icm = bp.icm /\ pc' = pc /\ ended' = ended
    BY <1>4 DEF Answered
  <2> QED BY <1>1, <2>1, <2>2 DEF Ideal!vars, Busy
<1> QED BY <1>3, <1>4

\* A last turn is an instruction, or the end of the command or of the session.
LEMMA LastRefines ==
  ASSUME SInv, NEW r, NEW passing, Answered(r, passing), passing => ran = 0,
         NEW where \in {"prompt", "exit"}, leave(where), where = "exit" => r.reason = "EXIT",
         at \in Busy
  PROVE  Ideal!Next
<1>1. at' = where /\ ran' = 0 /\ bp'.icm = bp.icm
  BY DEF leave, Answered
<1>2. CASE executes(r)
  <2>1. pc \in bp.icm => ran = 0
    BY <1>2 DEF Answered
  <2>2. where = "exit" => ended'
    BY DEF Answered
  <2>3. Ideal!Execute
    BY <1>1, <1>2, <2>1, <2>2 DEF Ideal!Execute, Answered, Executed, Busy
  <2> QED BY <2>3 DEF Ideal!Next
<1>3. CASE ~executes(r)
  <2>1. pc' = pc /\ ended' = ended
    BY <1>3 DEF Answered
  <2>2. CASE where = "prompt"
    <3>1. Ideal!Return
      BY <1>1, <2>1, <2>2 DEF Ideal!Return, Busy
    <3> QED BY <3>1 DEF Ideal!Next
  <2>3. CASE where = "exit"
    <3>1. Ideal!Leave
      BY <1>1, <2>1, <2>3 DEF Ideal!Leave, Busy
    <3> QED BY <3>1 DEF Ideal!Next
  <2> QED BY <2>2, <2>3
<1> QED BY <1>2, <1>3

\* What is left of a step once its counts are known to be right (IInv').
Fits == SInv' /\ [Ideal!Next]_(Ideal!vars)

LEMMA TurnFits ==
  ASSUME SInv, IInv', NEW r, NEW passing, Answered(r, passing), passing => ran = 0,
         NEW where \in Busy, NEW turn \in Nat, goes_on(r, where, turn), at \in Busy, Entered'
  PROVE  Fits
<1>1. [Ideal!Next]_(Ideal!vars)
  BY TurnRefines
<1>2. TypeOK'
  <2>1. at' = where /\ i' = turn /\ start_pc' = start_pc /\ mode' = mode
    BY DEF goes_on
  <2>2. start_pc \in Address /\ mode \in Range(Mode)
    BY DEF SInv, TypeOK, Busy
  <2>3. icount' \in Nat /\ ran' \in 0 .. MAX_CYCLES
    BY DEF IInv, CountTypeOK
  <2>4. bp' \in BpType /\ pc' \in Address /\ ended' \in BOOLEAN
    BY DEF Answered, Linked
  <2> QED BY <2>1, <2>2, <2>3, <2>4 DEF TypeOK, Busy, BpType
<1>3. Linked(bp')
  BY DEF Answered
<1> QED BY <1>1, <1>2, <1>3 DEF Fits, SInv

LEMMA LeaveFits ==
  ASSUME SInv, IInv', Linked(bp'), pc' \in Address, ended' \in BOOLEAN,
         NEW where \in {"prompt", "exit"}, leave(where)
  PROVE  SInv'
<1>1. TypeOK'
  <2>1. at' = where /\ i' = 0 /\ icount' = 0 /\ ran' = 0
    BY DEF leave
  <2>2. bp' \in BpType
    BY DEF Linked
  <2> QED BY <2>1, <2>2, Counts DEF TypeOK, BpType
<1>2. Entered'
  BY DEF leave, Entered
<1> QED BY <1>1, <1>2 DEF SInv

LEMMA LastFits ==
  ASSUME SInv, IInv', NEW r, NEW passing, Answered(r, passing), passing => ran = 0,
         NEW where \in {"prompt", "exit"}, leave(where), where = "exit" => r.reason = "EXIT",
         at \in Busy
  PROVE  Fits
<1>1. Ideal!Next
  BY LastRefines
<1>2. Linked(bp') /\ pc' \in Address /\ ended' \in BOOLEAN
  BY DEF Answered
<1>3. SInv'
  BY <1>2, LeaveFits
<1> QED BY <1>1, <1>3 DEF Fits

\* A loop that has come to its end gives the prompt back.
LEMMA ReturnFits ==
  ASSUME SInv, IInv', at \in Busy, leave("prompt"), UNCHANGED <<bp, pc, ended>>
  PROVE  Fits
<1>1. Ideal!Return
  BY DEF Ideal!Return, leave, Busy
<1>2. Linked(bp') /\ pc' \in Address /\ ended' \in BOOLEAN
  BY DEF SInv, TypeOK
<1>3. SInv'
  BY <1>2, LeaveFits
<1> QED BY <1>1, <1>3 DEF Fits, Ideal!Next

LEMMA EnterFits ==
  ASSUME SInv, IInv', NEW name \in Busy \ {"g_bypass"}, NEW a, NEW steps, enter(name, a, steps)
  PROVE  Fits
<1>1. Ideal!Command
  BY DEF Ideal!Command, enter, Busy, SInv, Entered
<1>2. TypeOK'
  <2>1. at' = name /\ i' = 0 /\ start_pc' = pc /\ mode' = Mode[pc] /\ UNCHANGED <<bp, pc, ended>>
    BY DEF enter
  <2>2. icount' \in Nat /\ ran' \in 0 .. MAX_CYCLES
    BY DEF IInv, CountTypeOK
  <2>3. pc \in Address /\ Mode[pc] \in Range(Mode)
    BY DebuggerAssumption DEF SInv, TypeOK, Range
  <2> QED BY <2>1, <2>2, <2>3 DEF SInv, TypeOK, Busy
<1>3. Linked(bp') /\ Entered'
  BY DEF enter, SInv, Entered, Busy
<1> QED BY <1>1, <1>2, <1>3 DEF Fits, SInv, Ideal!Next

LEMMA NextInstructionFits == ASSUME SInv, doNextInstruction PROVE Fits
<1>0. IInv' /\ TypeOK /\ Linked(bp)
  BY NextInstructionIInv DEF SInv
<1>1. CASE \E count \in Number : enter("n", count, 0)
  BY <1>0, <1>1, EnterFits DEF Busy
<1>2. CASE /\ at = "n" /\ i < arg
           /\ \E r \in Answers :
                /\ run_one_cycle(i = 0, r)
                /\ IF isSimulationEnded(r) THEN leave("exit") ELSE goes_on(r, at, i + 1)
  <2>1. PICK r \in Answers :
          /\ run_one_cycle(i = 0, r)
          /\ IF isSimulationEnded(r) THEN leave("exit") ELSE goes_on(r, at, i + 1)
    BY <1>2
  <2>2. Answered(r, i = 0)
    BY <1>0, <2>1, CycleAnswered
  <2>3. i = 0 => ran = 0
    BY <1>2 DEF SInv, IInv, CountTypeOK, TurnsCounted
  <2>4. at \in Busy
    BY <1>2 DEF Busy
  <2>5. CASE r.reason = "EXIT" /\ leave("exit")
    BY <1>0, <2>2, <2>3, <2>4, <2>5, LastFits
  <2>6. CASE goes_on(r, at, i + 1)
    <3>1. Entered' /\ i + 1 \in Nat
      BY <1>2, <2>6 DEF goes_on, Entered, SInv, TypeOK
    <3> QED BY <1>0, <2>2, <2>3, <2>4, <2>6, <3>1, TurnFits
  <2> QED BY <2>1, <2>5, <2>6 DEF isSimulationEnded
<1>3. CASE at = "n" /\ leave("prompt") /\ UNCHANGED <<bp, pc, ended>>
  BY <1>0, <1>3, ReturnFits DEF Busy
<1> QED BY <1>1, <1>2, <1>3 DEF doNextInstruction

LEMMA ModeChangeFits == ASSUME SInv, doRunUntilModeChange PROVE Fits
<1>0. IInv' /\ TypeOK /\ Linked(bp)
  BY ModeChangeIInv DEF SInv
<1>1. CASE enter("c", 0, 0)
  BY <1>0, <1>1, EnterFits DEF Busy
<1>2. CASE /\ at = "c"
           /\ \E r \in Answers :
                /\ run_one_cycle(i = 0, r)
                /\ IF isSimulationEnded(r) THEN leave("exit")
                   ELSE IF Mode[r.pc] # mode THEN leave("prompt") ELSE goes_on(r, at, 1)
  <2>1. PICK r \in Answers :
          /\ run_one_cycle(i = 0, r)
          /\ \/ r.reason = "EXIT" /\ leave("exit")
             \/ leave("prompt")
             \/ goes_on(r, at, 1)
    BY <1>2 DEF isSimulationEnded
  <2>2. Answered(r, i = 0)
    BY <1>0, <2>1, CycleAnswered
  <2>3. i = 0 => ran = 0
    BY <1>2 DEF SInv, Entered
  <2>4. at \in Busy
    BY <1>2 DEF Busy
  <2>5. CASE (r.reason = "EXIT" /\ leave("exit")) \/ leave("prompt")
    BY <1>0, <2>2, <2>3, <2>4, <2>5, LastFits
  <2>6. CASE goes_on(r, at, 1)
    <3>1. Entered'
      BY <1>2, <2>6 DEF goes_on, Entered
    <3> QED BY <1>0, <2>2, <2>3, <2>4, <2>6, <3>1, TurnFits
  <2> QED BY <2>1, <2>5, <2>6
<1> QED BY <1>1, <1>2 DEF doRunUntilModeChange

LEMMA SearchFits ==
  ASSUME SInv, NEW name \in {"f", "u"}, NEW found, search(name, found)
  PROVE  Fits
<1>0. IInv' /\ TypeOK /\ Linked(bp)
  BY SearchIInv DEF SInv
<1>1. CASE /\ at = name
           /\ \E r \in icmSimulate(bp.icm) :
                /\ simulated(r)
                /\ IF isSimulationEnded(r) THEN leave("exit") ELSE goes_on(r, at, i + 1)
           /\ UNCHANGED bp
  <2>1. PICK r \in icmSimulate(bp.icm) :
          /\ simulated(r)
          /\ IF isSimulationEnded(r) THEN leave("exit") ELSE goes_on(r, at, i + 1)
    BY <1>1
  <2>2. Answered(r, FALSE)
    BY <1>0, <1>1, <2>1, PlainAnswered
  <2>3. at \in Busy
    BY <1>1 DEF Busy
  <2>4. CASE r.reason = "EXIT" /\ leave("exit")
    BY <1>0, <2>2, <2>3, <2>4, LastFits
  <2>5. CASE goes_on(r, at, i + 1)
    <3>1. Entered' /\ i + 1 \in Nat
      BY <1>1, <2>5 DEF goes_on, Entered, SInv, TypeOK
    <3> QED BY <1>0, <2>2, <2>3, <2>5, <3>1, TurnFits
  <2> QED BY <2>1, <2>4, <2>5 DEF isSimulationEnded
<1>2. CASE at = name /\ leave("prompt") /\ UNCHANGED <<bp, pc, ended>>
  BY <1>0, <1>2, ReturnFits DEF Busy
<1> QED BY <1>1, <1>2 DEF search

\* g meets the breakpoint it starts at with its first answer, or never stops
\* there without having run.
LEMMA RunFits == ASSUME SInv, doRun PROVE Fits
<1>0. IInv' /\ TypeOK /\ Linked(bp)
  BY RunIInv DEF SInv
<1>1. CASE \E steps \in (Number \ {0}) \union {MAX_CYCLES} : enter("g", steps, steps)
  BY <1>0, <1>1, EnterFits DEF Busy
<1>2. CASE /\ at = "g"
           /\ \E r \in icmSimulate(bp.icm) :
                /\ simulated(r)
                /\ IF r.reason = "BP_ADDRESS" /\ r.pc = start_pc /\ i = 0 THEN goes_on(r, "g_bypass", 0)
                   ELSE IF r.reason \in {"BP_ADDRESS", "BP_ICOUNT"} THEN leave("prompt")
                   ELSE goes_on(r, at, IF r.reason = "EXIT" THEN 1 ELSE i)
           /\ UNCHANGED bp
  <2>1. PICK r \in icmSimulate(bp.icm) :
          /\ simulated(r)
          /\ \/ r.reason = "BP_ADDRESS" /\ r.pc = start_pc /\ i = 0 /\ goes_on(r, "g_bypass", 0)
             \/ leave("prompt")
             \/ /\ r.reason \notin {"BP_ADDRESS", "BP_ICOUNT"}
                /\ goes_on(r, "g", IF r.reason = "EXIT" THEN 1 ELSE i)
    BY <1>2
  <2>2. Answered(r, FALSE)
    BY <1>0, <1>2, <2>1, PlainAnswered
  <2>3. at \in Busy
    BY <1>2 DEF Busy
  <2>4. i \in Nat /\ (i = 0 => (ran = 0 /\ pc = start_pc) \/ start_pc \notin bp.icm)
    BY <1>2 DEF SInv, TypeOK, Entered
  <2>5. CASE r.reason = "BP_ADDRESS" /\ r.pc = start_pc /\ i = 0 /\ goes_on(r, "g_bypass", 0)
    <3>1. ~executes(r)
      BY <2>5 DEF executes
    <3>2. pc \in bp.icm /\ pc = start_pc
      BY <2>2, <2>5, <3>1 DEF Answered
    <3>3. ran' = 0
      BY <2>4, <2>5, <3>1, <3>2 DEF goes_on
    <3>4. Entered'
      BY <2>5, <3>3 DEF goes_on, Entered
    <3> QED BY <1>0, <2>2, <2>3, <2>5, <3>4, TurnFits DEF Busy
  <2>6. CASE leave("prompt")
    BY <1>0, <2>2, <2>3, <2>6, LastFits
  <2>7. CASE /\ r.reason \notin {"BP_ADDRESS", "BP_ICOUNT"}
             /\ goes_on(r, "g", IF r.reason = "EXIT" THEN 1 ELSE i)
    <3> DEFINE turn == IF r.reason = "EXIT" THEN 1 ELSE i
    <3>1. turn \in Nat
      BY <2>4
    <3>2. ASSUME turn = 0 PROVE start_pc \notin bp.icm
      <4>1. i = 0 /\ r.reason = "SCHED"
        BY <2>2, <2>7, <3>2 DEF Answered
      <4>2. executes(r)
        <5>1. ~ended'
          BY <2>2, <4>1 DEF Answered
        <5> QED BY <2>2, <4>1, <5>1 DEF Answered, executes
      <4>3. pc \notin bp.icm
        BY <2>2, <4>2 DEF Answered
      <4> QED BY <2>4, <4>1, <4>3
    <3> HIDE DEF turn
    <3>3. goes_on(r, "g", turn)
      BY <2>7 DEF turn
    <3>4. Entered'
      BY <1>2, <3>2, <3>3 DEF goes_on, Entered
    <3> QED BY <1>0, <2>2, <2>3, <3>1, <3>3, <3>4, TurnFits DEF Busy
  <2> QED BY <2>1, <2>5, <2>6, <2>7
<1>3. CASE /\ at = "g_bypass"
           /\ \E r \in Answers :
                /\ run_one_cycle(TRUE, r)
                /\ IF r.reason = "BP_ICOUNT" THEN leave("prompt") ELSE goes_on(r, "g", 1)
  <2>1. PICK r \in Answers :
          /\ run_one_cycle(TRUE, r)
          /\ leave("prompt") \/ goes_on(r, "g", 1)
    BY <1>3
  <2>2. Answered(r, TRUE)
    BY <1>0, <2>1, CycleAnswered
  <2>3. at \in Busy /\ ran = 0
    BY <1>3 DEF Busy, SInv, Entered
  <2>4. CASE leave("prompt")
    BY <1>0, <2>2, <2>3, <2>4, LastFits
  <2>5. CASE goes_on(r, "g", 1)
    <3>1. Entered'
      BY <2>5 DEF goes_on, Entered
    <3> QED BY <1>0, <2>2, <2>3, <2>5, <3>1, TurnFits DEF Busy
  <2> QED BY <2>1, <2>4, <2>5
<1> QED BY <1>1, <1>2, <1>3 DEF doRun

\* b sets or removes a breakpoint where the user says, or finds no memory for it.
LEMMA SetBreakPointFits ==
  ASSUME SInv, NEW n \in Number, doSetBreakPoint(n)
  PROVE  Fits
<1> DEFINE a == n - (n % 4)
<1>1. /\ at = "prompt" /\ UNCHANGED <<at, pc, ended, command>>
      /\ bp' = IF isBreakpoint(bp, a) THEN removeBreakpoint(bp, a) ELSE setBreakpoint(bp, a)
  BY DEF doSetBreakPoint
<1>2. a \in Nat /\ a \in {k - (k % 4) : k \in Number}
  BY Counts
<1> HIDE DEF a
<1>3. Linked(bp)
  BY DEF SInv
<1>4. Linked(bp') /\ \/ bp' = bp
                     \/ bp'.icm = IF a \in bp.icm THEN bp.icm \ {a} ELSE bp.icm \union {a}
  <2>1. CASE isBreakpoint(bp, a)
    BY <1>1, <1>3, <2>1, Known, RemoveLinked
  <2>2. CASE ~isBreakpoint(bp, a)
    <3>1. CASE Node \subseteq bp.used
      BY <1>1, <1>3, <2>2, <3>1 DEF setBreakpoint
    <3>2. CASE ~ (Node \subseteq bp.used)
      BY <1>1, <1>2, <1>3, <2>2, <3>2, Known, SetLinked
    <3> QED BY <3>1, <3>2
  <2> QED BY <2>1, <2>2
<1>5. SInv'
  <2>1. IInv'
    BY OtherIInv DEF SInv
  <2>2. TypeOK'
    BY <1>1, <1>4 DEF SInv, TypeOK, Linked, BpType, command
  <2>3. Entered'
    BY <1>1 DEF SInv, Entered, command
  <2> QED BY <1>4, <2>1, <2>2, <2>3 DEF SInv
<1>6. [Ideal!Next]_(Ideal!vars)
  <2>1. CASE bp' = bp
    BY <1>1, <2>1 DEF Ideal!vars, command
  <2>2. CASE bp'.icm = IF a \in bp.icm THEN bp.icm \ {a} ELSE bp.icm \union {a}
    <3>1. Ideal!Toggle(a)
      BY <1>1, <2>2 DEF Ideal!Toggle, command
    <3> QED BY <1>2, <3>1 DEF Ideal!Next
  <2> QED BY <1>4, <2>1, <2>2
<1> QED BY <1>5, <1>6 DEF Fits

LEMMA TerminateFits == ASSUME SInv, quit \/ int_handler PROVE Fits
<1>1. at # "exit" /\ leave("exit") /\ UNCHANGED <<bp, pc, ended>>
  BY DEF quit, int_handler, doTerminate
<1>2. Linked(bp') /\ pc' \in Address /\ ended' \in BOOLEAN
  BY <1>1 DEF SInv, TypeOK
<1>3. SInv'
  BY <1>1, <1>2, LeaveIInv, LeaveFits DEF SInv
<1>4. Ideal!Leave
  BY <1>1 DEF Ideal!Leave, leave
<1> QED BY <1>3, <1>4 DEF Fits, Ideal!Next

LEMMA IdleFits == ASSUME SInv, UNCHANGED vars PROVE Fits
<1>1. SInv'
  BY DEF SInv, vars, command, IInv, CountTypeOK, TurnsCounted, StepsCounted, TypeOK, Entered
<1>2. UNCHANGED Ideal!vars
  BY DEF vars, command, Ideal!vars
<1> QED BY <1>1, <1>2 DEF Fits

LEMMA EveryStepFits == SInv /\ [Next]_vars => Fits
<1> SUFFICES ASSUME SInv, [Next]_vars PROVE Fits
  OBVIOUS
<1>0. IInv
  BY DEF SInv
<1>1. CASE doRunUntilInstruction
  <2>1. CASE \E a \in Address : enter("f", Kind[a], 0)
    <3>1. PICK a \in Address : enter("f", Kind[a], 0)
      BY <2>1
    <3>2. IInv'
      BY <1>0, <3>1, EnterIInv
    <3> QED BY <3>1, <3>2, EnterFits DEF Busy
  <2> QED BY <1>1, <2>1, SearchFits DEF doRunUntilInstruction
<1>2. CASE doRunUntilPosition
  <2>1. CASE \E adr \in Number : enter("u", adr, 0)
    <3>1. PICK adr \in Number : enter("u", adr, 0)
      BY <2>1
    <3>2. IInv'
      BY <1>0, <3>1, EnterIInv
    <3> QED BY <3>1, <3>2, EnterFits DEF Busy
  <2> QED BY <1>2, <2>1, SearchFits DEF doRunUntilPosition
<1>3. CASE exited \/ UNCHANGED vars
  BY <1>3, IdleFits DEF exited
<1>4. CASE \E n \in Number : doSetBreakPoint(n)
  BY <1>4, SetBreakPointFits
<1>5. CASE quit \/ int_handler
  BY <1>5, TerminateFits
<1>6. CASE doNextInstruction \/ doRunUntilModeChange \/ doRun
  BY <1>6, NextInstructionFits, ModeChangeFits, RunFits
<1> QED BY <1>1, <1>2, <1>3, <1>4, <1>5, <1>6 DEF Next, command_loop

\* At the start there are no breakpoints.
LEMMA InitFits == Init => SInv /\ Ideal!Init
<1> SUFFICES ASSUME Init PROVE SInv /\ Ideal!Init
  OBVIOUS
<1>1. /\ bp \in BpType /\ bp.root = null /\ bp.used = {} /\ bp.icm = {}
      /\ \A n \in Node : bp.prev[n] = null
  BY DEF Init, BpType
<1>2. Chain(bp, 0, [k \in 1 .. 0 |-> null])
  BY <1>1 DEF Chain
<1>3. Linked(bp)
  <2>1. 0 \in Nat /\ [k \in 1 .. 0 |-> null] \in [1 .. 0 -> Node]
    OBVIOUS
  <2>2. Agreed(bp)
    BY <1>1 DEF Agreed
  <2> QED BY <1>1, <1>2, <2>1, <2>2 DEF Linked
<1>4. TypeOK /\ Entered
  <2>1. at = "prompt" /\ pc \in Address /\ ended \in BOOLEAN /\ i = 0 /\ icount = 0 /\ ran = 0
    BY DEF Init
  <2>2. 0 \in 0 .. MAX_CYCLES
    BY Counts
  <2> QED BY <1>1, <2>1, <2>2 DEF TypeOK, Entered, BpType
<1>5. Ideal!Init
  BY <1>1 DEF Init, Ideal!Init
<1> QED BY <1>3, <1>4, <1>5, InitIInv DEF SInv

\* What holds of a session throughout.
THEOREM SessionCorrect == Spec => []SInv
<1>1. Init => SInv
  BY InitFits
<1>2. SInv /\ [Next]_vars => SInv'
  BY EveryStepFits DEF Fits
<1> QED BY <1>1, <1>2, PTL DEF Spec

\* The debugger's variables keep their types, for any program and any numbers.
THEOREM TypeCorrect == Spec => []TypeOK
BY SessionCorrect, PTL DEF SInv

\* The links of the list of breakpoints lead through all nodes in use and back
\* and the simulator has the same breakpoints, whatever is set, removed and
\* passed, in any amount of memory.
THEOREM ListWholeCorrect == Spec => []ListWhole
<1>1. SInv => ListWhole
  <2> SUFFICES ASSUME SInv PROVE ListWhole
    OBVIOUS
  <2>1. Linked(bp) /\ Agreed(bp)
    BY DEF SInv, Linked
  <2>2. PICK L \in Nat : \E s \in [1 .. L -> Node] : Chain(bp, L, s)
    BY <2>1 DEF Linked
  <2>3. PICK s \in [1 .. L -> Node] : Chain(bp, L, s)
    BY <2>2
  <2>4. bp.root # null => bp.prev[bp.root] = null
    <3>1. L # 0 => 1 \in 1 .. L
      OBVIOUS
    <3> QED BY <2>3, <3>1 DEF Chain
  <2>5. ASSUME NEW n \in bp.used, bp.next[n] # null PROVE bp.prev[bp.next[n]] = n
    <3>1. PICK k \in 1 .. L : n = s[k]
      BY <2>3 DEF Chain
    <3>2. k # L /\ bp.next[n] = s[k+1]
      BY <2>3, <2>5, <3>1 DEF Chain
    <3>3. k + 1 \in 1 .. L /\ k + 1 # 1 /\ (k + 1) - 1 = k
      BY <3>2
    <3>4. bp.prev[s[k+1]] = s[(k+1)-1]
      BY <2>3, <3>3 DEF Chain
    <3> QED BY <3>1, <3>2, <3>3, <3>4
  <2> QED BY <2>1, <2>4, <2>5, ListedChain DEF ListWhole, Agreed
<1> QED BY <1>1, SessionCorrect, PTL

\* A session is one of the ideal debugger: only the user changes what stops the
\* program, although run_one_cycle takes breakpoints away and sets them again,
\* and no breakpoint is run over except at the first instruction of a command.
THEOREM DebuggerRefines == Spec => IdealSpec
<1>1. Init => SInv /\ Ideal!Init
  BY InitFits
<1>2. SInv /\ [Next]_vars => SInv' /\ [Ideal!Next]_(Ideal!vars)
  BY EveryStepFits DEF Fits
<1> QED BY <1>1, <1>2, PTL DEF Spec, IdealSpec, Ideal!Spec
=============================================================================
