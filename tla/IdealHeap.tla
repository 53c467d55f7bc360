------------------------------ MODULE IdealHeap ------------------------------
(***************************************************************************)
(* What an allocator promises to the program that calls it.  There is no   *)
(* list of blocks here: only the blocks the program holds, what it wrote   *)
(* in them, and the answer to its last call.  Memory is counted in cells   *)
(* of eight bytes.                                                         *)
(***************************************************************************)
EXTENDS Integers

CONSTANT Cells        \* the cells the allocator was given

VARIABLES
  live,      \* live[p]: the bytes asked for with the block at p, for each block held
  contents,  \* contents[p][i]: what cell i of that block holds
  call       \* the last call, its argument and its answer

vars == <<live, contents, call>>

Room(n) == (n + 7) \div 8

\* A block takes the cells its program may write and one for the allocator.
Extent(p, n) == p - 1 .. p + Room(n) - 1
Vacant == Cells \ UNION {Extent(p, live[p]) : p \in DOMAIN live}

Init ==
  /\ DOMAIN live = {}
  /\ DOMAIN contents = {}
  /\ call = [op |-> "init", arg |-> 0, ret |-> 0]

\* The new block overlaps none that is held, and their contents stay.
Grant(n) ==
  LET p == call'.ret
  IN  /\ call' = [op |-> "heap_alloc", arg |-> n, ret |-> p]
      /\ n >= 1
      /\ Extent(p, n) \subseteq Vacant
      /\ live' = [q \in DOMAIN live \union {p} |-> IF q = p THEN n ELSE live[q]]
      /\ \A q \in DOMAIN live : contents'[q] = contents[q]

\* A request may be refused if there is no run of vacant cells with one cell
\* more than an extent: an allocator may lose a cell that is too small for a
\* block of its own, and not more.
Refuse(n) ==
  /\ call' = [op |-> "heap_alloc", arg |-> n, ret |-> 0]
  /\ n >= 1 => \A c \in Vacant : ~ (c .. c + Room(n) + 1 \subseteq Vacant)
  /\ UNCHANGED <<live, contents>>

Free(p) ==
  /\ p \in DOMAIN live
  /\ call' = [op |-> "heap_free", arg |-> p, ret |-> 1]
  /\ live' = [q \in DOMAIN live \ {p} |-> live[q]]
  /\ contents' = [q \in DOMAIN live \ {p} |-> contents[q]]

\* An address that is not a block the program holds is refused.
FreeOther(p) ==
  /\ p \notin DOMAIN live
  /\ call' = [op |-> "heap_free", arg |-> p, ret |-> 0]
  /\ UNCHANGED <<live, contents>>

Write(p) ==
  /\ p \in DOMAIN live
  /\ \A q \in DOMAIN live \ {p} : contents'[q] = contents[q]
  /\ UNCHANGED <<live, call>>

Next ==
  \/ Grant(call'.arg) \/ Refuse(call'.arg)
  \/ Free(call'.arg) \/ FreeOther(call'.arg)
  \/ \E p \in DOMAIN live : Write(p)

Spec == Init /\ [][Next]_vars
=============================================================================
