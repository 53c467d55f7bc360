-------------------------------- MODULE Heap --------------------------------
(***************************************************************************)
(* The allocator of library/src/lib_mem.c.  The heap is a row of blocks,   *)
(* each headed by a marker of two words: its own size, whose two low bits  *)
(* are flags, and the size of the block before it.  Pointers are in units  *)
(* of a marker, eight bytes, and wrap as addresses do.  The functions are  *)
(* operators on the memory, which holds markers and data alike; the        *)
(* program that calls them, below, may do what C allows and, besides, free *)
(* what it has freed before or never owned.                                *)
(***************************************************************************)
EXTENDS Integers, FiniteSets

CONSTANTS
  WORD,       \* words hold 0 .. WORD - 1 (2^32 on the target)
  Base,       \* where the heap starts
  HeapSize,   \* bytes given to heap_init
  Neighbour,  \* bytes of a second heap right after it, 0 if there is none
  Requests,   \* sizes the program asks for
  Foreign,    \* addresses the program frees that are not this heap's
  Data        \* words the program writes

MARKER == 8                                 \* sizeof(heap_marker_t), SIZE_MIN
NULL   == 0
Aligned(n) == n - (n % 8)
heap   == [memory |-> Base, size |-> Aligned(HeapSize)]
other  == [memory |-> Base + heap.size \div MARKER, size |-> Aligned(Neighbour)]
CellsOf(h) == h.memory .. h.memory + h.size \div MARKER - 1
Cell   == CellsOf(heap) \union CellsOf(other)
Word   == 0 .. WORD - 1
Marker == [size : Word, size_prev : Word]

\* A heap has room for a marker, and the addresses it is compared with do not wrap.
ASSUME HeapAssumption ==
  /\ WORD \in Nat /\ WORD % MARKER = 0
  /\ Base \in Nat \ {0}
  /\ HeapSize \in Nat /\ HeapSize >= MARKER
  /\ Neighbour \in Nat
  /\ heap.memory + heap.size < WORD \div MARKER
  /\ other.memory + other.size \div MARKER <= WORD \div MARKER
  /\ Requests \subseteq 0 .. WORD \div 2 - MARKER
  /\ Data \subseteq Word
  /\ Foreign \subseteq Nat

VARIABLES
  mem,     \* the memory: a marker's two words, or data, in each cell
  live,    \* the program's blocks, with the bytes it asked for
  stale,   \* addresses it freed, whose marker it cannot have written over since
  call     \* its last call and the answer

vars == <<mem, live, stale, call>>

-----------------------------------------------------------------------------
(* Markers.                                                                *)

Pointer(a)    == a % (WORD \div MARKER)
Taken(w)      == w % 2 = 1                  \* HEAP_MASK_TAKEN
Last(w)       == (w \div 2) % 2 = 1         \* HEAP_MASK_LAST
SizeOf(w)     == w - (w % 4)                 \* HEAP_MASK_SIZE
INVALID       == [size |-> WORD - 1, size_prev |-> WORD - 1]

heap_marker_prev(h, m, mark) ==
  LET ret == Pointer(mark - 1 - m[mark].size_prev \div MARKER)
  IN  IF ret < h.memory THEN NULL ELSE ret

heap_marker_next(m, mark) ==
  IF Last(m[mark].size) THEN NULL
  ELSE Pointer(mark + 1 + SizeOf(m[mark].size) \div MARKER)

\* The block after mark, if any, is told the size of mark.
tell_next(m, mark) ==
  LET next == heap_marker_next(m, mark)
  IN  IF next = NULL THEN m ELSE [m EXCEPT ![next].size_prev = SizeOf(m[mark].size)]

heap_marker_join(m, m1, m2) ==
  LET size == m[m1].size + SizeOf(m[m2].size) + MARKER
      end  == IF Last(m[m2].size) /\ ~ Last(size) THEN 2 ELSE 0
  IN  IF \/ m2 # heap_marker_next(m, m1)
         \/ Taken(m[m1].size) \/ Taken(m[m2].size)
      THEN m
      ELSE [tell_next([m EXCEPT ![m1].size = (size + end) % WORD], m1)
              EXCEPT ![m2] = INVALID]

\* Mutant: the block after the remainder keeps the size_prev it had.
heap_marker_split_no_next(m, mark, size) ==
  LET tmp    == Pointer(mark + 1 + size \div MARKER)
      remain == (SizeOf(m[mark].size) - size) % WORD
  IN  IF remain <= MARKER THEN m
      ELSE [m EXCEPT ![tmp] = [size |-> remain - MARKER + (m[mark].size % 4),
                               size_prev |-> size],
                     ![mark].size = size + (m[mark].size % 2)]

\* Mutant: a block is not split unless two markers remain.
heap_marker_split_wasteful(m, mark, size) ==
  LET tmp    == Pointer(mark + 1 + size \div MARKER)
      remain == (SizeOf(m[mark].size) - size) % WORD
  IN  IF remain <= 2 * MARKER THEN m
      ELSE tell_next(
             [m EXCEPT ![tmp] = [size |-> remain - MARKER + (m[mark].size % 4),
                                 size_prev |-> size],
                       ![mark].size = size + (m[mark].size % 2)],
             tmp)

heap_marker_split(m, mark, size) ==
  LET tmp    == Pointer(mark + 1 + size \div MARKER)
      remain == (SizeOf(m[mark].size) - size) % WORD
  IN  IF remain <= MARKER THEN m
      ELSE tell_next(
             [m EXCEPT ![tmp] = [size |-> remain - MARKER + (m[mark].size % 4),
                                 size_prev |-> size],
                       ![mark].size = size + (m[mark].size % 2)],
             tmp)

heap_init(h, m) ==
  [m EXCEPT ![h.memory] = [size |-> h.size - MARKER + 2, size_prev |-> 0]]

-----------------------------------------------------------------------------
(* heap_alloc and heap_free.                                               *)

\* H is what a walk from the first marker through heap_marker_next visits.
Walk(h, m, H) ==
  /\ h.memory \in H
  /\ \A a \in H : heap_marker_next(m, a) \in H \union {NULL}
  /\ \A a \in H \ {h.memory} : \E b \in H : b < a /\ heap_marker_next(m, b) = a

blocks(h, m) == CHOOSE H \in SUBSET CellsOf(h) : Walk(h, m, H)

\* The first of the smallest free blocks that are large enough.
best_fit(h, m, size) ==
  LET fit == {a \in blocks(h, m) : ~ Taken(m[a].size) /\ SizeOf(m[a].size) >= size}
  IN  IF fit = {} THEN NULL
      ELSE CHOOSE a \in fit : \A b \in fit :
             \/ SizeOf(m[a].size) < SizeOf(m[b].size)
             \/ SizeOf(m[a].size) = SizeOf(m[b].size) /\ a <= b

\* Mutant: the address of the marker is returned, not of what follows it.
heap_alloc_marker(h, m, n) ==
  LET size == ((n + 7) \div 8) * 8
      best == IF n >= 1 THEN best_fit(h, m, size) ELSE NULL
      cut  == heap_marker_split(m, best, size)
  IN  IF best = NULL THEN [mem |-> m, ret |-> NULL]
      ELSE [mem |-> [cut EXCEPT ![best].size = @ + 1], ret |-> best]

heap_alloc(h, m, n) ==
  LET size == ((n + 7) \div 8) * 8
      best == IF n >= 1 THEN best_fit(h, m, size) ELSE NULL
      cut  == heap_marker_split(m, best, size)
  IN  IF best = NULL THEN [mem |-> m, ret |-> NULL]
      ELSE [mem |-> [cut EXCEPT ![best].size = @ + 1], ret |-> best + 1]

\* Whether the marker is in the heap, as far as heap_free looks: the size of
\* the heap is in bytes, and is added to a pointer to markers.
in_this_heap(h, mark) == h.memory <= mark /\ mark < h.memory + h.size

\* The marker agrees with those around it.
sane(h, m, mark) ==
  LET prev == heap_marker_prev(h, m, mark)
      next == heap_marker_next(m, mark)
  IN  /\ prev # NULL => m[mark].size_prev = SizeOf(m[prev].size)
      /\ next # NULL => m[next].size_prev = SizeOf(m[mark].size)

clear_taken(m, mark) == [m EXCEPT ![mark].size = @ - (@ % 2)]

\* Mutant: after the join with the block before, the block after is joined to
\* the marker that is no longer one.
release_lost_prev(h, m, mark) ==
  LET prev   == heap_marker_prev(h, m, mark)
      next   == heap_marker_next(m, mark)
      freed  == clear_taken(m, mark)
      behind == prev # NULL /\ ~ Taken(freed[prev].size)
      left   == IF behind THEN heap_marker_join(freed, prev, mark) ELSE freed
  IN  IF next # NULL /\ ~ Taken(left[next].size)
      THEN heap_marker_join(left, mark, next) ELSE left

\* A block is freed, and joined with its neighbours that are free.
release(h, m, mark) ==
  LET prev   == heap_marker_prev(h, m, mark)
      next   == heap_marker_next(m, mark)
      freed  == clear_taken(m, mark)
      behind == prev # NULL /\ ~ Taken(freed[prev].size)
      left   == IF behind THEN heap_marker_join(freed, prev, mark) ELSE freed
      first  == IF behind THEN prev ELSE mark
  IN  IF next # NULL /\ ~ Taken(left[next].size)
      THEN heap_marker_join(left, first, next) ELSE left

\* Mutant: whether the block is allocated is not looked at.
heap_free_twice(h, m, adr) ==
  LET tmp == Pointer(adr - 1)
  IN  IF in_this_heap(h, tmp) /\ sane(h, m, tmp)
      THEN [mem |-> release(h, m, tmp), ret |-> 1]
      ELSE [mem |-> m, ret |-> 0]

heap_free(h, m, adr) ==
  LET tmp == Pointer(adr - 1)
  IN  IF in_this_heap(h, tmp) /\ sane(h, m, tmp) /\ Taken(m[tmp].size)
      THEN [mem |-> release(h, m, tmp), ret |-> 1]
      ELSE [mem |-> m, ret |-> 0]

-----------------------------------------------------------------------------
(* The program that uses the heap.                                         *)

Room(n) == (n + 7) \div 8
Payload(p, n) == p .. p + Room(n) - 1

\* The memory holds anything before heap_init.  The neighbour is a heap of
\* its own, with one block taken.
Init ==
  /\ \E w \in Data :
       LET fresh == heap_init(heap, [c \in Cell |-> [size |-> w, size_prev |-> w]])
       IN  mem = IF CellsOf(other) = {} THEN fresh
                 ELSE heap_alloc(other, heap_init(other, fresh), 1).mem
  /\ live = [p \in {} |-> 0]
  /\ stale = {}
  /\ call = [op |-> "init", arg |-> 0, ret |-> 0]

Alloc(n) ==
  LET r == heap_alloc(heap, mem, n)
  IN  /\ mem' = r.mem
      /\ call' = [op |-> "heap_alloc", arg |-> n, ret |-> r.ret]
      /\ IF r.ret = NULL THEN UNCHANGED <<live, stale>>
         ELSE /\ live' = [p \in DOMAIN live \union {r.ret} |->
                            IF p = r.ret THEN n ELSE live[p]]
              /\ stale' = {p \in stale \ {r.ret} : p - 1 \notin Payload(r.ret, n)}

Free(p) ==
  LET r == heap_free(heap, mem, p)
  IN  /\ p \in DOMAIN live
      /\ mem' = r.mem
      /\ live' = [q \in DOMAIN live \ {p} |-> live[q]]
      /\ stale' = stale \union {p}
      /\ call' = [op |-> "heap_free", arg |-> p, ret |-> r.ret]

\* What the program frees that is not this heap's lies where in_this_heap is right.
ForeignApart == \A p \in Foreign : ~ in_this_heap(heap, Pointer(p - 1))

\* A second free of the same block, or the free of what is no block of this heap.
FreeOther(p) ==
  LET r == heap_free(heap, mem, p)
  IN  /\ p \in stale \union Foreign
      /\ mem' = r.mem
      /\ call' = [op |-> "heap_free", arg |-> p, ret |-> r.ret]
      /\ UNCHANGED <<live, stale>>

\* The program fills a block of its own.
Write(p, w) ==
  /\ p \in DOMAIN live
  /\ mem' = [c \in Cell |-> IF c \in Payload(p, live[p])
                            THEN [size |-> w, size_prev |-> w] ELSE mem[c]]
  /\ UNCHANGED <<live, stale, call>>

Next ==
  \/ \E n \in Requests : Alloc(n)
  \/ \E p \in DOMAIN live : Free(p)
  \/ \E p \in stale \union Foreign : FreeOther(p)
  \/ \E p \in DOMAIN live, w \in Data : Write(p, w)

Spec == Init /\ [][Next]_vars

-----------------------------------------------------------------------------
(* Properties.                                                             *)

\* The variables have their types; the program's addresses are those of
\* payloads, and an address is not both held and freed (heap_alloc,
\* lib_mem.c:119, heap_free, lib_mem.c:125).
TypeOK ==
  /\ mem \in [Cell -> Marker]
  /\ live \in [DOMAIN live -> Requests]
  /\ DOMAIN live \union stale \subseteq {c + 1 : c \in CellsOf(heap)}
  /\ DOMAIN live \intersect stale = {}
  /\ call \in [op : {"init", "heap_alloc", "heap_free"}, arg : Nat, ret : Nat]

\* After any sequence of calls the markers are one list that covers the heap
\* from end to end: each block ends where the next begins and the last, which
\* alone has the flag, where the heap does, and each knows the size of the
\* block before it (split and join keep this in four places,
\* lib_mem.c:44-53 and 62-70).
WellFormed ==
  \E H \in SUBSET CellsOf(heap) :
    /\ Walk(heap, mem, H)
    /\ mem[heap.memory].size_prev = 0
    /\ \A a \in H :
         LET next == heap_marker_next(mem, a)
         IN  IF next = NULL
             THEN a + 1 + SizeOf(mem[a].size) \div MARKER = other.memory
             ELSE mem[next].size_prev = SizeOf(mem[a].size)

\* No two neighbouring blocks are free: heap_free joins a block with both its
\* neighbours, so that freeing everything gives back one block (lib_mem.c:155-161).
Coalesced ==
  \A a \in blocks(heap, mem) :
    LET next == heap_marker_next(mem, a)
    IN  next # NULL => Taken(mem[a].size) \/ Taken(mem[next].size)

\* The blocks taken are those the program holds, each as large as it asked for
\* and at most one marker larger (lib_mem.c:61, 118, 153).
TakenIsHeld ==
  /\ {a \in blocks(heap, mem) : Taken(mem[a].size)} = {p - 1 : p \in DOMAIN live}
  /\ \A p \in DOMAIN live :
       SizeOf(mem[p - 1].size) \in {Room(live[p]) * 8, Room(live[p]) * 8 + MARKER}

\* The heap is an allocator: blocks do not overlap, nothing but their program
\* changes what they hold, a request is refused only for want of room, a block
\* can be freed once, and a second free answers 0 and changes nothing
\* (heap_alloc and heap_free, lib_mem.c:90-164).
Ideal == INSTANCE IdealHeap WITH
  Cells    <- CellsOf(heap),
  contents <- [p \in DOMAIN live |-> [i \in 0 .. Room(live[p]) - 1 |-> mem[p + i]]]
IdealSpec == Ideal!Spec

\* "is marker in this heap ?" (lib_mem.c:128): heap_free answers 0 for an
\* address outside its heap and changes nothing.
ForeignRefused ==
  [][\A p \in Foreign : FreeOther(p) => call'.ret = 0 /\ mem' = mem]_vars
=============================================================================
