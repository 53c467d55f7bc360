----------------------------- MODULE HeapProofs -----------------------------
(***************************************************************************)
(* Theorems about Heap, for any size of the heap and of words, any         *)
(* requests and whatever the program writes in its blocks.                 *)
(***************************************************************************)
EXTENDS Heap, NumberFacts, TLAPS

-----------------------------------------------------------------------------
(* Words.                                                                  *)

\* A size in whole markers, with its two flags.
HeadWord(w) == w \in Word /\ w % 8 < 4

\* The cells of a block: its marker's and those behind it.
Span(w) == 1 + SizeOf(w) \div MARKER

LEMMA WordParts ==
  ASSUME NEW w, HeadWord(w)
  PROVE  /\ Span(w) \in Nat \ {0}
         /\ SizeOf(w) \in Nat /\ SizeOf(w) = 8 * (Span(w) - 1)
         /\ SizeOf(w) \div MARKER = Span(w) - 1
         /\ w = SizeOf(w) + (IF Last(w) THEN 2 ELSE 0) + (IF Taken(w) THEN 1 ELSE 0)
         /\ Last(w) \in BOOLEAN /\ Taken(w) \in BOOLEAN
<1>1. WORD \in Nat /\ w \in Nat /\ w < WORD
  BY HeapAssumption DEF HeadWord, Word
<1>2. PICK k \in Nat, f \in {0, 1, 2, 3} : w = 8 * k + f
  <2>1. w = 8 * (w \div 8) + (w % 8) /\ w \div 8 \in Nat /\ w % 8 \in 0 .. 3
    BY <1>1 DEF HeadWord
  <2> QED BY <2>1
<1>3. SizeOf(w) = 8 * k /\ (Last(w) <=> f >= 2) /\ (Taken(w) <=> f % 2 = 1)
  BY <1>2 DEF SizeOf, Last, Taken
<1>4. Span(w) = 1 + k
  BY <1>3 DEF Span, MARKER
<1> QED BY <1>2, <1>3, <1>4 DEF Last, Taken, MARKER

\* Words put together from their parts.
LEMMA MakeWord ==
  ASSUME NEW w \in Word, NEW k \in Nat, NEW f \in {0, 1, 2, 3}, w = 8 * k + f
  PROVE  /\ HeadWord(w) /\ SizeOf(w) = 8 * k /\ Span(w) = 1 + k
         /\ Last(w) <=> f \in {2, 3}
         /\ Taken(w) <=> f \in {1, 3}
         /\ w % 4 = f /\ w % 2 = (IF f \in {1, 3} THEN 1 ELSE 0)
<1>1. w % 8 = f /\ w % 4 = f /\ w % 2 = (IF f \in {1, 3} THEN 1 ELSE 0)
  OBVIOUS
<1>2. SizeOf(w) = 8 * k /\ (Last(w) <=> f \in {2, 3}) /\ (Taken(w) <=> f \in {1, 3})
  BY <1>1 DEF SizeOf, Last, Taken
<1>3. Span(w) = 1 + k
  BY <1>2 DEF Span, MARKER
<1> QED BY <1>1, <1>2, <1>3 DEF HeadWord

\* The word of a block as heap_alloc and heap_free find it.
LEMMA SplitWord ==
  ASSUME NEW w, HeadWord(w)
  PROVE  \E k \in Nat, f \in {0, 1, 2, 3} : w = 8 * k + f /\ 8 * k + 7 < WORD
<1>1. WORD \in Nat /\ WORD % 8 = 0 /\ w \in Nat /\ w < WORD
  BY HeapAssumption DEF HeadWord, Word, MARKER
<1>2. w = 8 * (w \div 8) + (w % 8) /\ w \div 8 \in Nat /\ w % 8 \in 0 .. 3
  BY <1>1 DEF HeadWord
<1> QED BY <1>1, <1>2

\* What they do to the flag.
LEMMA SetTaken ==
  ASSUME NEW w, HeadWord(w), ~Taken(w)
  PROVE  /\ HeadWord(w + 1) /\ Taken(w + 1) /\ (Last(w + 1) <=> Last(w))
         /\ SizeOf(w + 1) = SizeOf(w) /\ Span(w + 1) = Span(w)
<1>1. WORD \in Nat /\ w \in Word
  BY HeapAssumption DEF HeadWord
<1>2. PICK k \in Nat, f \in {0, 1, 2, 3} : w = 8 * k + f /\ 8 * k + 7 < WORD
  BY SplitWord
<1>3. f \in {0, 2} /\ (Last(w) <=> f = 2) /\ SizeOf(w) = 8 * k /\ Span(w) = 1 + k
  BY <1>1, <1>2, MakeWord
<1>4. w + 1 \in Word
  BY <1>1, <1>2, <1>3 DEF Word
<1>5. w + 1 = 8 * k + (f + 1) /\ f + 1 \in {1, 3}
  BY <1>2, <1>3
<1> QED BY <1>3, <1>4, <1>5, MakeWord

LEMMA ClearTaken ==
  ASSUME NEW w, HeadWord(w), NEW v, v = w - (w % 2)
  PROVE  /\ HeadWord(v) /\ ~Taken(v) /\ (Last(v) <=> Last(w))
         /\ SizeOf(v) = SizeOf(w) /\ Span(v) = Span(w)
<1>1. WORD \in Nat /\ w \in Word
  BY HeapAssumption DEF HeadWord
<1>2. PICK k \in Nat, f \in {0, 1, 2, 3} : w = 8 * k + f /\ 8 * k + 7 < WORD
  BY SplitWord
<1>3. /\ Last(w) <=> f \in {2, 3}
      /\ SizeOf(w) = 8 * k /\ Span(w) = 1 + k
      /\ w % 2 = (IF f \in {1, 3} THEN 1 ELSE 0)
  BY <1>1, <1>2, MakeWord
<1>4. PICK g \in {0, 2} : v = 8 * k + g /\ (g = 2 <=> f \in {2, 3})
  BY <1>2, <1>3
<1>5. v \in Word
  BY <1>1, <1>2, <1>4 DEF Word
<1> QED BY <1>3, <1>4, <1>5, MakeWord
-----------------------------------------------------------------------------
(* Blocks.                                                                 *)

Size(h) == h.size \div MARKER
End(h)  == h.memory + Size(h)

\* A heap that heap_init has set up: room for a marker, and no wrapping.
Sound(h) ==
  /\ h.memory \in Nat \ {0} /\ h.size \in Nat
  /\ Size(h) \in Nat \ {0} /\ h.size = 8 * Size(h)
  /\ End(h) <= WORD \div MARKER
  /\ CellsOf(h) \subseteq Cell

\* The cell behind the block at a.
After(m, a) == a + Span(m[a].size)

\* H are the heads of blocks that tile h, each with the size of the one before.
Tiled(h, m, H) ==
  /\ h.memory \in H /\ H \subseteq CellsOf(h)
  /\ \A a \in H : HeadWord(m[a].size)
  /\ m[h.memory].size_prev = 0
  /\ \A a \in H : Last(m[a].size) => After(m, a) = End(h)
  /\ \A a \in H : ~Last(m[a].size) =>
       After(m, a) \in H /\ m[After(m, a)].size_prev = SizeOf(m[a].size)
  /\ \A a, b \in H : a < b => After(m, a) <= b
  /\ \A b \in H \ {h.memory} : \E a \in H : a < b /\ ~Last(m[a].size) /\ After(m, a) = b

LEMMA Pointers ==
  /\ WORD \in Nat /\ WORD \div MARKER \in Nat
  /\ \A a \in Nat : a < WORD \div MARKER => Pointer(a) = a
<1>1. WORD \in Nat /\ WORD \div 8 \in Nat
  BY HeapAssumption
<1> DEFINE W == WORD \div 8
<1>2. \A a \in Nat : a < W => a % W = a
  <2>1. W \in Nat
    BY <1>1
  <2> HIDE DEF W
  <2> QED BY <2>1
<1> QED BY <1>1, <1>2 DEF Pointer, MARKER

LEMMA CellType ==
  ASSUME NEW h, Sound(h), NEW a \in CellsOf(h)
  PROVE  a \in Nat \ {0} /\ a \in Cell /\ h.memory <= a /\ a < End(h) /\ a < WORD \div MARKER
BY Pointers DEF Sound, CellsOf, End, Size

\* What is known of one block.
LEMMA BlockType ==
  ASSUME NEW h, Sound(h), NEW m, NEW H, Tiled(h, m, H), NEW a \in H
  PROVE  /\ a \in Nat \ {0} /\ a \in Cell /\ a \in CellsOf(h)
         /\ h.memory <= a /\ a < WORD \div MARKER /\ a # NULL
         /\ HeadWord(m[a].size)
         /\ Span(m[a].size) \in Nat \ {0} /\ After(m, a) \in Nat /\ a < After(m, a)
         /\ After(m, a) <= End(h)
<1>1. a \in CellsOf(h) /\ HeadWord(m[a].size)
  BY DEF Tiled
<1>2. Span(m[a].size) \in Nat \ {0}
  BY <1>1, WordParts
<1>3. a \in Nat \ {0} /\ a \in Cell /\ h.memory <= a /\ a < End(h) /\ a < WORD \div MARKER
  BY <1>1, CellType
<1>4. After(m, a) <= End(h)
  <2>1. CASE Last(m[a].size)
    BY <2>1, <1>3 DEF Tiled, Sound, End, Size
  <2>2. CASE ~Last(m[a].size)
    <3>1. After(m, a) \in CellsOf(h)
      BY <2>2 DEF Tiled
    <3> QED BY <3>1, CellType DEF Sound, End, Size
  <2> QED BY <2>1, <2>2
<1> QED BY <1>1, <1>2, <1>3, <1>4 DEF After, NULL

\* Blocks do not overlap.
LEMMA Apart ==
  ASSUME NEW h, Sound(h), NEW m, NEW H, Tiled(h, m, H), NEW a \in H, NEW b \in H, a # b
  PROVE  After(m, a) # After(m, b) /\ (After(m, a) <= b \/ After(m, b) <= a)
<1>1. a \in Nat /\ b \in Nat /\ a < After(m, a) /\ b < After(m, b)
      /\ After(m, a) \in Nat /\ After(m, b) \in Nat
  BY BlockType
<1>2. CASE a < b
  BY <1>1, <1>2 DEF Tiled
<1>3. CASE b < a
  BY <1>1, <1>3 DEF Tiled
<1> QED BY <1>1, <1>2, <1>3

\* heap_marker_next is the block behind.
LEMMA NextBlock ==
  ASSUME NEW h, Sound(h), NEW m, NEW H, Tiled(h, m, H), NEW a \in H
  PROVE  /\ Last(m[a].size) => heap_marker_next(m, a) = NULL
         /\ ~Last(m[a].size) => /\ heap_marker_next(m, a) = After(m, a)
                                /\ heap_marker_next(m, a) \in H
                                /\ heap_marker_next(m, a) # NULL
<1>1. CASE Last(m[a].size)
  BY <1>1 DEF heap_marker_next
<1>2. CASE ~Last(m[a].size)
  <2>1. After(m, a) \in H
    BY <1>2 DEF Tiled
  <2>2. After(m, a) \in Nat /\ After(m, a) < WORD \div MARKER /\ After(m, a) # NULL
    BY <2>1, BlockType
  <2>3. After(m, a) = a + 1 + SizeOf(m[a].size) \div MARKER
    BY BlockType, WordParts DEF After
  <2>4. heap_marker_next(m, a) = After(m, a)
    BY <1>2, <2>2, <2>3, Pointers DEF heap_marker_next
  <2> QED BY <1>2, <2>1, <2>2, <2>4
<1> QED BY <1>1, <1>2

\* heap_marker_prev is the block before.
LEMMA PrevBlock ==
  ASSUME NEW h, Sound(h), NEW m, NEW H, Tiled(h, m, H), NEW b \in H
  PROVE  /\ b = h.memory => heap_marker_prev(h, m, b) = NULL
         /\ b # h.memory => /\ heap_marker_prev(h, m, b) \in H
                            /\ heap_marker_prev(h, m, b) # NULL
                            /\ ~Last(m[heap_marker_prev(h, m, b)].size)
                            /\ After(m, heap_marker_prev(h, m, b)) = b
<1>1. b \in Nat \ {0} /\ b < WORD \div MARKER
  BY BlockType
<1>2. CASE b = h.memory
  <2>1. m[b].size_prev \div MARKER = 0
    BY <1>2 DEF Tiled, MARKER
  <2>2. Pointer(b - 1 - m[b].size_prev \div MARKER) = b - 1
    BY <1>1, <2>1, Pointers
  <2> QED BY <1>1, <1>2, <2>2 DEF heap_marker_prev
<1>3. CASE b # h.memory
  <2>1. PICK a \in H : a < b /\ ~Last(m[a].size) /\ After(m, a) = b
    BY <1>3 DEF Tiled
  <2>2. m[b].size_prev = SizeOf(m[a].size)
    BY <2>1 DEF Tiled
  <2>3. /\ a \in Nat \ {0} /\ h.memory <= a /\ a # NULL /\ HeadWord(m[a].size)
        /\ Span(m[a].size) \in Nat \ {0} /\ h.memory \in Nat /\ a < WORD \div MARKER
    BY BlockType DEF Sound
  <2>4. m[b].size_prev \div MARKER = Span(m[a].size) - 1
    BY <2>2, <2>3, WordParts
  <2>5. b - 1 - m[b].size_prev \div MARKER = a
    BY <2>1, <2>3, <2>4 DEF After
  <2>6. heap_marker_prev(h, m, b) = a
    BY <2>3, <2>5, Pointers DEF heap_marker_prev
  <2> QED BY <1>3, <2>1, <2>3, <2>6
<1> QED BY <1>2, <1>3

\* The heads of a tiling are what the walk of heap_alloc visits.
LEMMA TiledWalk ==
  ASSUME NEW h, Sound(h), NEW m, NEW H, Tiled(h, m, H)
  PROVE  Walk(h, m, H)
<1>1. h.memory \in H
  BY DEF Tiled
<1>2. \A a \in H : heap_marker_next(m, a) \in H \union {NULL}
  BY NextBlock
<1>3. ASSUME NEW b \in H \ {h.memory}
      PROVE  \E a \in H : a < b /\ heap_marker_next(m, a) = b
  <2>1. PICK a \in H : a < b /\ ~Last(m[a].size) /\ After(m, a) = b
    BY <1>3 DEF Tiled
  <2> QED BY <2>1, NextBlock
<1> QED BY <1>1, <1>2, <1>3 DEF Walk

\* A walk visits no more than another, by induction on the addresses.
LEMMA WalkIncluded ==
  ASSUME NEW h, Sound(h), NEW m, NEW G, G \subseteq CellsOf(h), Walk(h, m, G),
         NEW H, H \subseteq CellsOf(h), Walk(h, m, H)
  PROVE  G \subseteq H
<1> SUFFICES ASSUME G \ H # {} PROVE FALSE
  OBVIOUS
<1>1. \A a \in CellsOf(h) : a \in Nat /\ a # NULL
  BY CellType DEF NULL
<1>2. PICK a \in G \ H : \A b \in G \ H : a <= b
  <2> DEFINE D == G \ H
  <2>1. D \subseteq Nat /\ D # {}
    BY <1>1
  <2> HIDE DEF D
  <2>2. \E a \in D : \A b \in D : a <= b
    BY <2>1, Least
  <2> QED BY <2>2 DEF D
<1>3. PICK b \in G : b < a /\ heap_marker_next(m, b) = a
  BY <1>2 DEF Walk
<1>4. b \in H
  BY <1>1, <1>2, <1>3
<1>5. a \in H \union {NULL}
  BY <1>3, <1>4 DEF Walk
<1> QED BY <1>1, <1>2, <1>5

LEMMA TiledBlocks ==
  ASSUME NEW h, Sound(h), NEW m, NEW H, Tiled(h, m, H)
  PROVE  blocks(h, m) = H
<1>1. Walk(h, m, H) /\ H \in SUBSET CellsOf(h)
  BY TiledWalk DEF Tiled
<1>2. Walk(h, m, blocks(h, m)) /\ blocks(h, m) \in SUBSET CellsOf(h)
  BY <1>1 DEF blocks
<1> QED BY <1>1, <1>2, WalkIncluded
\* Blocks are what their words and the words before them say.
LEMMA SameBlocks ==
  ASSUME NEW h, Sound(h), NEW m, NEW H, Tiled(h, m, H), NEW n,
         \A a \in H : /\ HeadWord(n[a].size) /\ SizeOf(n[a].size) = SizeOf(m[a].size)
                      /\ Last(n[a].size) <=> Last(m[a].size)
                      /\ n[a].size_prev = m[a].size_prev
  PROVE  Tiled(h, n, H) /\ \A a \in H : After(n, a) = After(m, a)
<1>1. \A a \in H : After(n, a) = After(m, a)
  BY DEF After, Span
<1>2. h.memory \in H
  BY DEF Tiled
<1> QED BY <1>1, <1>2 DEF Tiled

LEMMA InitTiled ==
  ASSUME NEW h, Sound(h), NEW m \in [Cell -> Marker]
  PROVE  LET n == heap_init(h, m)
         IN  /\ n \in [Cell -> Marker]
             /\ Tiled(h, n, {h.memory}) /\ ~Taken(n[h.memory].size)
             /\ \A c \in Cell \ {h.memory} : n[c] = m[c]
<1> DEFINE n == heap_init(h, m)
           w == h.size - MARKER + 2
<1>1. h.memory \in CellsOf(h) /\ h.memory \in Cell
  BY DEF Sound, CellsOf, Size
<1>2. w = 8 * (Size(h) - 1) + 2 /\ Size(h) - 1 \in Nat
  BY DEF Sound, MARKER
<1>3. w \in Word
  BY <1>2, HeapAssumption DEF Word, Sound, End, MARKER
<1>4. HeadWord(w) /\ Span(w) = Size(h) /\ Last(w) /\ ~Taken(w)
  BY <1>2, <1>3, MakeWord DEF Sound
<1> HIDE DEF w
<1>5. n = [m EXCEPT ![h.memory] = [size |-> w, size_prev |-> 0]]
  BY DEF heap_init, w
<1>6. [size |-> w, size_prev |-> 0] \in Marker
  BY <1>3, HeapAssumption DEF Marker, Word
<1>7. n \in [Cell -> Marker] /\ \A c \in Cell \ {h.memory} : n[c] = m[c]
  BY <1>1, <1>5, <1>6
<1>8. n[h.memory].size = w /\ n[h.memory].size_prev = 0
  BY <1>1, <1>5
<1> HIDE DEF n
<1>9. After(n, h.memory) = End(h)
  BY <1>4, <1>8 DEF After, End
<1>10. Tiled(h, n, {h.memory})
  BY <1>1, <1>4, <1>8, <1>9 DEF Tiled, Sound
<1> QED BY <1>4, <1>7, <1>8, <1>10 DEF n

\* The block at a in j is those at a and b in m.
HasJoined(m, a, b, j) ==
  /\ j[b] = INVALID
  /\ ~Taken(j[a].size) /\ (Last(j[a].size) <=> Last(m[b].size))
  /\ After(j, a) = After(m, b)
  /\ \A c \in Cell \ {a, b} : j[c].size = m[c].size

\* heap_marker_join makes one block of two neighbours.
LEMMA JoinTiled ==
  ASSUME NEW h, Sound(h), NEW m \in [Cell -> Marker], NEW H, Tiled(h, m, H),
         NEW a \in H, ~Last(m[a].size), NEW b \in H, After(m, a) = b,
         ~Taken(m[a].size), ~Taken(m[b].size)
  PROVE  /\ heap_marker_join(m, a, b) \in [Cell -> Marker]
         /\ Tiled(h, heap_marker_join(m, a, b), H \ {b})
         /\ HasJoined(m, a, b, heap_marker_join(m, a, b))
         /\ \A c \in Cell \ H : heap_marker_join(m, a, b)[c] = m[c]
<1> DEFINE s == m[a].size + SizeOf(m[b].size) + MARKER
           w == s + (IF Last(m[b].size) /\ ~Last(s) THEN 2 ELSE 0)
           u == [m EXCEPT ![a].size = w % WORD]
           e == After(m, b)
           j == heap_marker_join(m, a, b)
<1>1. b \in H /\ a < b /\ b = heap_marker_next(m, a)
  BY NextBlock, BlockType DEF Tiled
<1>2. /\ a \in Cell /\ b \in Cell /\ a \in Nat \ {0} /\ b \in Nat /\ h.memory <= a
      /\ HeadWord(m[a].size) /\ HeadWord(m[b].size) /\ h.memory \in Nat
  BY <1>1, BlockType DEF Sound
<1>3. /\ Span(m[a].size) \in Nat \ {0} /\ m[a].size = 8 * (Span(m[a].size) - 1)
      /\ Span(m[b].size) \in Nat \ {0} /\ SizeOf(m[b].size) = 8 * (Span(m[b].size) - 1)
  BY <1>2, WordParts
<1>4. s = 8 * (Span(m[a].size) + Span(m[b].size) - 1)
  BY <1>3 DEF MARKER
<1>5. e <= End(h) /\ e = a + Span(m[a].size) + Span(m[b].size)
  BY <1>1, BlockType DEF After
<1>6. s + 8 <= WORD - 8
  <2>1. Span(m[a].size) + Span(m[b].size) + 1 <= WORD \div MARKER
    BY <1>2, <1>3, <1>5, Pointers DEF Sound, End
  <2> QED BY <2>1, <1>3, <1>4, HeapAssumption DEF MARKER
<1>7. /\ w \in Word /\ HeadWord(w) /\ ~Taken(w) /\ (Last(w) <=> Last(m[b].size))
      /\ Span(w) = Span(m[a].size) + Span(m[b].size) /\ SizeOf(w) \in Word
  <2> DEFINE k == Span(m[a].size) + Span(m[b].size) - 1
  <2>1. k \in Nat /\ s = 8 * k /\ WORD \in Nat
    BY <1>3, <1>4, HeapAssumption
  <2> HIDE DEF k, s
  <2>2. s \in Word
    BY <1>6, <2>1 DEF Word
  <2>3. ~Last(s)
    BY <2>1, <2>2, MakeWord
  <2>4. PICK f \in {0, 2} : w = 8 * k + f /\ (f = 2 <=> Last(m[b].size))
    BY <2>1, <2>3
  <2>5. w \in Word
    BY <1>6, <2>1, <2>4 DEF Word
  <2>6. 8 * k \in Word
    BY <2>1, <2>2
  <2> HIDE DEF w
  <2>7. /\ HeadWord(w) /\ ~Taken(w) /\ (Last(w) <=> f = 2)
        /\ Span(w) = 1 + k /\ SizeOf(w) = 8 * k
    BY <2>1, <2>4, <2>5, MakeWord
  <2>8. 1 + k = Span(m[a].size) + Span(m[b].size)
    BY <1>3 DEF k
  <2> QED BY <2>4, <2>5, <2>6, <2>7, <2>8
<1>8. w % WORD = w
  BY <1>7, HeapAssumption DEF Word
<1>9. j = [tell_next(u, a) EXCEPT ![b] = INVALID]
  BY <1>1, <1>2 DEF heap_marker_join
<1> HIDE DEF w
<1>10. /\ u \in [Cell -> Marker] /\ u[a].size = w
       /\ u[a].size_prev = m[a].size_prev
       /\ \A c \in Cell \ {a} : u[c] = m[c]
  BY <1>2, <1>7, <1>8 DEF Marker
<1> HIDE DEF u, j
<1>11. INVALID \in Marker
  BY <1>7, HeapAssumption DEF INVALID, Marker, Word
<1>12. Last(m[b].size) \/ (e \in H /\ e \in Cell /\ e # a /\ e # b /\ e # NULL)
  <2> SUFFICES ASSUME ~Last(m[b].size) PROVE e \in H /\ e \in Cell /\ e # a /\ e # b /\ e # NULL
    OBVIOUS
  <2>1. e \in H
    BY <1>1 DEF Tiled
  <2>2. e \in Cell /\ e # NULL
    BY <2>1, BlockType
  <2> HIDE DEF e
  <2>3. e # a /\ e # b
    BY <1>1, <1>2, <1>3, <1>5 DEF After
  <2> QED BY <2>1, <2>2, <2>3
<1>13. /\ j \in [Cell -> Marker] /\ j[b] = INVALID /\ j[a].size = w
       /\ j[a].size_prev = m[a].size_prev
       /\ \A c \in Cell \ {a, b} : j[c].size = m[c].size
       /\ \A c \in Cell \ {b} : c # e \/ Last(m[b].size) => j[c].size_prev = m[c].size_prev
       /\ ~Last(m[b].size) => j[e].size_prev = SizeOf(w)
       /\ \A c \in Cell \ H : j[c] = m[c]
  <2>1. CASE Last(m[b].size)
    <3>1. heap_marker_next(u, a) = NULL
      BY <1>7, <1>10, <2>1 DEF heap_marker_next
    <3>2. j = [u EXCEPT ![b] = INVALID]
      BY <1>9, <3>1 DEF tell_next
    <3> QED BY <1>1, <1>2, <1>10, <1>11, <2>1, <3>2
  <2>2. CASE ~Last(m[b].size)
    <3>1. heap_marker_next(u, a) = e
      <4>1. e \in Nat /\ e < WORD \div MARKER
        BY <1>12, <2>2, BlockType
      <4>2. e = a + 1 + SizeOf(w) \div MARKER
        BY <1>2, <1>3, <1>5, <1>7, WordParts
      <4> QED BY <1>7, <1>10, <2>2, <4>1, <4>2, Pointers DEF heap_marker_next
    <3>2. j = [[u EXCEPT ![e].size_prev = SizeOf(w)] EXCEPT ![b] = INVALID]
      BY <1>9, <1>10, <1>12, <2>2, <3>1 DEF tell_next
    <3>3. [u EXCEPT ![e].size_prev = SizeOf(w)] \in [Cell -> Marker]
      BY <1>7, <1>10, <1>12, <2>2 DEF Marker
    <3> QED BY <1>1, <1>2, <1>10, <1>11, <1>12, <2>2, <3>2, <3>3 DEF Marker
  <2> QED BY <2>1, <2>2
<1> HIDE DEF e
<1>14. After(j, a) = e
  BY <1>2, <1>3, <1>5, <1>7, <1>13 DEF After
<1>15. \A c \in H \ {a, b} : /\ After(j, c) = After(m, c) /\ j[c].size = m[c].size
                             /\ After(m, c) # b
  <2> SUFFICES ASSUME NEW c \in H \ {a, b}
               PROVE  j[c].size = m[c].size /\ After(m, c) # b
    BY DEF After
  <2>1. j[c].size = m[c].size
    BY <1>13, BlockType
  <2> QED BY <2>1, Apart
<1>16. \A c \in H \ {b} : HeadWord(j[c].size)
  BY <1>7, <1>13, <1>15, BlockType
<1>17. h.memory \in H \ {b} /\ H \ {b} \subseteq CellsOf(h)
  <2>1. h.memory # b
    BY <1>1, <1>2
  <2> QED BY <2>1 DEF Tiled
<1>18. \A c \in H \ {b} : (c = e /\ ~Last(m[b].size)) => j[c].size_prev = SizeOf(w)
  BY <1>13
<1>19. ASSUME NEW c \in H \ {b}, ~Last(j[c].size)
       PROVE  After(j, c) \in H \ {b} /\ j[After(j, c)].size_prev = SizeOf(j[c].size)
  <2>1. CASE c = a
    BY <1>7, <1>12, <1>13, <1>14, <1>19, <2>1
  <2>2. CASE c # a
    <3>1. /\ After(m, c) \in H \ {b} /\ After(j, c) = After(m, c)
          /\ m[After(m, c)].size_prev = SizeOf(m[c].size) /\ j[c].size = m[c].size
      BY <1>15, <1>19, <2>2 DEF Tiled
    <3>2. After(m, c) # e \/ Last(m[b].size)
      BY <1>1, Apart DEF e
    <3>3. After(m, c) \in Cell
      BY <3>1, BlockType
    <3> QED BY <1>13, <3>1, <3>2, <3>3
  <2> QED BY <2>1, <2>2
<1>20. \A c \in H \ {b} : Last(j[c].size) => After(j, c) = End(h)
  <2>1. Last(m[b].size) => e = End(h)
    BY <1>1 DEF Tiled, e
  <2> QED BY <1>7, <1>13, <1>14, <1>15, <2>1 DEF Tiled
<1>21. \A c, d \in H \ {b} : c < d => After(j, c) <= d
  <2> SUFFICES ASSUME NEW c \in H \ {b}, NEW d \in H \ {b}, c < d PROVE After(j, c) <= d
    OBVIOUS
  <2>1. CASE c # a
    BY <1>15, <2>1 DEF Tiled
  <2>2. CASE c = a
    <3>1. b <= d /\ d \in Nat
      BY <2>2, BlockType DEF Tiled
    <3>2. b < d
      BY <1>2, <3>1
    <3> QED BY <1>1, <1>14, <2>2, <3>2 DEF Tiled, e
  <2> QED BY <2>1, <2>2
<1>22. ASSUME NEW d \in (H \ {b}) \ {h.memory}
       PROVE  \E c \in H \ {b} : c < d /\ ~Last(j[c].size) /\ After(j, c) = d
  <2>1. PICK c \in H : c < d /\ ~Last(m[c].size) /\ After(m, c) = d
    BY <1>22 DEF Tiled
  <2>2. CASE c = b
    BY <1>1, <1>2, <1>7, <1>13, <1>14, <1>22, <2>1, <2>2, BlockType DEF e
  <2>3. CASE c # b
    <3>1. c # a
      BY <1>22, <2>1
    <3> QED BY <1>15, <2>1, <2>3, <3>1
  <2> QED BY <2>2, <2>3
<1>23. j[h.memory].size_prev = 0
  <2>1. Last(m[b].size) \/ h.memory # e
    BY <1>2, <1>5, <1>3, BlockType DEF Sound
  <2>2. h.memory \in Cell \ {b}
    BY <1>17, BlockType
  <2> QED BY <1>13, <2>1, <2>2 DEF Tiled
<1>24. Tiled(h, j, H \ {b})
  BY <1>16, <1>17, <1>19, <1>20, <1>21, <1>22, <1>23 DEF Tiled
<1> QED BY <1>7, <1>13, <1>14, <1>24 DEF j, e, HasJoined

\* The free block at a of m is cut to k cells in n, unless what remains is less
\* than a marker; G are the heads then, with at most one more.
HasSplit(h, m, H, a, k, n, G) ==
  /\ n \in [Cell -> Marker]
  /\ Tiled(h, n, G) /\ H \subseteq G
  /\ ~Taken(n[a].size) /\ SizeOf(n[a].size) \in {8 * k, 8 * k + MARKER}
  /\ \A c \in H \ {a} : n[c].size = m[c].size
  /\ \A c \in G \ H : /\ ~Taken(n[c].size)
                      /\ Last(n[c].size) <=> Last(m[a].size)
                      /\ After(n, c) = After(m, a)
  /\ \A c \in Cell \ G : n[c] = m[c]

\* heap_marker_split cuts a free block behind size bytes, if more than a marker
\* remains.
LEMMA SplitTiled ==
  ASSUME NEW h, Sound(h), NEW m \in [Cell -> Marker], NEW H, Tiled(h, m, H),
         NEW a \in H, ~Taken(m[a].size), NEW k \in Nat, 8 * k <= SizeOf(m[a].size)
  PROVE  \E G : HasSplit(h, m, H, a, k, heap_marker_split(m, a, 8 * k), G)
<1> DEFINE cut == heap_marker_split(m, a, 8 * k)
           t == a + 1 + k
           w == m[a].size
           remain == (SizeOf(w) - 8 * k) % WORD
           e == After(m, a)
<1>1. /\ a \in Cell /\ a \in Nat \ {0} /\ a \in CellsOf(h) /\ h.memory <= a
      /\ HeadWord(w) /\ w \in Word /\ e <= End(h) /\ e \in Nat /\ WORD \in Nat
  BY BlockType, HeapAssumption DEF HeadWord
<1>2. /\ Span(w) \in Nat \ {0} /\ SizeOf(w) = 8 * (Span(w) - 1)
      /\ w = SizeOf(w) + (IF Last(w) THEN 2 ELSE 0)
  BY <1>1, WordParts
<1>3. k <= Span(w) - 1 /\ e = a + Span(w)
  BY <1>2 DEF After
<1>4. remain = 8 * (Span(w) - 1 - k)
  <2>1. SizeOf(w) - 8 * k = 8 * (Span(w) - 1 - k) /\ 8 * (Span(w) - 1 - k) \in 0 .. WORD - 1
    BY <1>1, <1>2, <1>3 DEF Word
  <2> QED BY <1>1, <2>1
<1>5. Pointer(a + 1 + (8 * k) \div MARKER) = (IF t < WORD \div MARKER THEN t ELSE Pointer(t))
  BY <1>1, Pointers DEF MARKER
<1> HIDE DEF remain
<1>6. CASE remain <= MARKER
  <2>1. cut = m
    BY <1>6 DEF heap_marker_split, remain
  <2>2. SizeOf(w) \in {8 * k, 8 * k + MARKER}
    BY <1>2, <1>3, <1>4, <1>6 DEF MARKER
  <2>3. HasSplit(h, m, H, a, k, m, H)
    BY <2>2 DEF HasSplit
  <2> QED BY <2>1, <2>3
<1>7. CASE ~ (remain <= MARKER)
  <2>1. Span(w) - 1 - k >= 2 /\ a < t /\ t < e /\ t \in Nat /\ t # NULL
    BY <1>1, <1>2, <1>3, <1>4, <1>7 DEF MARKER, NULL
  <2>2. t \in CellsOf(h) /\ t < WORD \div MARKER /\ t \in Cell
    BY <1>1, <2>1, Pointers DEF CellsOf, Sound, End, Size
  <2>3. t \notin H
    BY <1>1, <2>1, Apart, BlockType
  <2> DEFINE wt == remain - MARKER + (w % 4)
             u == [m EXCEPT ![t] = [size |-> wt, size_prev |-> 8 * k], ![a].size = 8 * k]
             G == H \union {t}
  <2>4. /\ wt \in Word /\ HeadWord(wt) /\ ~Taken(wt) /\ (Last(wt) <=> Last(w))
        /\ Span(wt) = Span(w) - 1 - k /\ SizeOf(wt) \in Word
    <3> DEFINE n == Span(w) - 1 - k - 1
    <3>1. PICK g \in {0, 2} : w % 4 = g /\ (g = 2 <=> Last(w)) /\ w = 8 * (Span(w) - 1) + g
      <4>1. PICK g \in {0, 2} : w = 8 * (Span(w) - 1) + g /\ (g = 2 <=> Last(w))
        BY <1>2
      <4> QED BY <1>1, <1>2, <4>1, MakeWord
    <3>2. n \in Nat /\ wt = 8 * n + g
      <4>1. n \in Nat /\ remain = 8 * n + 8
        BY <1>2, <1>4, <2>1
      <4>2. wt = remain - 8 + g
        BY <3>1 DEF MARKER
      <4> HIDE DEF n, wt
      <4> QED BY <4>1, <4>2
    <3>3. 8 * n + g < w /\ 8 * n \in Nat
      BY <1>2, <1>3, <3>1, <3>2
    <3>4. wt \in Word /\ 8 * n \in Word
      BY <1>1, <3>2, <3>3 DEF Word
    <3> HIDE DEF wt
    <3>5. /\ HeadWord(wt) /\ ~Taken(wt) /\ (Last(wt) <=> g = 2)
          /\ Span(wt) = 1 + n /\ SizeOf(wt) = 8 * n
      BY <3>2, <3>4, MakeWord
    <3> QED BY <1>2, <3>1, <3>4, <3>5
  <2>5. /\ 8 * k \in Word /\ HeadWord(8 * k) /\ ~Taken(8 * k) /\ ~Last(8 * k)
        /\ Span(8 * k) = 1 + k /\ SizeOf(8 * k) = 8 * k
    <3>1. 8 * k \in Nat /\ 8 * k <= w
      BY <1>2
    <3>2. 8 * k \in Word
      BY <1>1, <3>1 DEF Word
    <3> QED BY <3>2, MakeWord
  <2>6. w % 2 = 0
    BY <1>1 DEF Taken, Word
  <2>7. cut = tell_next(u, t)
    <3>1. Pointer(a + 1 + (8 * k) \div MARKER) = t /\ 8 * k + (w % 2) = 8 * k
      BY <1>5, <2>2, <2>6
    <3>2. cut = tell_next([m EXCEPT ![t] = [size |-> wt, size_prev |-> 8 * k],
                                    ![a].size = 8 * k + (w % 2)], t)
      BY <1>7, <3>1, Zenon DEF heap_marker_split, remain
    <3> QED BY <3>1, <3>2, Zenon
  <2> HIDE DEF wt
  <2>8. /\ u \in [Cell -> Marker] /\ u[t] = [size |-> wt, size_prev |-> 8 * k]
        /\ u[a].size = 8 * k /\ u[a].size_prev = m[a].size_prev
        /\ \A c \in Cell \ {a, t} : u[c] = m[c]
    BY <1>1, <2>1, <2>2, <2>4, <2>5 DEF Marker
  <2>9. Last(w) \/ (e \in H /\ e \in Cell /\ e # a /\ e # t /\ e # NULL /\ e < WORD \div MARKER)
    <3>1. Last(w) \/ e \in H
      BY DEF Tiled
    <3> QED BY <1>1, <2>1, <3>1, BlockType
  <2>10. e = t + 1 + SizeOf(wt) \div MARKER
    BY <1>1, <1>2, <1>3, <2>1, <2>4, WordParts
  <2> HIDE DEF u, cut
  <2>11. /\ cut \in [Cell -> Marker]
         /\ cut[t].size = wt /\ cut[t].size_prev = 8 * k
         /\ cut[a].size = 8 * k /\ cut[a].size_prev = m[a].size_prev
         /\ \A c \in Cell \ {a, t} : cut[c].size = m[c].size
         /\ \A c \in Cell \ {t} : c # e \/ Last(w) => cut[c].size_prev = m[c].size_prev
         /\ ~Last(w) => cut[e].size_prev = SizeOf(wt)
         /\ \A c \in Cell \ G : cut[c] = m[c]
    <3>1. CASE Last(w)
      <4>1. cut = u
        BY <2>4, <2>7, <2>8, <3>1 DEF tell_next, heap_marker_next
      <4> QED BY <1>1, <2>1, <2>2, <2>8, <3>1, <4>1
    <3>2. CASE ~Last(w)
      <4>1. heap_marker_next(u, t) = e
        BY <1>1, <2>4, <2>8, <2>9, <2>10, <3>2, Pointers DEF heap_marker_next
      <4>2. cut = [u EXCEPT ![e].size_prev = SizeOf(wt)]
        <5>1. u[t].size = wt
          BY <2>8
        <5> QED BY <2>7, <2>9, <3>2, <4>1, <5>1, Zenon DEF tell_next
      <4>3. cut \in [Cell -> Marker]
        BY <2>4, <2>8, <2>9, <3>2, <4>2 DEF Marker
      <4> QED BY <1>1, <2>1, <2>2, <2>8, <2>9, <3>2, <4>2, <4>3 DEF Marker
    <3> QED BY <3>1, <3>2
  <2>12. After(cut, a) = t
    BY <1>1, <2>5, <2>11 DEF After
  <2>13. After(cut, t) = e
    BY <1>1, <1>2, <1>3, <2>1, <2>4, <2>11 DEF After
  <2> HIDE DEF t, e
  <2>14. \A c \in H \ {a} : After(cut, c) = After(m, c) /\ cut[c].size = m[c].size
    <3> SUFFICES ASSUME NEW c \in H \ {a} PROVE cut[c].size = m[c].size
      BY DEF After
    <3> QED BY <2>3, <2>11, BlockType
  <2>15. \A c \in G : HeadWord(cut[c].size)
    BY <2>4, <2>5, <2>11, <2>14, BlockType
  <2>16. h.memory \in G /\ G \subseteq CellsOf(h)
    BY <2>2 DEF Tiled
  <2>17. ASSUME NEW c \in G, ~Last(cut[c].size)
         PROVE  After(cut, c) \in G /\ cut[After(cut, c)].size_prev = SizeOf(cut[c].size)
    <3>1. CASE c = a
      BY <2>5, <2>11, <2>12, <3>1
    <3>2. CASE c = t
      BY <2>4, <2>9, <2>11, <2>13, <2>17, <3>2
    <3>3. CASE c \notin {a, t}
      <4>1. /\ After(m, c) \in H /\ After(cut, c) = After(m, c)
            /\ m[After(m, c)].size_prev = SizeOf(m[c].size) /\ cut[c].size = m[c].size
        BY <2>14, <2>17, <3>3 DEF Tiled
      <4>2. After(m, c) # e
        BY <3>3, Apart DEF e
      <4>3. After(m, c) \in Cell /\ After(m, c) # t
        BY <2>3, <4>1, BlockType
      <4> QED BY <2>11, <4>1, <4>2, <4>3
    <3> QED BY <3>1, <3>2, <3>3
  <2>18. \A c \in G : Last(cut[c].size) => After(cut, c) = End(h)
    <3>1. Last(w) => e = End(h)
      BY DEF Tiled, e
    <3> QED BY <2>4, <2>5, <2>11, <2>13, <2>14, <3>1 DEF Tiled
  <2>19. ASSUME NEW c \in G, NEW d \in G, c < d
         PROVE  After(cut, c) <= d
    <3>1. c \in Nat /\ d \in Nat
      BY <2>1, BlockType
    <3>2. CASE c = t
      <4>1. d \in H /\ a < d
        BY <1>1, <2>1, <2>19, <3>1, <3>2
      <4> QED BY <2>13, <3>2, <4>1 DEF Tiled, e
    <3>3. CASE c = a
      <4>1. CASE d = t
        BY <2>1, <2>12, <3>3, <4>1
      <4>2. CASE d # t
        <5>1. e <= d
          BY <2>19, <3>3, <4>2 DEF Tiled, e
        <5> QED BY <1>1, <2>1, <2>12, <3>1, <3>3, <5>1
      <4> QED BY <4>1, <4>2
    <3>4. CASE c \notin {a, t}
      <4>1. CASE d = t
        <5>1. After(m, c) <= a
          <6>1. After(m, c) <= a \/ e <= c
            BY <3>4, Apart DEF e
          <6> QED BY <1>1, <2>1, <2>19, <3>1, <4>1, <6>1
        <5>2. After(m, c) \in Nat
          BY <3>4, BlockType
        <5> QED BY <1>1, <2>1, <2>14, <3>4, <4>1, <5>1, <5>2
      <4>2. CASE d # t
        BY <2>14, <2>19, <3>4, <4>2 DEF Tiled
      <4> QED BY <4>1, <4>2
    <3> QED BY <3>2, <3>3, <3>4
  <2>20. ASSUME NEW d \in G \ {h.memory}
         PROVE  \E c \in G : c < d /\ ~Last(cut[c].size) /\ After(cut, c) = d
    <3>1. CASE d = t
      BY <2>1, <2>5, <2>11, <2>12, <3>1
    <3>2. CASE d # t
      <4>1. PICK c \in H : c < d /\ ~Last(m[c].size) /\ After(m, c) = d
        BY <2>20, <3>2 DEF Tiled
      <4>2. CASE c = a
        BY <2>1, <2>4, <2>11, <2>13, <4>1, <4>2 DEF e
      <4>3. CASE c # a
        BY <2>14, <4>1, <4>3
      <4> QED BY <4>2, <4>3
    <3> QED BY <3>1, <3>2
  <2>21. cut[h.memory].size_prev = 0
    <3>1. h.memory \in H /\ h.memory \in Cell /\ h.memory # t
      BY <1>1, <2>1, BlockType DEF Tiled, Sound
    <3>2. Last(w) \/ h.memory # e
      BY <1>1, <2>1 DEF Sound
    <3> QED BY <2>11, <3>1, <3>2 DEF Tiled
  <2>22. Tiled(h, cut, G)
    BY <2>15, <2>16, <2>17, <2>18, <2>19, <2>20, <2>21 DEF Tiled
  <2>23. HasSplit(h, m, H, a, k, cut, G)
    BY <2>3, <2>4, <2>5, <2>11, <2>13, <2>14, <2>22 DEF HasSplit, e
  <2> QED BY <2>23 DEF cut
<1> QED BY <1>6, <1>7
-----------------------------------------------------------------------------
(* heap_free.                                                              *)

\* No two neighbours are free; x and the block behind it are left out.
JoinedBut(m, H, x) ==
  \A a \in H \ {x} : ~Last(m[a].size) => Taken(m[a].size) \/ Taken(m[After(m, a)].size)
Joined(m, H) ==
  \A a \in H : ~Last(m[a].size) => Taken(m[a].size) \/ Taken(m[After(m, a)].size)

\* What a block that is freed is joined to before it: x is the block then, in G.
Freed(h, m, H, a, l, G, x) ==
  /\ l \in [Cell -> Marker]
  /\ Tiled(h, l, G) /\ JoinedBut(l, G, x)
  /\ x \in G /\ ~Taken(l[x].size)
  /\ Last(l[x].size) <=> Last(m[a].size)
  /\ After(l, x) = After(m, a)
  /\ (G = H /\ x = a) \/ (G = H \ {a} /\ l[a] = INVALID /\ ~Taken(m[x].size))
  /\ \A c \in G \ {x} : l[c].size = m[c].size
  /\ \A c \in Cell \ H : l[c] = m[c]

LEMMA FlagCleared ==
  ASSUME NEW h, Sound(h), NEW m \in [Cell -> Marker], NEW H, Tiled(h, m, H), NEW a \in H
  PROVE  /\ clear_taken(m, a) \in [Cell -> Marker] /\ Tiled(h, clear_taken(m, a), H)
         /\ ~Taken(clear_taken(m, a)[a].size) /\ (Last(clear_taken(m, a)[a].size) <=> Last(m[a].size))
         /\ \A c \in Cell \ {a} : clear_taken(m, a)[c] = m[c]
         /\ \A c \in H : After(clear_taken(m, a), c) = After(m, c)
<1> DEFINE v == m[a].size - (m[a].size % 2)
           f == clear_taken(m, a)
<1>1. a \in Cell /\ HeadWord(m[a].size)
  BY BlockType
<1>2. /\ HeadWord(v) /\ ~Taken(v) /\ (Last(v) <=> Last(m[a].size))
      /\ SizeOf(v) = SizeOf(m[a].size)
  BY <1>1, ClearTaken
<1> HIDE DEF v
<1>3. v \in Word
  BY <1>2 DEF HeadWord
<1>4. /\ f \in [Cell -> Marker] /\ f[a].size = v /\ f[a].size_prev = m[a].size_prev
      /\ \A c \in Cell \ {a} : f[c] = m[c]
  <2>1. f = [m EXCEPT ![a].size = v]
    BY DEF v, clear_taken
  <2> HIDE DEF f
  <2> QED BY <1>1, <1>3, <2>1 DEF Marker
<1> HIDE DEF f
<1>5. \A c \in H : /\ HeadWord(f[c].size) /\ SizeOf(f[c].size) = SizeOf(m[c].size)
                   /\ Last(f[c].size) <=> Last(m[c].size)
                   /\ f[c].size_prev = m[c].size_prev
  BY <1>2, <1>4, BlockType
<1>6. Tiled(h, f, H) /\ \A c \in H : After(f, c) = After(m, c)
  BY <1>5, SameBlocks
<1> QED BY <1>2, <1>4, <1>6 DEF f

\* The first of heap_free's joins.
LEMMA FreeJoinsBefore ==
  ASSUME NEW h, Sound(h), NEW m \in [Cell -> Marker], NEW H, Tiled(h, m, H), Joined(m, H),
         NEW a \in H, Taken(m[a].size),
         NEW prev, prev = heap_marker_prev(h, m, a)
  PROVE  IF prev # NULL /\ ~Taken(clear_taken(m, a)[prev].size)
         THEN Freed(h, m, H, a, heap_marker_join(clear_taken(m, a), prev, a), H \ {a}, prev)
         ELSE Freed(h, m, H, a, clear_taken(m, a), H, a)
<1> DEFINE f      == clear_taken(m, a)
           behind == prev # NULL /\ ~Taken(f[prev].size)
<1>1. /\ f \in [Cell -> Marker] /\ Tiled(h, f, H)
      /\ ~Taken(f[a].size) /\ (Last(f[a].size) <=> Last(m[a].size))
      /\ \A c \in Cell \ {a} : f[c] = m[c]
      /\ \A c \in H : After(f, c) = After(m, c)
  BY FlagCleared
<1> HIDE DEF f
<1>2. prev # NULL => /\ prev \in H /\ prev # a /\ ~Last(m[prev].size) /\ After(m, prev) = a
                     /\ a # h.memory
  BY PrevBlock, BlockType
<1>3. prev = NULL => a = h.memory
  BY PrevBlock
<1>4. \A c \in H : c \in Cell /\ c \in Nat /\ c < After(m, c)
  BY BlockType
<1>5. \A c \in H \ {a} : f[c].size = m[c].size
  BY <1>1, <1>4
<1>6. CASE behind
  <2> DEFINE l == heap_marker_join(f, prev, a)
             G == H \ {a}
  <2>1. /\ prev \in H /\ prev # a /\ ~Last(f[prev].size) /\ ~Taken(f[prev].size)
        /\ After(f, prev) = a /\ f[prev].size = m[prev].size
    BY <1>1, <1>2, <1>5, <1>6
  <2>2. /\ l \in [Cell -> Marker]
        /\ Tiled(h, l, G)
        /\ HasJoined(f, prev, a, l)
        /\ \A c \in Cell \ H : l[c] = f[c]
    <3>1. ~Taken(f[a].size) /\ f \in [Cell -> Marker] /\ Tiled(h, f, H)
      BY <1>1
    <3> QED BY <2>1, <3>1, JoinTiled, SMTT(20)
  <2> HIDE DEF l
  <2>3. \A c \in G \ {prev} : l[c].size = m[c].size /\ After(l, c) = After(m, c)
    BY <1>4, <1>5, <2>2 DEF After, HasJoined
  <2>4. ASSUME NEW c \in G \ {prev}, ~Last(l[c].size)
        PROVE  Taken(l[c].size) \/ Taken(l[After(l, c)].size)
    <3>1. /\ Taken(m[c].size) \/ Taken(m[After(m, c)].size)
          /\ After(m, c) \in H /\ After(l, c) = After(m, c) /\ l[c].size = m[c].size
      BY <2>3, <2>4 DEF Joined, Tiled
    <3>2. CASE After(m, c) = prev
      BY <2>1, <3>1, <3>2
    <3>3. CASE After(m, c) # prev
      <4>1. After(m, c) # a
        BY <1>2, <1>6, <2>4, Apart
      <4> QED BY <2>3, <3>1, <3>3, <4>1
    <3> QED BY <3>2, <3>3
  <2>5. JoinedBut(l, G, prev)
    BY <2>4 DEF JoinedBut
  <2>6. /\ Last(l[prev].size) <=> Last(m[a].size)
        /\ After(l, prev) = After(m, a) /\ ~Taken(m[prev].size) /\ ~Taken(l[prev].size)
        /\ l[a] = INVALID /\ \A c \in Cell \ H : l[c] = m[c]
    BY <1>1, <2>1, <2>2 DEF HasJoined
  <2>7. Freed(h, m, H, a, l, G, prev)
    BY <2>1, <2>2, <2>3, <2>5, <2>6 DEF Freed
  <2> QED BY <1>6, <2>7 DEF f, l
<1>7. CASE ~behind
  <2>1. ASSUME NEW c \in H \ {a}, ~Last(f[c].size)
        PROVE  Taken(f[c].size) \/ Taken(f[After(f, c)].size)
    <3>1. /\ Taken(m[c].size) \/ Taken(m[After(m, c)].size)
          /\ After(m, c) \in H /\ After(f, c) = After(m, c) /\ f[c].size = m[c].size
      BY <1>1, <1>5, <2>1 DEF Joined, Tiled
    <3>2. CASE After(m, c) = a
      <4>1. a # h.memory
        BY <1>4, <3>2, CellType, BlockType DEF Tiled, Sound
      <4>2. c = prev
        BY <1>2, <1>3, <3>2, <4>1, Apart
      <4> QED BY <1>7, <1>2, <1>3, <4>1, <4>2
    <3>3. CASE After(m, c) # a
      BY <1>5, <3>1, <3>3
    <3> QED BY <3>2, <3>3
  <2>2. JoinedBut(f, H, a)
    BY <2>1 DEF JoinedBut
  <2>3. Freed(h, m, H, a, f, H, a)
    BY <1>1, <1>4, <1>5, <2>2 DEF Freed
  <2> QED BY <1>7, <2>3 DEF f
<1> QED BY <1>6, <1>7

\* The second leaves no two free neighbours.
LEMMA JoinsBehind ==
  ASSUME NEW h, Sound(h), NEW l \in [Cell -> Marker], NEW G, Tiled(h, l, G),
         NEW x \in G, JoinedBut(l, G, x), ~Taken(l[x].size),
         ~Last(l[x].size), NEW b, b = After(l, x), ~Taken(l[b].size),
         NEW j, Tiled(h, j, G \ {b}), HasJoined(l, x, b, j)
  PROVE  Joined(j, G \ {b})
<1>1. /\ Last(j[x].size) <=> Last(l[b].size)
      /\ After(j, x) = After(l, b)
      /\ \A c \in Cell \ {x, b} : j[c].size = l[c].size
  BY DEF HasJoined
<1>2. \A c \in G : c \in Cell /\ c \in Nat /\ c < After(l, c)
  BY BlockType
<1>3. b \in G /\ x < b
  BY <1>2 DEF Tiled
<1>4. \A c \in G \ {x, b} : j[c].size = l[c].size /\ After(j, c) = After(l, c)
  BY <1>1, <1>2 DEF After
<1>5. ASSUME NEW c \in G \ {b}, ~Last(j[c].size)
      PROVE  Taken(j[c].size) \/ Taken(j[After(j, c)].size)
  <2>1. CASE c = x
    <3>1. ~Last(l[b].size) /\ b # x
      BY <1>1, <1>2, <1>3, <1>5, <2>1
    <3>2. Taken(l[After(l, b)].size) /\ After(l, b) \in G /\ After(l, b) \notin {x, b}
      BY <1>2, <1>3, <3>1 DEF JoinedBut, Tiled
    <3> QED BY <1>1, <1>4, <2>1, <3>2
  <2>2. CASE c # x
    <3>1. /\ Taken(l[c].size) \/ Taken(l[After(l, c)].size)
          /\ After(l, c) \in G /\ After(j, c) = After(l, c) /\ j[c].size = l[c].size
      BY <1>4, <1>5, <2>2 DEF JoinedBut, Tiled
    <3>2. After(l, c) # b
      BY <2>2, Apart
    <3>3. CASE After(l, c) = x
      BY <3>1, <3>3
    <3>4. CASE After(l, c) # x
      BY <1>4, <3>1, <3>2, <3>4
    <3> QED BY <3>3, <3>4
  <2> QED BY <2>1, <2>2
<1> QED BY <1>5 DEF Joined
\* After the block at a of m is freed, the heap n has heads G: every other
\* block that was taken is as it was, and no marker is left of what was joined.
Released(h, m, H, a, n, G) ==
  /\ n \in [Cell -> Marker]
  /\ Tiled(h, n, G) /\ Joined(n, G)
  /\ \A c \in H \ {a} : Taken(m[c].size) => c \in G /\ n[c].size = m[c].size
  /\ \A c \in G : Taken(n[c].size) => c # a /\ Taken(m[c].size)
  /\ \A c \in H \ G : n[c] = INVALID
  /\ \A c \in Cell \ H : n[c] = m[c]

\* heap_free gives back a block that is taken, and joins it with its neighbours.
LEMMA FreeTaken ==
  ASSUME NEW h, Sound(h), NEW m \in [Cell -> Marker], NEW H, Tiled(h, m, H), Joined(m, H),
         NEW a \in H, Taken(m[a].size)
  PROVE  /\ heap_free(h, m, a + 1).ret = 1
         /\ \E G \in SUBSET H : Released(h, m, H, a, heap_free(h, m, a + 1).mem, G)
<1> DEFINE prev   == heap_marker_prev(h, m, a)
           next   == heap_marker_next(m, a)
           f      == clear_taken(m, a)
           behind == prev # NULL /\ ~Taken(f[prev].size)
           l      == IF behind THEN heap_marker_join(f, prev, a) ELSE f
           x      == IF behind THEN prev ELSE a
           G      == IF behind THEN H \ {a} ELSE H
           n      == IF next # NULL /\ ~Taken(l[next].size)
                     THEN heap_marker_join(l, x, next) ELSE l
<1>1. /\ a \in Nat \ {0} /\ a < WORD \div MARKER /\ Pointer(a + 1 - 1) = a
      /\ in_this_heap(h, a)
  <2>1. a \in Nat \ {0} /\ a < WORD \div MARKER /\ h.memory <= a /\ a < End(h)
    BY BlockType, CellType
  <2>2. a + 1 - 1 = a
    BY <2>1
  <2> QED BY <2>1, <2>2, Pointers DEF in_this_heap, Sound, End
<1>2. prev # NULL => /\ prev \in H /\ ~Last(m[prev].size) /\ After(m, prev) = a
  BY PrevBlock
<1>3. next # NULL => /\ next \in H /\ ~Last(m[a].size) /\ After(m, a) = next /\ next # a
  BY NextBlock, BlockType
<1>4. next = NULL => Last(m[a].size)
  BY NextBlock
<1>5. heap_free(h, m, a + 1) = [mem |-> n, ret |-> 1]
  <2>1. /\ prev # NULL => m[a].size_prev = SizeOf(m[prev].size)
        /\ next # NULL => m[next].size_prev = SizeOf(m[a].size)
    BY <1>2, <1>3 DEF Tiled
  <2>2. sane(h, m, a) /\ Taken(m[a].size)
    BY <2>1 DEF sane
  <2>3. release(h, m, a) = n
    BY Zenon DEF release
  <2> HIDE DEF n
  <2> QED BY <1>1, <2>2, <2>3 DEF heap_free
<1>6. Freed(h, m, H, a, l, G, x)
  BY FreeJoinsBefore
<1>7. \A c \in H : c \in Cell
  BY BlockType
<1> HIDE DEF prev, next, f, behind, l, x, G
<1>8. CASE next # NULL /\ ~Taken(l[next].size)
  <2>1. /\ ~Last(l[x].size) /\ After(l, x) = next /\ next \in G /\ x \in G /\ ~Taken(l[x].size)
        /\ l \in [Cell -> Marker] /\ Tiled(h, l, G) /\ JoinedBut(l, G, x)
    BY <1>3, <1>6, <1>8 DEF Freed
  <2>2. n = heap_marker_join(l, x, next)
    BY <1>8
  <2>3. /\ n \in [Cell -> Marker] /\ Tiled(h, n, G \ {next}) /\ HasJoined(l, x, next, n)
        /\ \A c \in Cell \ G : n[c] = l[c]
    <3> DEFINE j == heap_marker_join(l, x, next)
    <3>1. /\ j \in [Cell -> Marker] /\ Tiled(h, j, G \ {next}) /\ HasJoined(l, x, next, j)
          /\ \A c \in Cell \ G : j[c] = l[c]
      BY <1>8, <2>1, JoinTiled
    <3> HIDE DEF n, j
    <3> QED BY <2>2, <3>1 DEF j
  <2> HIDE DEF n
  <2>4. Joined(n, G \ {next})
    BY <1>8, <2>1, <2>3, JoinsBehind
  <2>5. \A c \in H \ {a} : Taken(m[c].size) => c \in G \ {next} /\ n[c].size = m[c].size
    BY <1>6, <1>7, <1>8, <2>3 DEF Freed, HasJoined
  <2>6. \A c \in G \ {next} : Taken(n[c].size) => c # a /\ Taken(m[c].size)
    BY <1>6, <1>7, <2>3 DEF Freed, HasJoined
  <2>7. \A c \in H \ (G \ {next}) : n[c] = INVALID
    BY <1>6, <1>7, <2>3 DEF Freed, HasJoined
  <2>8. \A c \in Cell \ H : n[c] = m[c]
    BY <1>6, <2>3 DEF Freed
  <2>9. G \ {next} \in SUBSET H
    BY <1>6 DEF Freed
  <2>10. Released(h, m, H, a, n, G \ {next})
    BY <2>3, <2>4, <2>5, <2>6, <2>7, <2>8 DEF Released
  <2> QED BY <1>5, <2>9, <2>10
<1>9. CASE ~ (next # NULL /\ ~Taken(l[next].size))
  <2>1. n = l
    BY <1>9
  <2> HIDE DEF n
  <2>2. Joined(l, G)
    <3> SUFFICES ASSUME NEW c \in G, ~Last(l[c].size)
                 PROVE  Taken(l[c].size) \/ Taken(l[After(l, c)].size)
      BY DEF Joined
    <3>1. CASE c = x
      BY <1>3, <1>4, <1>6, <1>9, <3>1 DEF Freed
    <3>2. CASE c # x
      BY <1>6, <3>2 DEF Freed, JoinedBut
    <3> QED BY <3>1, <3>2
  <2>3. \A c \in H \ {a} : Taken(m[c].size) => c \in G /\ l[c].size = m[c].size
    BY <1>6 DEF Freed
  <2>4. \A c \in G : Taken(l[c].size) => c # a /\ Taken(m[c].size)
    BY <1>6 DEF Freed
  <2>5. \A c \in H \ G : l[c] = INVALID
    BY <1>6 DEF Freed
  <2>6. G \in SUBSET H
    BY <1>6 DEF Freed
  <2>7. Released(h, m, H, a, l, G)
    BY <1>6, <2>2, <2>3, <2>4, <2>5 DEF Freed, Released
  <2> QED BY <1>5, <2>1, <2>6, <2>7
<1> QED BY <1>8, <1>9

\* What it is given again it refuses: a block that is free, or the marker of one
\* that was joined to another.
LEMMA FreeRefused ==
  ASSUME NEW h, Sound(h), NEW m \in [Cell -> Marker], NEW a \in CellsOf(h),
         m[a] = INVALID \/ ~Taken(m[a].size)
  PROVE  heap_free(h, m, a + 1) = [mem |-> m, ret |-> 0]
<1>1. /\ a \in Nat \ {0} /\ a < WORD \div MARKER /\ Pointer(a + 1 - 1) = a /\ h.memory <= a
  <2>1. a \in Nat \ {0} /\ a < WORD \div MARKER /\ h.memory <= a
    BY CellType
  <2>2. a + 1 - 1 = a
    BY <2>1
  <2> QED BY <2>1, <2>2, Pointers
<1>2. CASE ~Taken(m[a].size)
  BY <1>1, <1>2 DEF heap_free
<1>3. CASE m[a] = INVALID
  <2> DEFINE W == WORD \div 8
  <2>1. W \in Nat /\ WORD = 8 * W /\ a < W
    BY <1>1, HeapAssumption DEF MARKER
  <2>2. (WORD - 1) \div MARKER = W - 1 /\ SizeOf(WORD - 1) = WORD - 4
    BY <1>1, <2>1 DEF MARKER, SizeOf
  <2>3. a - 1 - (W - 1) = a - W /\ (a - W) % W = a
    <3> HIDE DEF W
    <3> QED BY <1>1, <2>1
  <2>4. heap_marker_prev(h, m, a) = a
    BY <1>1, <1>3, <2>2, <2>3 DEF heap_marker_prev, INVALID, Pointer, MARKER, Sound
  <2>5. m[a].size_prev = WORD - 1 /\ m[a].size = WORD - 1
    BY <1>3 DEF INVALID
  <2>6. a # NULL /\ m[a].size_prev # SizeOf(m[a].size)
    BY <1>1, <2>1, <2>2, <2>5 DEF NULL
  <2>7. ~ sane(h, m, a)
    BY <2>4, <2>6 DEF sane
  <2> QED BY <1>1, <2>7 DEF heap_free
<1> QED BY <1>2, <1>3
-----------------------------------------------------------------------------
(* heap_alloc.                                                             *)

\* The search finds a free block that is large enough, if there is one.
LEMMA BestFit ==
  ASSUME NEW h, Sound(h), NEW m, NEW H, Tiled(h, m, H), NEW size \in Nat
  PROVE  IF best_fit(h, m, size) = NULL
         THEN \A a \in H : Taken(m[a].size) \/ SizeOf(m[a].size) < size
         ELSE /\ best_fit(h, m, size) \in H
              /\ ~Taken(m[best_fit(h, m, size)].size)
              /\ size <= SizeOf(m[best_fit(h, m, size)].size)
<1> DEFINE fit      == {a \in H : ~Taken(m[a].size) /\ SizeOf(m[a].size) >= size}
           first(a) == \A b \in fit :
                         \/ SizeOf(m[a].size) < SizeOf(m[b].size)
                         \/ SizeOf(m[a].size) = SizeOf(m[b].size) /\ a <= b
<1>1. best_fit(h, m, size) = IF fit = {} THEN NULL ELSE CHOOSE a \in fit : first(a)
  <2> DEFINE search(B) ==
        LET fits == {a \in B : ~ Taken(m[a].size) /\ SizeOf(m[a].size) >= size}
        IN  IF fits = {} THEN NULL
            ELSE CHOOSE a \in fits : \A b \in fits :
                   \/ SizeOf(m[a].size) < SizeOf(m[b].size)
                   \/ SizeOf(m[a].size) = SizeOf(m[b].size) /\ a <= b
  <2>1. best_fit(h, m, size) = search(blocks(h, m))
    BY Zenon DEF best_fit
  <2>2. search(blocks(h, m)) = search(H)
    <3>1. blocks(h, m) = H
      BY TiledBlocks
    <3> HIDE DEF search
    <3> QED BY <3>1
  <2>3. search(H) = IF fit = {} THEN NULL ELSE CHOOSE a \in fit : first(a)
    BY Zenon
  <2> HIDE DEF search
  <2> QED BY <2>1, <2>2, <2>3, Zenon
<1>2. \A a \in H : a \in Nat /\ a # NULL /\ SizeOf(m[a].size) \in Nat
  BY BlockType, WordParts
<1>3. \A a \in fit : a \in H /\ ~Taken(m[a].size) /\ size <= SizeOf(m[a].size)
  BY <1>2
<1>4. \A a \in H : a \in fit \/ Taken(m[a].size) \/ SizeOf(m[a].size) < size
  BY <1>2
<1> HIDE DEF fit
<1>5. CASE fit = {}
  BY <1>1, <1>4, <1>5
<1>6. CASE fit # {}
  <2> DEFINE sizes == {SizeOf(m[a].size) : a \in fit}
  <2>1. sizes \subseteq Nat /\ sizes # {}
    BY <1>2, <1>3, <1>6
  <2>2. PICK s \in sizes : \A t \in sizes : s <= t
    <3> HIDE DEF sizes
    <3> QED BY <2>1, Least
  <2> DEFINE least == {a \in fit : SizeOf(m[a].size) = s}
  <2>3. least \subseteq Nat /\ least # {}
    BY <1>2, <1>3, <2>2
  <2>4. PICK a \in least : \A b \in least : a <= b
    <3> HIDE DEF least
    <3> QED BY <2>3, Least
  <2>5. first(a)
    <3> SUFFICES ASSUME NEW b \in fit
                 PROVE  \/ SizeOf(m[a].size) < SizeOf(m[b].size)
                        \/ SizeOf(m[a].size) = SizeOf(m[b].size) /\ a <= b
      OBVIOUS
    <3>1. s <= SizeOf(m[b].size) /\ SizeOf(m[a].size) = s /\ s \in Nat
          /\ SizeOf(m[b].size) \in Nat
      BY <1>2, <1>3, <2>2, <2>4
    <3> QED BY <2>4, <3>1
  <2>6. (CHOOSE c \in fit : first(c)) \in fit
    <3> HIDE DEF first
    <3> QED BY <2>4, <2>5
  <2> HIDE DEF first
  <2> QED BY <1>1, <1>2, <1>3, <1>6, <2>6
<1> QED BY <1>5, <1>6
\* The memory when the flag of the block at a is set.
set_taken(m, a) == [m EXCEPT ![a].size = @ + 1]

LEMMA FlagSet ==
  ASSUME NEW h, Sound(h), NEW m \in [Cell -> Marker], NEW H, Tiled(h, m, H), NEW a \in H,
         ~Taken(m[a].size)
  PROVE  /\ set_taken(m, a) \in [Cell -> Marker] /\ Tiled(h, set_taken(m, a), H)
         /\ Taken(set_taken(m, a)[a].size)
         /\ SizeOf(set_taken(m, a)[a].size) = SizeOf(m[a].size)
         /\ Last(set_taken(m, a)[a].size) <=> Last(m[a].size)
         /\ \A c \in Cell \ {a} : set_taken(m, a)[c] = m[c]
         /\ \A c \in H : After(set_taken(m, a), c) = After(m, c)
<1> DEFINE v == m[a].size + 1
           f == set_taken(m, a)
<1>1. a \in Cell /\ HeadWord(m[a].size)
  BY BlockType
<1>2. /\ HeadWord(v) /\ Taken(v) /\ (Last(v) <=> Last(m[a].size))
      /\ SizeOf(v) = SizeOf(m[a].size)
  BY <1>1, SetTaken
<1> HIDE DEF v
<1>3. v \in Word
  BY <1>2 DEF HeadWord
<1>4. /\ f \in [Cell -> Marker] /\ f[a].size = v /\ f[a].size_prev = m[a].size_prev
      /\ \A c \in Cell \ {a} : f[c] = m[c]
  <2>1. f = [m EXCEPT ![a].size = v]
    BY DEF v, set_taken
  <2> HIDE DEF f
  <2> QED BY <1>1, <1>3, <2>1 DEF Marker
<1> HIDE DEF f
<1>5. \A c \in H : /\ HeadWord(f[c].size) /\ SizeOf(f[c].size) = SizeOf(m[c].size)
                   /\ Last(f[c].size) <=> Last(m[c].size)
                   /\ f[c].size_prev = m[c].size_prev
  BY <1>2, <1>4, BlockType
<1>6. Tiled(h, f, H) /\ \A c \in H : After(f, c) = After(m, c)
  BY <1>5, SameBlocks
<1> QED BY <1>2, <1>4, <1>6 DEF f

\* The free block at a of m is taken in n, for k cells, and G are the heads then.
Taking(h, m, H, a, k, n, G) ==
  /\ n \in [Cell -> Marker]
  /\ Tiled(h, n, G) /\ Joined(n, G)
  /\ a \in H /\ H \subseteq G
  /\ ~Taken(m[a].size) /\ Taken(n[a].size)
  /\ SizeOf(n[a].size) \in {8 * k, 8 * k + MARKER}
  /\ \A c \in H \ {a} : n[c].size = m[c].size
  /\ \A c \in G \ H : ~Taken(n[c].size)
  /\ \A c \in Cell \ G : n[c] = m[c]

\* A block is split and marked.
LEMMA CutTaken ==
  ASSUME NEW h, Sound(h), NEW m \in [Cell -> Marker], NEW H, Tiled(h, m, H), Joined(m, H),
         NEW a \in H, ~Taken(m[a].size), NEW k \in Nat, 8 * k <= SizeOf(m[a].size)
  PROVE  \E G \in SUBSET CellsOf(h) :
           Taking(h, m, H, a, k, set_taken(heap_marker_split(m, a, 8 * k), a), G)
<1> DEFINE cut == heap_marker_split(m, a, 8 * k)
           n   == set_taken(cut, a)
<1>1. PICK G : HasSplit(h, m, H, a, k, cut, G)
  BY SplitTiled
<1> HIDE DEF cut
<1>2. /\ cut \in [Cell -> Marker] /\ Tiled(h, cut, G) /\ H \subseteq G /\ a \in G
      /\ ~Taken(cut[a].size) /\ SizeOf(cut[a].size) \in {8 * k, 8 * k + MARKER}
      /\ \A c \in H \ {a} : cut[c].size = m[c].size
      /\ \A c \in G \ H : ~Taken(cut[c].size)
      /\ \A c \in Cell \ G : cut[c] = m[c]
  BY <1>1 DEF HasSplit
<1>3. \A c \in G : c \in Cell
  BY <1>2, BlockType
<1>4. /\ n \in [Cell -> Marker] /\ Tiled(h, n, G) /\ Taken(n[a].size)
      /\ SizeOf(n[a].size) = SizeOf(cut[a].size) /\ (Last(n[a].size) <=> Last(cut[a].size))
      /\ \A c \in Cell \ {a} : n[c] = cut[c]
      /\ \A c \in G : After(n, c) = After(cut, c)
  BY <1>2, FlagSet
<1> HIDE DEF n
<1>5. \A c \in H \ {a} : n[c].size = m[c].size /\ After(n, c) = After(m, c)
  BY <1>2, <1>3, <1>4 DEF After
<1>6. ASSUME NEW c \in G, ~Last(n[c].size)
      PROVE  Taken(n[c].size) \/ Taken(n[After(n, c)].size)
  <2>1. CASE c = a
    BY <1>4, <2>1
  <2>2. CASE c \in G \ H
    <3>1. /\ c # a /\ n[c] = cut[c]
          /\ Last(cut[c].size) <=> Last(m[a].size)
          /\ After(n, c) = After(m, a)
      BY <1>1, <1>3, <1>4, <2>2 DEF HasSplit
    <3>2. ~Last(m[a].size)
      BY <1>6, <3>1
    <3>3. After(m, a) \in H /\ Taken(m[After(m, a)].size) /\ After(m, a) # a
      BY <3>2, BlockType DEF Tiled, Joined
    <3> QED BY <1>5, <3>1, <3>3
  <2>3. CASE c \in H \ {a}
    <3>1. /\ Taken(m[c].size) \/ Taken(m[After(m, c)].size)
          /\ After(m, c) \in H /\ n[c].size = m[c].size /\ After(n, c) = After(m, c)
      BY <1>5, <1>6, <2>3 DEF Tiled, Joined
    <3> QED BY <1>4, <1>5, <3>1
  <2> QED BY <2>1, <2>2, <2>3
<1>7. Joined(n, G)
  BY <1>6 DEF Joined
<1>8. Taking(h, m, H, a, k, n, G)
  BY <1>2, <1>3, <1>4, <1>5, <1>7 DEF Taking
<1>9. G \in SUBSET CellsOf(h)
  BY <1>2 DEF Tiled
<1> QED BY <1>8, <1>9 DEF n, cut

\* heap_alloc takes a free block, or there is none large enough.
LEMMA AllocTakes ==
  ASSUME NEW h, Sound(h), NEW m \in [Cell -> Marker], NEW H, Tiled(h, m, H), Joined(m, H),
         NEW n \in Nat
  PROVE  IF heap_alloc(h, m, n).ret = NULL
         THEN /\ heap_alloc(h, m, n).mem = m
              /\ n >= 1 => \A a \in H : Taken(m[a].size) \/ SizeOf(m[a].size) < 8 * Room(n)
         ELSE /\ n >= 1
              /\ \E a \in H, G \in SUBSET CellsOf(h) :
                   /\ heap_alloc(h, m, n).ret = a + 1
                   /\ Taking(h, m, H, a, Room(n), heap_alloc(h, m, n).mem, G)
<1> DEFINE size == ((n + 7) \div 8) * 8
           best == IF n >= 1 THEN best_fit(h, m, size) ELSE NULL
           r    == heap_alloc(h, m, n)
<1>1. size = 8 * Room(n) /\ Room(n) \in Nat
  BY DEF Room
<1>2. r = IF best = NULL THEN [mem |-> m, ret |-> NULL]
          ELSE [mem |-> set_taken(heap_marker_split(m, best, size), best), ret |-> best + 1]
  BY Zenon DEF heap_alloc, set_taken
<1> HIDE DEF size, r
<1>3. IF best_fit(h, m, size) = NULL
      THEN \A a \in H : Taken(m[a].size) \/ SizeOf(m[a].size) < size
      ELSE /\ best_fit(h, m, size) \in H
           /\ ~Taken(m[best_fit(h, m, size)].size)
           /\ size <= SizeOf(m[best_fit(h, m, size)].size)
  <2>1. size \in Nat
    BY <1>1
  <2> QED BY <2>1, BestFit
<1>4. CASE best = NULL
  <2>1. r.mem = m /\ r.ret = NULL
    BY <1>2, <1>4
  <2>2. n >= 1 => \A a \in H : Taken(m[a].size) \/ SizeOf(m[a].size) < 8 * Room(n)
    BY <1>1, <1>3, <1>4
  <2> QED BY <2>1, <2>2 DEF r
<1>5. CASE best # NULL
  <2>1. /\ best \in H /\ ~Taken(m[best].size) /\ 8 * Room(n) <= SizeOf(m[best].size)
        /\ n >= 1
    BY <1>1, <1>3, <1>5
  <2> HIDE DEF best
  <2>2. r.ret = best + 1 /\ r.mem = set_taken(heap_marker_split(m, best, 8 * Room(n)), best)
    BY <1>1, <1>2, <1>5
  <2>3. r.ret # NULL
    BY <2>1, <2>2, BlockType DEF NULL
  <2>4. \E G \in SUBSET CellsOf(h) : Taking(h, m, H, best, Room(n), r.mem, G)
    BY <1>1, <2>1, <2>2, CutTaken
  <2> QED BY <2>1, <2>2, <2>3, <2>4 DEF r
<1> QED BY <1>4, <1>5
-----------------------------------------------------------------------------
(* The two heaps.                                                          *)

LEMMA Sizes ==
  ASSUME NEW n \in Nat
  PROVE  /\ Aligned(n) \in Nat /\ Aligned(n) \div MARKER \in Nat
         /\ Aligned(n) = 8 * (Aligned(n) \div MARKER)
         /\ n >= MARKER => Aligned(n) \div MARKER # 0
<1>1. PICK k \in Nat, r \in 0 .. 7 : n = 8 * k + r
  <2>1. n = 8 * (n \div 8) + (n % 8) /\ n \div 8 \in Nat /\ n % 8 \in 0 .. 7
    OBVIOUS
  <2> QED BY <2>1
<1>2. n % 8 = r
  BY <1>1
<1>3. Aligned(n) = 8 * k
  BY <1>1, <1>2 DEF Aligned
<1>4. (8 * k) \div 8 = k
  OBVIOUS
<1>5. n >= 8 => k # 0
  BY <1>1
<1> QED BY <1>3, <1>4, <1>5 DEF MARKER

LEMMA HeapSound == Sound(heap)
<1>1. /\ heap.memory = Base /\ heap.size = Aligned(HeapSize)
      /\ Base \in Nat \ {0} /\ HeapSize \in Nat /\ HeapSize >= MARKER
      /\ heap.memory + heap.size < WORD \div MARKER
  BY HeapAssumption DEF heap
<1>2. /\ heap.size \in Nat /\ Size(heap) \in Nat \ {0} /\ heap.size = 8 * Size(heap)
  BY <1>1, Sizes DEF Size
<1>3. End(heap) <= WORD \div MARKER
  BY <1>1, <1>2, Pointers DEF End
<1> QED BY <1>1, <1>2, <1>3 DEF Sound, Cell

LEMMA OtherSound ==
  /\ CellsOf(heap) \intersect CellsOf(other) = {}
  /\ CellsOf(other) # {} => Sound(other)
<1>1. /\ heap.memory \in Nat \ {0} /\ Size(heap) \in Nat \ {0}
      /\ other.memory = heap.memory + Size(heap)
  BY HeapSound DEF Sound, other, heap, Size
<1>2. /\ other.size \in Nat /\ Size(other) \in Nat /\ other.size = 8 * Size(other)
  BY HeapAssumption, Sizes DEF Size, other
<1>3. End(other) <= WORD \div MARKER
  BY HeapAssumption DEF End, Size
<1>4. CASE Size(other) = 0
  BY <1>1, <1>2, <1>4 DEF CellsOf, Size
<1>5. CASE Size(other) # 0
  <2>1. Sound(other)
    BY <1>1, <1>2, <1>3, <1>5 DEF Sound, Cell
  <2>2. CellsOf(heap) \intersect CellsOf(other) = {}
    BY <1>1 DEF CellsOf, Size
  <2> QED BY <2>1, <2>2
<1> QED BY <1>4, <1>5

LEMMA Asked == \A n \in Requests : n \in Nat /\ Room(n) \in Nat /\ (n >= 1 => Room(n) # 0)
<1>1. \A n \in Requests : n \in Nat
  BY HeapAssumption
<1>2. \A n \in Nat : Room(n) \in Nat /\ (n >= 1 => Room(n) # 0)
  BY DEF Room
<1> QED BY <1>1, <1>2

-----------------------------------------------------------------------------
(* The invariant.                                                          *)

\* With heads H, the memory m is a heap of blocks no two neighbours of which are
\* free; those taken are the program's, held in lv; of what it has freed, in st,
\* the marker is free or invalid and out of the reach of its writes.
Good(m, lv, st, H) ==
  /\ m \in [Cell -> Marker]
  /\ Tiled(heap, m, H) /\ Joined(m, H)
  /\ lv \in [DOMAIN lv -> Requests]
  /\ \A p \in DOMAIN lv : /\ p \in Nat /\ p - 1 \in H /\ Taken(m[p - 1].size)
                          /\ SizeOf(m[p - 1].size) \in {8 * Room(lv[p]), 8 * Room(lv[p]) + MARKER}
  /\ \A a \in H : Taken(m[a].size) => a + 1 \in DOMAIN lv
  /\ \A p \in st : /\ p \in Nat /\ p - 1 \in CellsOf(heap)
                   /\ m[p - 1] = INVALID \/ ~Taken(m[p - 1].size)
                   /\ \A q \in DOMAIN lv : p - 1 \notin Payload(q, lv[q])

Calls == [op : {"init", "heap_alloc", "heap_free"}, arg : Nat, ret : Nat]

IInv == (\E H : Good(mem, live, stale, H)) /\ call \in Calls

\* A block's payload is inside the block, and no head is in it.
LEMMA PayloadInside ==
  ASSUME NEW m, NEW lv, NEW st, NEW H, Good(m, lv, st, H), NEW p \in DOMAIN lv
  PROVE  /\ p \in Nat /\ p - 1 \in H /\ p = (p - 1) + 1 /\ Room(lv[p]) \in Nat
         /\ p + Room(lv[p]) <= After(m, p - 1)
         /\ Payload(p, lv[p]) \subseteq CellsOf(heap)
         /\ \A a \in H : a \notin Payload(p, lv[p])
         /\ \A c \in Payload(p, lv[p]) : c \in Nat /\ p <= c /\ c < After(m, p - 1)
<1> DEFINE a == p - 1
           k == Room(lv[p])
<1>1. /\ p \in Nat /\ a \in H /\ lv[p] \in Requests
      /\ SizeOf(m[a].size) \in {8 * k, 8 * k + MARKER}
  BY DEF Good
<1>2. k \in Nat
  BY <1>1, Asked
<1>3. /\ Sound(heap) /\ Tiled(heap, m, H)
  BY HeapSound DEF Good
<1>4. /\ a \in Nat \ {0} /\ HeadWord(m[a].size) /\ After(m, a) \in Nat /\ After(m, a) <= End(heap)
      /\ heap.memory <= a
  BY <1>1, <1>3, BlockType
<1>5. Span(m[a].size) \in Nat /\ SizeOf(m[a].size) = 8 * (Span(m[a].size) - 1)
  BY <1>4, WordParts
<1> HIDE DEF k
<1>6. 1 + k <= Span(m[a].size)
  BY <1>1, <1>2, <1>5 DEF MARKER
<1>7. p + k <= After(m, a)
  BY <1>1, <1>2, <1>4, <1>5, <1>6 DEF After
<1>8. Payload(p, lv[p]) = p .. p + k - 1
  BY DEF Payload, k
<1>9. \A c \in Payload(p, lv[p]) : c \in Nat /\ p <= c /\ c < After(m, a)
  BY <1>1, <1>2, <1>4, <1>7, <1>8
<1>10. Payload(p, lv[p]) \subseteq CellsOf(heap)
  <2>1. heap.memory \in Nat /\ Size(heap) \in Nat
    BY <1>3 DEF Sound
  <2>2. CellsOf(heap) = heap.memory .. End(heap) - 1
    BY <2>1 DEF CellsOf, End, Size
  <2>3. \A c \in Payload(p, lv[p]) : c \in Nat /\ heap.memory <= c /\ c < End(heap)
    BY <1>1, <1>4, <1>9, <2>1 DEF End
  <2> QED BY <2>1, <2>2, <2>3 DEF End
<1>11. ASSUME NEW b \in H, b \in Payload(p, lv[p]) PROVE FALSE
  <2>1. a < b /\ b < After(m, a)
    BY <1>1, <1>4, <1>9, <1>11
  <2> QED BY <1>1, <1>3, <1>4, <2>1, <1>9, <1>11 DEF Tiled
<1> QED BY <1>1, <1>2, <1>7, <1>9, <1>10, <1>11 DEF k\* What is freed is not held.
LEMMA NotHeld ==
  ASSUME NEW m, NEW lv, NEW st, NEW H, Good(m, lv, st, H), NEW p \in st
  PROVE  p \notin DOMAIN lv
<1> SUFFICES ASSUME p \in DOMAIN lv PROVE FALSE
  OBVIOUS
<1>1. p - 1 \in H /\ Taken(m[p - 1].size) /\ HeadWord(m[p - 1].size)
  BY DEF Good, Tiled
<1>2. m[p - 1].size = WORD - 1
  BY <1>1 DEF Good, INVALID
<1>3. WORD \in Nat /\ WORD % 8 = 0 /\ WORD - 1 \in Nat
  BY <1>1, <1>2, HeapAssumption DEF HeadWord, Word, MARKER
<1>4. (WORD - 1) % 8 = 7
  BY <1>3
<1> QED BY <1>1, <1>2, <1>4 DEF HeadWord

\* What the program writes in its block stays there.
LEMMA WriteGood ==
  ASSUME NEW m, NEW lv, NEW st, NEW H, Good(m, lv, st, H), NEW p \in DOMAIN lv,
         NEW n \in [Cell -> Marker], \A c \in Cell \ Payload(p, lv[p]) : n[c] = m[c]
  PROVE  Good(n, lv, st, H)
<1>1. /\ m \in [Cell -> Marker] /\ Tiled(heap, m, H) /\ Joined(m, H)
      /\ Sound(heap)
  BY HeapSound DEF Good
<1>3. \A a \in H : a \in Cell /\ n[a] = m[a]
  BY <1>1, BlockType, PayloadInside
<1>4. Tiled(heap, n, H) /\ \A a \in H : After(n, a) = After(m, a)
  <2>1. \A a \in H : /\ HeadWord(n[a].size) /\ SizeOf(n[a].size) = SizeOf(m[a].size)
                     /\ Last(n[a].size) <=> Last(m[a].size)
                     /\ n[a].size_prev = m[a].size_prev
    BY <1>1, <1>3 DEF Tiled
  <2> QED BY <1>1, <2>1, SameBlocks
<1>5. Joined(n, H)
  <2> SUFFICES ASSUME NEW a \in H, ~Last(n[a].size)
               PROVE  Taken(n[a].size) \/ Taken(n[After(n, a)].size)
    BY DEF Joined
  <2>1. n[a] = m[a] /\ After(n, a) = After(m, a)
    BY <1>3, <1>4
  <2>2. After(m, a) \in H /\ n[After(m, a)] = m[After(m, a)]
    BY <1>1, <1>3, <2>1 DEF Tiled
  <2> QED BY <1>1, <2>1, <2>2 DEF Joined
<1>6. \A q \in st : n[q - 1] = m[q - 1]
  <2> SUFFICES ASSUME NEW q \in st PROVE n[q - 1] = m[q - 1]
    OBVIOUS
  <2>1. q - 1 \in CellsOf(heap) /\ q - 1 \notin Payload(p, lv[p])
    BY DEF Good
  <2>2. q - 1 \in Cell
    BY <2>1 DEF Cell
  <2> QED BY <2>1, <2>2
<1> QED BY <1>3, <1>4, <1>5, <1>6 DEF Good

Without(lv, p) == [q \in DOMAIN lv \ {p} |-> lv[q]]

Untouched(m, n, S) == \A c \in S : n[c] = m[c]

\* A block that is freed.
LEMMA FreeGood ==
  ASSUME NEW m, NEW lv, NEW st, NEW H, Good(m, lv, st, H), NEW p \in DOMAIN lv
  PROVE  /\ heap_free(heap, m, p).ret = 1
         /\ \E G : Good(heap_free(heap, m, p).mem, Without(lv, p), st \union {p}, G)
         /\ Untouched(m, heap_free(heap, m, p).mem, CellsOf(heap) \ H)
<1> DEFINE n == heap_free(heap, m, p).mem
           rest == Without(lv, p)
           a == p - 1
<1>1. /\ m \in [Cell -> Marker] /\ Tiled(heap, m, H) /\ Joined(m, H) /\ Sound(heap)
      /\ a \in H /\ Taken(m[a].size) /\ p \in Nat
  BY HeapSound DEF Good
<1>2. p = a + 1
  BY <1>1
<1>3. heap_free(heap, m, p).ret = 1 /\ \E G \in SUBSET H : Released(heap, m, H, a, n, G)
  <2> HIDE DEF a
  <2> QED BY <1>1, <1>2, FreeTaken
<1>4. PICK G \in SUBSET H : Released(heap, m, H, a, n, G)
  BY <1>3
<1> HIDE DEF n
<1>5. \A c \in H : c \in Nat /\ c \in CellsOf(heap) /\ (c + 1) - 1 = c /\ c \in Cell
  BY <1>1, BlockType
<1>6. \A c \in CellsOf(heap) \ H : n[c] = m[c]
  BY <1>4 DEF Released, Cell
<1>7. ASSUME NEW q \in DOMAIN rest
      PROVE  /\ q \in DOMAIN lv /\ rest[q] = lv[q] /\ q \in Nat /\ q - 1 \in G
             /\ n[q - 1].size = m[q - 1].size /\ q # p
  <2>1. q \in DOMAIN lv /\ q # p /\ rest[q] = lv[q] /\ q \in Nat /\ q - 1 \in H /\ Taken(m[q - 1].size)
    BY DEF Good, Without
  <2>2. q - 1 # a
    BY <1>1, <1>7, <2>1
  <2> QED BY <1>4, <2>1, <2>2 DEF Released
<1>8. ASSUME NEW q \in DOMAIN rest
      PROVE  /\ q \in Nat /\ q - 1 \in G /\ Taken(n[q - 1].size)
             /\ SizeOf(n[q - 1].size) \in {8 * Room(rest[q]), 8 * Room(rest[q]) + MARKER}
  BY <1>7 DEF Good
<1>9. ASSUME NEW c \in G, Taken(n[c].size) PROVE c + 1 \in DOMAIN rest
  <2>1. c \in H /\ c # a /\ Taken(m[c].size)
    BY <1>4, <1>9 DEF Released
  <2>2. c + 1 \in DOMAIN lv /\ c + 1 # p
    BY <1>1, <1>2, <1>5, <2>1 DEF Good
  <2> QED BY <2>2 DEF Without
<1>10. ASSUME NEW q \in st \union {p}
       PROVE  /\ q \in Nat /\ q - 1 \in CellsOf(heap)
              /\ n[q - 1] = INVALID \/ ~Taken(n[q - 1].size)
              /\ \A r \in DOMAIN rest : q - 1 \notin Payload(r, rest[r])
  <2>1. q \in Nat /\ q - 1 \in CellsOf(heap)
    BY <1>1, <1>5 DEF Good
  <2>2. ASSUME NEW r \in DOMAIN rest PROVE q - 1 \notin Payload(r, rest[r])
    <3>1. r \in DOMAIN lv /\ rest[r] = lv[r]
      BY <1>7
    <3>2. CASE q = p
      BY <1>1, <3>1, <3>2, PayloadInside
    <3>3. CASE q # p
      BY <3>1, <3>3 DEF Good
    <3> QED BY <3>2, <3>3
  <2>3. n[q - 1] = INVALID \/ ~Taken(n[q - 1].size)
    <3>1. CASE q - 1 \notin H
      <4>1. q # p
        BY <1>1, <3>1
      <4> QED BY <1>6, <2>1, <3>1, <4>1 DEF Good
    <3>2. CASE q - 1 \in H \ G
      BY <1>4, <3>2 DEF Released
    <3>3. CASE q - 1 \in G
      <4> SUFFICES ASSUME Taken(n[q - 1].size) PROVE FALSE
        OBVIOUS
      <4>1. (q - 1) + 1 \in DOMAIN rest /\ (q - 1) + 1 = q
        BY <1>9, <2>1, <3>3
      <4>2. q \in st /\ q \in DOMAIN lv
        BY <1>7, <4>1
      <4> QED BY <4>2, NotHeld
    <3> QED BY <3>1, <3>2, <3>3
  <2> QED BY <2>1, <2>2, <2>3
<1>11. rest \in [DOMAIN rest -> Requests]
  BY DEF Good, Without
<1> HIDE DEF rest
<1>12. Good(n, rest, st \union {p}, G)
  BY <1>4, <1>8, <1>9, <1>10, <1>11 DEF Good, Released
<1>13. Untouched(m, n, CellsOf(heap) \ H)
  BY <1>6 DEF Untouched
<1> QED BY <1>3, <1>12, <1>13 DEF n, rest\* What the program holds, and has freed, when it is given n bytes at p.
Holding(lv, p, n)  == [q \in DOMAIN lv \union {p} |-> IF q = p THEN n ELSE lv[q]]
Forgetting(st, p, n) == {q \in st \ {p} : q - 1 \notin Payload(p, n)}

\* A block that is granted.
LEMMA AllocGood ==
  ASSUME NEW m, NEW lv, NEW st, NEW H, Good(m, lv, st, H), NEW n \in Requests,
         heap_alloc(heap, m, n).ret # NULL
  PROVE  \E a \in H : \E G :
           /\ heap_alloc(heap, m, n).ret = a + 1 /\ a + 1 \in Nat /\ n >= 1
           /\ Taking(heap, m, H, a, Room(n), heap_alloc(heap, m, n).mem, G)
           /\ Good(heap_alloc(heap, m, n).mem, Holding(lv, a + 1, n),
                   Forgetting(st, a + 1, n), G)
<1> DEFINE r == heap_alloc(heap, m, n)
<1>1. /\ m \in [Cell -> Marker] /\ Tiled(heap, m, H) /\ Joined(m, H) /\ Sound(heap)
  BY HeapSound DEF Good
<1>2. n \in Nat
  BY Asked
<1>3. n >= 1 /\ \E a \in H, G \in SUBSET CellsOf(heap) :
                   r.ret = a + 1 /\ Taking(heap, m, H, a, Room(n), r.mem, G)
  BY <1>1, <1>2, AllocTakes
<1>4. PICK a \in H, G \in SUBSET CellsOf(heap) :
              r.ret = a + 1 /\ Taking(heap, m, H, a, Room(n), r.mem, G)
  BY <1>3
<1> DEFINE held == Holding(lv, a + 1, n)
           old  == Forgetting(st, a + 1, n)
           new  == r.mem
<1>5. /\ new \in [Cell -> Marker] /\ Tiled(heap, new, G) /\ Joined(new, G)
      /\ H \subseteq G /\ ~Taken(m[a].size) /\ Taken(new[a].size)
      /\ SizeOf(new[a].size) \in {8 * Room(n), 8 * Room(n) + MARKER}
      /\ \A c \in H \ {a} : new[c].size = m[c].size
      /\ \A c \in G \ H : ~Taken(new[c].size)
      /\ \A c \in Cell \ G : new[c] = m[c]
  BY <1>4 DEF Taking
<1> HIDE DEF r, new
<1>6. \A c \in G : c \in Nat /\ (c + 1) - 1 = c /\ c + 1 \in Nat
  BY <1>1, <1>5, BlockType
<1>7. a + 1 \in Nat /\ (a + 1) - 1 = a /\ a \in G
  BY <1>5, <1>6
<1>8. ASSUME NEW p \in DOMAIN lv
      PROVE  /\ p \in Nat /\ p - 1 \in H /\ p - 1 # a /\ p # a + 1
             /\ new[p - 1].size = m[p - 1].size
  <2>1. p \in Nat /\ p - 1 \in H /\ Taken(m[p - 1].size)
    BY DEF Good
  <2> QED BY <1>5, <1>7, <2>1
<1>9. ASSUME NEW p \in DOMAIN held
      PROVE  /\ p \in Nat /\ p - 1 \in G /\ Taken(new[p - 1].size)
             /\ SizeOf(new[p - 1].size) \in {8 * Room(held[p]), 8 * Room(held[p]) + MARKER}
  <2>1. CASE p = a + 1
    BY <1>5, <1>7, <2>1 DEF Holding
  <2>2. CASE p # a + 1
    <3>1. p \in DOMAIN lv /\ held[p] = lv[p]
      BY <2>2 DEF Holding
    <3> HIDE DEF held
    <3> QED BY <1>5, <1>8, <3>1 DEF Good
  <2> QED BY <2>1, <2>2
<1>10. ASSUME NEW c \in G, Taken(new[c].size) PROVE c + 1 \in DOMAIN held
  <2>1. CASE c = a
    BY <2>1 DEF Holding
  <2>2. CASE c # a
    <3>1. c \in H /\ Taken(m[c].size)
      BY <1>5, <1>10, <2>2
    <3>2. c + 1 \in DOMAIN lv
      BY <3>1 DEF Good
    <3> QED BY <3>2 DEF Holding
  <2> QED BY <2>1, <2>2
<1>11. ASSUME NEW p \in old
       PROVE  /\ p \in Nat /\ p - 1 \in CellsOf(heap)
              /\ new[p - 1] = INVALID \/ ~Taken(new[p - 1].size)
              /\ \A q \in DOMAIN held : p - 1 \notin Payload(q, held[q])
  <2>1. /\ p \in st /\ p # a + 1 /\ p - 1 \notin Payload(a + 1, n)
        /\ p \in Nat /\ p - 1 \in CellsOf(heap) /\ p - 1 \in Cell
        /\ m[p - 1] = INVALID \/ ~Taken(m[p - 1].size)
        /\ \A q \in DOMAIN lv : p - 1 \notin Payload(q, lv[q])
    BY DEF Good, Cell, Forgetting
  <2>2. \A q \in DOMAIN held : p - 1 \notin Payload(q, held[q])
    BY <2>1 DEF Holding
  <2>3. new[p - 1] = INVALID \/ ~Taken(new[p - 1].size)
    <3>1. CASE p - 1 \notin G
      BY <1>5, <2>1, <3>1
    <3>2. CASE p - 1 \in G
      <4> SUFFICES ASSUME Taken(new[p - 1].size) PROVE FALSE
        OBVIOUS
      <4>1. p - 1 # a
        BY <1>6, <1>7, <2>1
      <4>2. p - 1 \in H /\ Taken(m[p - 1].size)
        BY <1>5, <3>2, <4>1
      <4>3. (p - 1) + 1 \in DOMAIN lv /\ (p - 1) + 1 = p
        BY <2>1, <4>2 DEF Good
      <4> QED BY <2>1, <4>3, NotHeld
    <3> QED BY <3>1, <3>2
  <2> QED BY <2>1, <2>2, <2>3
<1>12. held \in [DOMAIN held -> Requests]
  BY DEF Good, Holding
<1> HIDE DEF held, old
<1>13. Good(new, held, old, G)
  BY <1>5, <1>9, <1>10, <1>11, <1>12 DEF Good
<1>14. /\ r.ret = a + 1 /\ a + 1 \in Nat /\ n >= 1
       /\ Taking(heap, m, H, a, Room(n), r.mem, G)
       /\ Good(r.mem, held, old, G)
  BY <1>3, <1>4, <1>7, <1>13 DEF new
<1> QED BY <1>14 DEF r, held, old\* A fresh heap is one free block, whatever is done to the heap behind it.
LEMMA FreshGood ==
  ASSUME NEW m \in [Cell -> Marker], Tiled(heap, m, {heap.memory}), ~Taken(m[heap.memory].size),
         NEW n \in [Cell -> Marker], \A c \in CellsOf(heap) : n[c] = m[c],
         NEW lv, DOMAIN lv = {}, lv = [p \in {} |-> 0]
  PROVE  Good(n, lv, {}, {heap.memory})
<1> DEFINE a == heap.memory
<1>1. Sound(heap) /\ a \in CellsOf(heap)
  BY HeapSound DEF Tiled
<1>2. n[a] = m[a]
  BY <1>1
<1>3. \A c \in {a} : /\ HeadWord(n[c].size) /\ SizeOf(n[c].size) = SizeOf(m[c].size)
                     /\ Last(n[c].size) <=> Last(m[c].size)
                     /\ n[c].size_prev = m[c].size_prev
  BY <1>2 DEF Tiled
<1>4. Tiled(heap, n, {a})
  <2> HIDE DEF a
  <2> QED BY <1>1, <1>3, SameBlocks DEF a
<1>5. Joined(n, {a})
  <2>1. Last(n[a].size) \/ After(n, a) = a
    BY <1>4 DEF Tiled
  <2>2. a \in Nat /\ After(n, a) \in Nat /\ a < After(n, a)
    BY <1>1, <1>4, BlockType
  <2> QED BY <2>1, <2>2 DEF Joined
<1> QED BY <1>2, <1>4, <1>5 DEF Good

LEMMA InitGood == Init => Good(mem, live, stale, {heap.memory}) /\ call \in Calls
<1> SUFFICES ASSUME Init PROVE Good(mem, live, stale, {heap.memory}) /\ call \in Calls
  OBVIOUS
<1> DEFINE raw(w) == [c \in Cell |-> [size |-> w, size_prev |-> w]]
<1>1. PICK w \in Data : mem = IF CellsOf(other) = {} THEN heap_init(heap, raw(w))
                              ELSE heap_alloc(other, heap_init(other, heap_init(heap, raw(w))), 1).mem
  BY DEF Init
<1> DEFINE fresh == heap_init(heap, raw(w))
           both  == heap_init(other, fresh)
<1>2. raw(w) \in [Cell -> Marker]
  <2>1. [size |-> w, size_prev |-> w] \in Marker
    BY HeapAssumption DEF Marker
  <2> QED BY <2>1
<1> HIDE DEF raw
<1>3. /\ fresh \in [Cell -> Marker] /\ Tiled(heap, fresh, {heap.memory})
      /\ ~Taken(fresh[heap.memory].size)
  BY <1>2, HeapSound, InitTiled
<1> HIDE DEF fresh
<1>4. mem \in [Cell -> Marker] /\ \A c \in CellsOf(heap) : mem[c] = fresh[c]
  <2>1. CASE CellsOf(other) = {}
    <3>1. mem = fresh
      BY <1>1, <2>1 DEF fresh
    <3> QED BY <1>3, <3>1
  <2>2. CASE CellsOf(other) # {}
    <3>1. Sound(other)
      BY <2>2, OtherSound
    <3>2. /\ both \in [Cell -> Marker] /\ Tiled(other, both, {other.memory})
          /\ \A c \in Cell \ {other.memory} : both[c] = fresh[c]
      BY <1>3, <3>1, InitTiled
    <3> HIDE DEF both
    <3>3. Joined(both, {other.memory})
      <4>1. Last(both[other.memory].size) \/ After(both, other.memory) = other.memory
        BY <3>2 DEF Tiled
      <4>2. other.memory < After(both, other.memory) /\ other.memory \in Nat
        BY <3>1, <3>2, BlockType
      <4> QED BY <4>1, <4>2 DEF Joined
    <3>4. mem = heap_alloc(other, both, 1).mem
      BY <1>1, <2>2 DEF both, fresh
    <3>5. \/ mem = both
          \/ \E a \in {other.memory}, G \in SUBSET CellsOf(other) :
               Taking(other, both, {other.memory}, a, Room(1), mem, G)
      BY <3>1, <3>2, <3>3, <3>4, AllocTakes
    <3>6. other.memory \in CellsOf(other)
      BY <3>2 DEF Tiled
    <3>7. \A c \in CellsOf(heap) : c \in Cell /\ c \notin CellsOf(other)
      BY OtherSound DEF Cell
    <3> QED BY <3>2, <3>5, <3>6, <3>7 DEF Taking
  <2> QED BY <2>1, <2>2
<1>5. DOMAIN live = {} /\ live = [p \in {} |-> 0] /\ stale = {}
  BY DEF Init
<1>6. call \in Calls
  BY DEF Init, Calls
<1> QED BY <1>3, <1>4, <1>5, <1>6, FreshGood

-----------------------------------------------------------------------------
(* The steps.                                                              *)

LEMMA AllocStep ==
  ASSUME NEW H, Good(mem, live, stale, H), NEW n \in Requests, Alloc(n)
  PROVE  IF call'.ret = NULL
         THEN UNCHANGED <<mem, live, stale>>
         ELSE \E a \in H : \E G :
                /\ call'.ret = a + 1 /\ a + 1 \in Nat /\ n >= 1
                /\ Taking(heap, mem, H, a, Room(n), mem', G)
                /\ live' = Holding(live, a + 1, n)
                /\ Good(mem', live', stale', G)
<1> DEFINE r == heap_alloc(heap, mem, n)
<1>1. /\ mem' = r.mem /\ call'.ret = r.ret
      /\ IF r.ret = NULL THEN UNCHANGED <<live, stale>>
         ELSE live' = Holding(live, r.ret, n) /\ stale' = Forgetting(stale, r.ret, n)
  BY DEF Alloc, Holding, Forgetting
<1>2. CASE r.ret = NULL
  <2>1. n \in Nat /\ mem \in [Cell -> Marker] /\ Tiled(heap, mem, H) /\ Joined(mem, H)
    BY Asked DEF Good
  <2>2. r.mem = mem
    BY <1>2, <2>1, HeapSound, AllocTakes
  <2> QED BY <1>1, <1>2, <2>2
<1>3. CASE r.ret # NULL
  <2>1. PICK a \in H : \E G :
           /\ r.ret = a + 1 /\ a + 1 \in Nat /\ n >= 1
           /\ Taking(heap, mem, H, a, Room(n), r.mem, G)
           /\ Good(r.mem, Holding(live, a + 1, n), Forgetting(stale, a + 1, n), G)
    BY <1>3, AllocGood
  <2>2. PICK G :
           /\ r.ret = a + 1 /\ a + 1 \in Nat /\ n >= 1
           /\ Taking(heap, mem, H, a, Room(n), r.mem, G)
           /\ Good(r.mem, Holding(live, a + 1, n), Forgetting(stale, a + 1, n), G)
    BY <2>1
  <2> HIDE DEF r
  <2>3. /\ call'.ret = a + 1 /\ live' = Holding(live, a + 1, n)
        /\ stale' = Forgetting(stale, a + 1, n) /\ mem' = r.mem
    BY <1>1, <1>3, <2>2
  <2> QED BY <1>3, <1>1, <2>2, <2>3
<1> QED BY <1>2, <1>3

LEMMA FreeStep ==
  ASSUME NEW H, Good(mem, live, stale, H), NEW p \in DOMAIN live, Free(p)
  PROVE  /\ call'.ret = 1 /\ \E G : Good(mem', live', stale', G)
         /\ Untouched(mem, mem', CellsOf(heap) \ H)
<1> DEFINE r    == heap_free(heap, mem, p)
           rest == Without(live, p)
<1>1. /\ r.ret = 1
      /\ \E G : Good(r.mem, rest, stale \union {p}, G)
      /\ Untouched(mem, r.mem, CellsOf(heap) \ H)
  BY FreeGood
<1>2. mem' = r.mem /\ live' = rest /\ stale' = stale \union {p} /\ call'.ret = r.ret
  BY DEF Free, Without
<1> HIDE DEF r, rest
<1> QED BY <1>1, <1>2

LEMMA FreeOtherStep ==
  ASSUME ForeignApart, NEW H, Good(mem, live, stale, H),
         NEW p \in stale \union Foreign, FreeOther(p)
  PROVE  p \in Nat /\ call'.ret = 0 /\ UNCHANGED <<mem, live, stale>>
<1>1. mem' = heap_free(heap, mem, p).mem /\ call'.ret = heap_free(heap, mem, p).ret
      /\ UNCHANGED <<live, stale>>
  BY DEF FreeOther
<1>2. p \in Nat
  BY HeapAssumption DEF Good
<1>3. heap_free(heap, mem, p) = [mem |-> mem, ret |-> 0]
  <2>1. CASE p \in Foreign
    BY <2>1 DEF heap_free, ForeignApart
  <2>2. CASE p \in stale
    <3> DEFINE a == p - 1
    <3>1. /\ a \in CellsOf(heap)
          /\ mem[a] = INVALID \/ ~Taken(mem[a].size)
          /\ mem \in [Cell -> Marker] /\ p = a + 1
      BY <1>2, <2>2 DEF Good
    <3> HIDE DEF a
    <3> QED BY <3>1, HeapSound, FreeRefused
  <2> QED BY <2>1, <2>2
<1> QED BY <1>1, <1>2, <1>3

LEMMA WriteStep ==
  ASSUME NEW H, Good(mem, live, stale, H), NEW p \in DOMAIN live, NEW w \in Data, Write(p, w)
  PROVE  Good(mem', live', stale', H)
<1>1. mem' \in [Cell -> Marker] /\ \A c \in Cell \ Payload(p, live[p]) : mem'[c] = mem[c]
  <2>1. [size |-> w, size_prev |-> w] \in Marker
    BY HeapAssumption DEF Marker
  <2>2. mem \in [Cell -> Marker]
    BY DEF Good
  <2> QED BY <2>1, <2>2 DEF Write
<1>2. UNCHANGED <<live, stale>>
  BY DEF Write
<1> QED BY <1>1, <1>2, WriteGood-----------------------------------------------------------------------------
(* Theorems.  Each supposes that the program's mistakes are such that       *)
(* heap_free can tell: MCHeapForeign shows what happens when they are not.  *)

LEMMA Inductive ==
  ASSUME ForeignApart, IInv, [Next]_vars
  PROVE  IInv'
<1>1. PICK H : Good(mem, live, stale, H)
  BY DEF IInv
<1>2. ASSUME NEW n \in Requests, Alloc(n) PROVE IInv'
  <2>1. call' \in Calls
    <3>1. n \in Nat /\ call' = [op |-> "heap_alloc", arg |-> n, ret |-> call'.ret]
      BY <1>2, Asked DEF Alloc
    <3>2. call'.ret \in Nat
      BY <1>1, <1>2, AllocStep DEF NULL
    <3> QED BY <3>1, <3>2 DEF Calls
  <2>2. \E G : Good(mem', live', stale', G)
    <3>1. CASE call'.ret = NULL
      BY <1>1, <1>2, <3>1, AllocStep
    <3>2. CASE call'.ret # NULL
      BY <1>1, <1>2, <3>2, AllocStep
    <3> QED BY <3>1, <3>2
  <2> QED BY <2>1, <2>2 DEF IInv
<1>3. ASSUME NEW p \in DOMAIN live, Free(p) PROVE IInv'
  <2>1. p \in Nat
    BY <1>1 DEF Good
  <2>2. call'.ret = 1 /\ \E G : Good(mem', live', stale', G)
    BY <1>1, <1>3, FreeStep
  <2>3. call' = [op |-> "heap_free", arg |-> p, ret |-> call'.ret]
    BY <1>3 DEF Free
  <2> QED BY <2>1, <2>2, <2>3 DEF IInv, Calls
<1>4. ASSUME NEW p \in stale \union Foreign, FreeOther(p) PROVE IInv'
  <2>1. p \in Nat /\ call'.ret = 0 /\ UNCHANGED <<mem, live, stale>>
    BY <1>1, <1>4, FreeOtherStep
  <2>2. call' = [op |-> "heap_free", arg |-> p, ret |-> call'.ret]
    BY <1>4 DEF FreeOther
  <2> QED BY <1>1, <2>1, <2>2 DEF IInv, Calls
<1>5. ASSUME NEW p \in DOMAIN live, NEW w \in Data, Write(p, w) PROVE IInv'
  <2>1. Good(mem', live', stale', H)
    BY <1>1, <1>5, WriteStep
  <2>2. call' = call
    BY <1>5 DEF Write
  <2> QED BY <2>1, <2>2 DEF IInv
<1>6. CASE UNCHANGED vars
  BY <1>1, <1>6 DEF IInv, vars
<1> QED BY <1>2, <1>3, <1>4, <1>5, <1>6 DEF Next

\* In every state the heap is a tiling by blocks that agree with the program's.
THEOREM Invariant ==
  ASSUME ForeignApart
  PROVE  Spec => []IInv
<1>1. Init => IInv
  BY InitGood DEF IInv
<1>2. IInv /\ [Next]_vars => IInv'
  BY Inductive
<1> QED BY <1>1, <1>2, PTL DEF Spec

\* The types of the variables, and that an address is never both held and freed.
THEOREM TypeCorrect ==
  ASSUME ForeignApart
  PROVE  Spec => []TypeOK
<1>1. IInv => TypeOK
  <2> SUFFICES ASSUME IInv PROVE TypeOK
    OBVIOUS
  <2>1. PICK H : Good(mem, live, stale, H)
    BY DEF IInv
  <2>2. ASSUME NEW p \in DOMAIN live PROVE p \in {c + 1 : c \in CellsOf(heap)}
    <3>1. p - 1 \in CellsOf(heap) /\ p = (p - 1) + 1
      BY <2>1 DEF Good, Tiled
    <3> QED BY <3>1
  <2>3. ASSUME NEW p \in stale PROVE p \in {c + 1 : c \in CellsOf(heap)}
    <3>1. p - 1 \in CellsOf(heap) /\ p = (p - 1) + 1
      BY <2>1 DEF Good
    <3> QED BY <3>1
  <2>4. DOMAIN live \intersect stale = {}
    BY <2>1, NotHeld
  <2> QED BY <2>1, <2>2, <2>3, <2>4 DEF TypeOK, Good, IInv, Calls
<1> QED BY <1>1, Invariant, PTL

\* The markers are one list that covers the heap from end to end, whatever is
\* asked for, freed and written.
THEOREM ListWellFormed ==
  ASSUME ForeignApart
  PROVE  Spec => []WellFormed
<1>1. IInv => WellFormed
  <2> SUFFICES ASSUME IInv PROVE WellFormed
    OBVIOUS
  <2>1. PICK H : Good(mem, live, stale, H)
    BY DEF IInv
  <2>2. Tiled(heap, mem, H) /\ Sound(heap) /\ H \in SUBSET CellsOf(heap)
    BY <2>1, HeapSound DEF Good, Tiled
  <2>3. Walk(heap, mem, H) /\ mem[heap.memory].size_prev = 0
    BY <2>2, TiledWalk DEF Tiled
  <2>4. ASSUME NEW a \in H, heap_marker_next(mem, a) = NULL
        PROVE  a + 1 + SizeOf(mem[a].size) \div MARKER = other.memory
    <3>1. Last(mem[a].size) /\ After(mem, a) = End(heap)
      BY <2>2, <2>4, NextBlock DEF Tiled
    <3>2. a \in Nat /\ HeadWord(mem[a].size)
      BY <2>2, BlockType
    <3>3. After(mem, a) = a + 1 + SizeOf(mem[a].size) \div MARKER
      BY <3>2, WordParts DEF After
    <3>4. End(heap) = other.memory
      BY DEF End, Size, other, heap
    <3> QED BY <3>1, <3>3, <3>4
  <2>5. ASSUME NEW a \in H, heap_marker_next(mem, a) # NULL
        PROVE  mem[heap_marker_next(mem, a)].size_prev = SizeOf(mem[a].size)
    <3>1. ~Last(mem[a].size) /\ heap_marker_next(mem, a) = After(mem, a)
      BY <2>2, <2>5, NextBlock
    <3> QED BY <2>2, <3>1 DEF Tiled
  <2> QED BY <2>2, <2>3, <2>4, <2>5 DEF WellFormed
<1> QED BY <1>1, Invariant, PTL

\* No two neighbouring blocks are free.
THEOREM FreeSpaceCoalesced ==
  ASSUME ForeignApart
  PROVE  Spec => []Coalesced
<1>1. IInv => Coalesced
  <2> SUFFICES ASSUME IInv PROVE Coalesced
    OBVIOUS
  <2>1. PICK H : Good(mem, live, stale, H)
    BY DEF IInv
  <2>2. Tiled(heap, mem, H) /\ Sound(heap) /\ Joined(mem, H)
    BY <2>1, HeapSound DEF Good
  <2>3. blocks(heap, mem) = H
    BY <2>2, TiledBlocks
  <2>4. ASSUME NEW a \in H, heap_marker_next(mem, a) # NULL
        PROVE  Taken(mem[a].size) \/ Taken(mem[heap_marker_next(mem, a)].size)
    BY <2>2, <2>4, NextBlock DEF Joined
  <2> QED BY <2>3, <2>4 DEF Coalesced
<1> QED BY <1>1, Invariant, PTL

\* The blocks taken are those the program holds, of the size it asked for or one
\* marker more.
THEOREM TakenBlocksHeld ==
  ASSUME ForeignApart
  PROVE  Spec => []TakenIsHeld
<1>1. IInv => TakenIsHeld
  <2> SUFFICES ASSUME IInv PROVE TakenIsHeld
    OBVIOUS
  <2>1. PICK H : Good(mem, live, stale, H)
    BY DEF IInv
  <2>2. Tiled(heap, mem, H) /\ Sound(heap)
    BY <2>1, HeapSound DEF Good
  <2>3. blocks(heap, mem) = H
    BY <2>2, TiledBlocks
  <2>4. ASSUME NEW a \in H, Taken(mem[a].size) PROVE a \in {p - 1 : p \in DOMAIN live}
    <3>1. a + 1 \in DOMAIN live /\ a \in Nat
      BY <2>1, <2>2, <2>4, BlockType DEF Good
    <3>2. a = (a + 1) - 1
      BY <3>1
    <3> QED BY <3>1, <3>2
  <2>5. ASSUME NEW p \in DOMAIN live
        PROVE  /\ p - 1 \in H /\ Taken(mem[p - 1].size)
               /\ SizeOf(mem[p - 1].size) \in {Room(live[p]) * 8, Room(live[p]) * 8 + MARKER}
    <3>1. /\ p - 1 \in H /\ Taken(mem[p - 1].size)
          /\ SizeOf(mem[p - 1].size) \in {8 * Room(live[p]), 8 * Room(live[p]) + MARKER}
          /\ live[p] \in Requests
      BY <2>1 DEF Good
    <3>2. 8 * Room(live[p]) = Room(live[p]) * 8
      BY <3>1, Asked
    <3> QED BY <3>1, <3>2
  <2> QED BY <2>3, <2>4, <2>5 DEF TakenIsHeld
<1> QED BY <1>1, Invariant, PTL
-----------------------------------------------------------------------------
(* The heap is an allocator.                                               *)

LEMMA Extents ==
  ASSUME NEW p \in Nat, NEW n \in Requests
  PROVE  Ideal!Extent(p, n) = (p - 1) .. (p + Room(n) - 1) /\ Ideal!Room(n) = Room(n)
BY DEF Ideal!Extent, Ideal!Room, Room

\* A block has an extent, and at most one cell more.
LEMMA ExtentInside ==
  ASSUME NEW m, NEW lv, NEW st, NEW H, Good(m, lv, st, H), NEW p \in DOMAIN lv
  PROVE  /\ \A c \in Ideal!Extent(p, lv[p]) :
              c \in CellsOf(heap) /\ c \in Nat /\ p - 1 <= c /\ c < After(m, p - 1)
         /\ p - 1 \in Ideal!Extent(p, lv[p])
         /\ \A c \in Nat : p - 1 <= c /\ c < After(m, p - 1)
                             => c \in Ideal!Extent(p, lv[p]) \/ c + 1 = After(m, p - 1)
<1> DEFINE a == p - 1
           k == Room(lv[p])
<1>1. /\ p \in Nat /\ a \in H /\ p = a + 1 /\ k \in Nat /\ p + k <= After(m, a)
      /\ Payload(p, lv[p]) \subseteq CellsOf(heap)
  BY PayloadInside
<1>2. /\ Sound(heap) /\ Tiled(heap, m, H) /\ lv[p] \in Requests
      /\ SizeOf(m[a].size) \in {8 * k, 8 * k + MARKER}
  BY HeapSound DEF Good
<1>3. Ideal!Extent(p, lv[p]) = a .. p + k - 1
  BY <1>1, <1>2, Extents
<1>4. a \in Nat /\ a \in CellsOf(heap) /\ After(m, a) \in Nat /\ HeadWord(m[a].size)
  BY <1>1, <1>2, BlockType
<1>5. After(m, a) \in {p + k, p + k + 1}
  <2>1. Span(m[a].size) \in Nat /\ SizeOf(m[a].size) = 8 * (Span(m[a].size) - 1)
    BY <1>4, WordParts
  <2> HIDE DEF k
  <2>2. Span(m[a].size) \in {1 + k, 2 + k}
    BY <1>1, <1>2, <2>1 DEF MARKER
  <2> QED BY <1>1, <1>4, <2>2 DEF After
<1>6. Payload(p, lv[p]) = p .. p + k - 1
  BY DEF Payload
<1> HIDE DEF k, a
<1>7. \A c \in a .. p + k - 1 : c \in CellsOf(heap) /\ c \in Nat /\ a <= c /\ c < After(m, a)
  <2> SUFFICES ASSUME NEW c \in a .. p + k - 1
               PROVE  c \in CellsOf(heap) /\ c \in Nat /\ a <= c /\ c < After(m, a)
    OBVIOUS
  <2>1. c \in Nat /\ a <= c /\ c < After(m, a)
    BY <1>1, <1>4
  <2>2. c = a \/ c \in p .. p + k - 1
    BY <1>1, <1>4, <2>1
  <2> QED BY <1>1, <1>4, <1>6, <2>1, <2>2
<1>8. a \in a .. p + k - 1
  BY <1>1, <1>4
<1>9. \A c \in Nat : a <= c /\ c < After(m, a) => c \in a .. p + k - 1 \/ c + 1 = After(m, a)
  BY <1>1, <1>4, <1>5
<1> QED BY <1>3, <1>7, <1>8, <1>9 DEF a

LEMMA ExtentsApart ==
  ASSUME NEW m, NEW lv, NEW st, NEW H, Good(m, lv, st, H),
         NEW p \in DOMAIN lv, NEW q \in DOMAIN lv, p # q
  PROVE  Ideal!Extent(p, lv[p]) \intersect Ideal!Extent(q, lv[q]) = {}
<1> SUFFICES ASSUME NEW c \in Ideal!Extent(p, lv[p]), c \in Ideal!Extent(q, lv[q])
             PROVE  FALSE
  OBVIOUS
<1>1. /\ p - 1 \in H /\ q - 1 \in H /\ p - 1 # q - 1
      /\ Sound(heap) /\ Tiled(heap, m, H)
  BY HeapSound, PayloadInside DEF Good
<1>2. After(m, p - 1) <= q - 1 \/ After(m, q - 1) <= p - 1
  BY <1>1, Apart
<1>3. /\ c \in Nat /\ p - 1 <= c /\ c < After(m, p - 1) /\ q - 1 <= c /\ c < After(m, q - 1)
  BY ExtentInside
<1>4. /\ p - 1 \in Nat /\ q - 1 \in Nat /\ After(m, p - 1) \in Nat /\ After(m, q - 1) \in Nat
  BY <1>1, BlockType
<1> QED BY <1>2, <1>3, <1>4

\* Every cell of the heap is in a block.
LEMMA Covered ==
  ASSUME NEW h, Sound(h), NEW m, NEW H, Tiled(h, m, H), NEW c \in CellsOf(h)
  PROVE  \E a \in H : a <= c /\ c < After(m, a)
<1> DEFINE S == {a \in H : a <= c}
<1>1. c \in Nat /\ h.memory <= c /\ c < End(h)
  BY CellType
<1>2. \A a \in H : a \in Nat /\ a < After(m, a) /\ After(m, a) \in Nat
  BY BlockType
<1>3. S \subseteq Nat /\ S # {} /\ \A a \in S : a <= c
  BY <1>1, <1>2 DEF Tiled
<1>4. PICK a \in S : \A b \in S : b <= a
  <2> HIDE DEF S
  <2> QED BY <1>1, <1>3, Greatest
<1>5. CASE Last(m[a].size)
  BY <1>1, <1>4, <1>5 DEF Tiled
<1>6. CASE ~Last(m[a].size)
  <2>1. After(m, a) \in H
    BY <1>4, <1>6 DEF Tiled
  <2>2. ~ (After(m, a) <= c)
    BY <1>2, <1>4, <2>1
  <2> QED BY <1>1, <1>2, <1>4, <2>1, <2>2
<1> QED BY <1>5, <1>6
\* When no free block holds k cells besides its marker, no k + 2 cells in a row
\* are outside the extents: a free block is between blocks that are taken.
LEMMA NoRoom ==
  ASSUME NEW m, NEW lv, NEW st, NEW H, Good(m, lv, st, H), NEW k \in Nat,
         \A a \in H : Taken(m[a].size) \/ SizeOf(m[a].size) < 8 * k,
         NEW c \in Nat,
         \A d \in c .. c + k + 1 : /\ d \in CellsOf(heap)
                                   /\ \A p \in DOMAIN lv : d \notin Ideal!Extent(p, lv[p])
  PROVE  FALSE
<1>1. Sound(heap) /\ Tiled(heap, m, H) /\ Joined(m, H)
  BY HeapSound DEF Good
<1>2. \A a \in H : /\ a \in Nat /\ a < After(m, a) /\ After(m, a) \in Nat /\ a = (a + 1) - 1
                   /\ HeadWord(m[a].size)
  BY <1>1, BlockType
<1>3. ASSUME NEW d \in H, c <= d, d <= c + k + 1 PROVE ~Taken(m[d].size)
  <2> SUFFICES ASSUME Taken(m[d].size) PROVE FALSE
    OBVIOUS
  <2>1. d + 1 \in DOMAIN lv
    BY DEF Good
  <2>2. (d + 1) - 1 \in Ideal!Extent(d + 1, lv[d + 1])
    BY <2>1, ExtentInside
  <2>3. d \in Ideal!Extent(d + 1, lv[d + 1])
    BY <1>2, <2>2
  <2> QED BY <1>2, <1>3, <2>1, <2>3
<1>4. ASSUME NEW a \in H, ~Taken(m[a].size) PROVE After(m, a) <= a + k
  <2>1. Span(m[a].size) \in Nat /\ SizeOf(m[a].size) = 8 * (Span(m[a].size) - 1)
    BY <1>2, WordParts
  <2>2. 8 * (Span(m[a].size) - 1) < 8 * k
    BY <1>4, <2>1
  <2>3. Span(m[a].size) <= k
    BY <2>1, <2>2
  <2> QED BY <1>2, <2>1, <2>3 DEF After
<1>5. ASSUME NEW a \in H, c <= After(m, a), After(m, a) <= c + k + 1
      PROVE  After(m, a) \in H /\ Taken(m[a].size)
  <2>1. After(m, a) \in CellsOf(heap)
    BY <1>2, <1>5
  <2>2. ~Last(m[a].size)
    BY <1>1, <2>1, CellType DEF Tiled
  <2>3. After(m, a) \in H
    BY <1>1, <2>2 DEF Tiled
  <2>4. ~Taken(m[After(m, a)].size)
    BY <1>3, <1>5, <2>3
  <2> QED BY <1>1, <2>2, <2>3, <2>4 DEF Joined
<1>6. c \in CellsOf(heap) /\ \A p \in DOMAIN lv : c \notin Ideal!Extent(p, lv[p])
  OBVIOUS
<1>7. PICK a \in H : a <= c /\ c < After(m, a)
  BY <1>1, <1>6, Covered
<1>8. CASE ~Taken(m[a].size)
  BY <1>2, <1>4, <1>5, <1>7, <1>8
<1>9. CASE Taken(m[a].size)
  <2>1. a + 1 \in DOMAIN lv
    BY <1>9 DEF Good
  <2>2. \A d \in Nat : (a + 1) - 1 <= d /\ d < After(m, (a + 1) - 1)
           => d \in Ideal!Extent(a + 1, lv[a + 1]) \/ d + 1 = After(m, (a + 1) - 1)
    BY <2>1, ExtentInside
  <2>3. c + 1 = After(m, a)
    BY <1>2, <1>6, <1>7, <2>1, <2>2
  <2>4. After(m, a) \in H
    BY <1>5, <2>3
  <2> DEFINE b == After(m, a)
  <2> HIDE DEF b
  <2>5. b \in H /\ b = c + 1
    BY <2>3, <2>4 DEF b
  <2>6. ~Taken(m[b].size)
    BY <1>3, <2>5
  <2>7. After(m, b) <= c + 1 + k /\ c <= After(m, b)
    BY <1>2, <1>4, <2>5, <2>6
  <2> QED BY <1>2, <1>5, <2>5, <2>6, <2>7
<1> QED BY <1>8, <1>9
\* What the block at p holds, with room for k cells.
Held(m, p, k) == [i \in 0 .. k - 1 |-> m[p + i]]

LEMMA SameHeld ==
  ASSUME NEW m, NEW n, NEW p \in Nat, NEW r \in Requests, \A c \in Payload(p, r) : n[c] = m[c]
  PROVE  Held(n, p, Room(r)) = Held(m, p, Room(r))
<1> DEFINE k == Room(r)
<1>1. k \in Nat
  BY Asked
<1>2. \A i \in 0 .. k - 1 : p + i \in p .. p + k - 1
  <2> HIDE DEF k
  <2> QED BY <1>1
<1>3. \A i \in 0 .. k - 1 : n[p + i] = m[p + i]
  BY <1>2 DEF Payload
<1> QED BY <1>3 DEF Held

\* A request that is granted.
LEMMA AllocGrants ==
  ASSUME NEW H, Good(mem, live, stale, H), NEW n \in Requests, Alloc(n), call'.ret # NULL
  PROVE  Ideal!Grant(n)
<1>1. PICK a \in H : \E G :
        /\ call'.ret = a + 1 /\ a + 1 \in Nat /\ n >= 1
        /\ Taking(heap, mem, H, a, Room(n), mem', G)
        /\ live' = Holding(live, a + 1, n)
        /\ Good(mem', live', stale', G)
  BY AllocStep
<1>2. PICK G :
        /\ call'.ret = a + 1 /\ a + 1 \in Nat /\ n >= 1
        /\ Taking(heap, mem, H, a, Room(n), mem', G)
        /\ live' = Holding(live, a + 1, n)
        /\ Good(mem', live', stale', G)
  BY <1>1
<1> DEFINE p == a + 1
<1>3. call' = [op |-> "heap_alloc", arg |-> n, ret |-> p]
  BY <1>2 DEF Alloc
<1>4. /\ Sound(heap) /\ Tiled(heap, mem, H) /\ a \in Nat /\ p - 1 = a
  BY HeapSound, BlockType DEF Good
<1>5. p \notin DOMAIN live
  BY <1>2, <1>4 DEF Taking, Good
<1> HIDE DEF p
<1>6. /\ DOMAIN live' = DOMAIN live \union {p} /\ live'[p] = n
      /\ \A q \in DOMAIN live : live'[q] = live[q]
  BY <1>2, <1>5 DEF Holding, p
<1>7. Ideal!Extent(p, n) \subseteq Ideal!Vacant
  <2> SUFFICES ASSUME NEW c \in Ideal!Extent(p, n)
               PROVE  c \in CellsOf(heap) /\ \A q \in DOMAIN live : c \notin Ideal!Extent(q, live[q])
    BY DEF Ideal!Vacant
  <2>1. c \in CellsOf(heap)
    BY <1>2, <1>6, ExtentInside
  <2>2. ASSUME NEW q \in DOMAIN live PROVE c \notin Ideal!Extent(q, live[q])
    <3>1. Ideal!Extent(p, live'[p]) \intersect Ideal!Extent(q, live'[q]) = {}
      <4>1. p \in DOMAIN live' /\ q \in DOMAIN live' /\ p # q
        BY <1>5, <1>6
      <4> QED BY <1>2, <4>1, ExtentsApart
    <3> QED BY <1>6, <3>1
  <2> QED BY <2>1, <2>2
<1>8. ASSUME NEW q \in DOMAIN live
      PROVE  Held(mem', q, Room(live'[q])) = Held(mem, q, Room(live[q]))
  <2>1. /\ q \in Nat /\ live[q] \in Requests /\ live'[q] = live[q] /\ q \in DOMAIN live'
    BY <1>6 DEF Good
  <2>2. /\ Payload(q, live[q]) \subseteq CellsOf(heap)
        /\ \A c \in G : c \notin Payload(q, live[q])
    BY <1>2, <2>1, PayloadInside
  <2>3. \A c \in Payload(q, live[q]) : mem'[c] = mem[c]
    BY <1>2, <2>2 DEF Taking, Cell
  <2> QED BY <2>1, <2>3, SameHeld
<1>9. live' = [q \in DOMAIN live \union {p} |-> IF q = p THEN n ELSE live[q]]
  BY <1>2 DEF Holding, p
<1>10. p = call'.ret
  BY <1>2 DEF p
<1>11. \A q \in DOMAIN live :
          [r \in DOMAIN live' |-> [i \in 0 .. Room(live'[r]) - 1 |-> mem'[r + i]]][q]
        = [r \in DOMAIN live |-> [i \in 0 .. Room(live[r]) - 1 |-> mem[r + i]]][q]
  BY <1>6, <1>8 DEF Held
<1> QED BY <1>2, <1>3, <1>7, <1>9, <1>10, <1>11 DEF Ideal!Grant

\* One that is refused.
LEMMA AllocRefuses ==
  ASSUME NEW H, Good(mem, live, stale, H), NEW n \in Requests, Alloc(n), call'.ret = NULL
  PROVE  Ideal!Refuse(n)
<1>1. UNCHANGED <<mem, live, stale>>
  BY AllocStep
<1>2. call' = [op |-> "heap_alloc", arg |-> n, ret |-> 0]
  BY DEF Alloc, NULL
<1>3. n \in Nat /\ Room(n) \in Nat /\ Ideal!Room(n) = Room(n)
  BY Asked DEF Room, Ideal!Room
<1>4. ASSUME n >= 1, NEW c \in Ideal!Vacant,
             c .. c + Ideal!Room(n) + 1 \subseteq Ideal!Vacant
      PROVE  FALSE
  <2>1. /\ mem \in [Cell -> Marker] /\ Tiled(heap, mem, H) /\ Joined(mem, H) /\ Sound(heap)
    BY HeapSound DEF Good
  <2>2. heap_alloc(heap, mem, n).ret = NULL
    BY DEF Alloc
  <2>3. \A a \in H : Taken(mem[a].size) \/ SizeOf(mem[a].size) < 8 * Room(n)
    BY <1>3, <1>4, <2>1, <2>2, AllocTakes
  <2>4. c \in Nat
    BY <1>4, <2>1, CellType DEF Ideal!Vacant
  <2>5. \A d \in c .. c + Room(n) + 1 :
           d \in CellsOf(heap) /\ \A p \in DOMAIN live : d \notin Ideal!Extent(p, live[p])
    BY <1>3, <1>4 DEF Ideal!Vacant
  <2> QED BY <1>3, <2>3, <2>4, <2>5, NoRoom
<1> QED BY <1>1, <1>2, <1>4 DEF Ideal!Refuse

LEMMA FreeRefines ==
  ASSUME NEW H, Good(mem, live, stale, H), NEW p \in DOMAIN live, Free(p)
  PROVE  Ideal!Free(p)
<1>1. /\ call'.ret = 1 /\ Untouched(mem, mem', CellsOf(heap) \ H)
      /\ live' = [q \in DOMAIN live \ {p} |-> live[q]]
  BY FreeStep DEF Free
<1>2. call' = [op |-> "heap_free", arg |-> p, ret |-> 1]
  BY <1>1 DEF Free
<1>3. ASSUME NEW q \in DOMAIN live \ {p}
      PROVE  Held(mem', q, Room(live'[q])) = Held(mem, q, Room(live[q]))
  <2>1. q \in Nat /\ live[q] \in Requests /\ live'[q] = live[q]
    BY <1>1 DEF Good
  <2>2. /\ Payload(q, live[q]) \subseteq CellsOf(heap)
        /\ \A c \in H : c \notin Payload(q, live[q])
    BY PayloadInside
  <2>3. \A c \in Payload(q, live[q]) : mem'[c] = mem[c]
    BY <1>1, <2>2 DEF Untouched
  <2> QED BY <2>1, <2>3, SameHeld
<1>4. [r \in DOMAIN live' |-> [i \in 0 .. Room(live'[r]) - 1 |-> mem'[r + i]]]
        = [q \in DOMAIN live \ {p} |->
             [r \in DOMAIN live |-> [i \in 0 .. Room(live[r]) - 1 |-> mem[r + i]]][q]]
  BY <1>1, <1>3 DEF Held
<1> QED BY <1>1, <1>2, <1>4 DEF Ideal!Free

LEMMA FreeOtherRefines ==
  ASSUME ForeignApart, NEW H, Good(mem, live, stale, H),
         NEW p \in stale \union Foreign, FreeOther(p)
  PROVE  Ideal!FreeOther(p)
<1>1. p \in Nat /\ call'.ret = 0 /\ UNCHANGED <<mem, live, stale>>
  BY FreeOtherStep
<1>2. call' = [op |-> "heap_free", arg |-> p, ret |-> 0]
  BY <1>1 DEF FreeOther
<1>3. p \notin DOMAIN live
  <2>1. CASE p \in stale
    BY <2>1, NotHeld
  <2>2. CASE p \in Foreign
    <3> SUFFICES ASSUME p \in DOMAIN live PROVE FALSE
      OBVIOUS
    <3> DEFINE a == p - 1
    <3>1. a \in CellsOf(heap) /\ Sound(heap)
      BY HeapSound DEF Good, Tiled
    <3>2. ~ in_this_heap(heap, Pointer(a))
      BY <2>2 DEF ForeignApart
    <3> HIDE DEF a
    <3>3. a \in Nat /\ a < WORD \div MARKER /\ heap.memory <= a /\ a < End(heap)
      BY <3>1, CellType
    <3> QED BY <3>1, <3>2, <3>3, Pointers DEF in_this_heap, Sound, End
  <2> QED BY <2>1, <2>2
<1> QED BY <1>1, <1>2, <1>3 DEF Ideal!FreeOther

\* What the program writes in one block is not in another.
LEMMA WriteRefines ==
  ASSUME NEW H, Good(mem, live, stale, H), NEW p \in DOMAIN live, NEW w \in Data, Write(p, w)
  PROVE  Ideal!Write(p)
<1>1. UNCHANGED <<live, call>> /\ \A c \in Cell \ Payload(p, live[p]) : mem'[c] = mem[c]
  BY DEF Write
<1>2. ASSUME NEW q \in DOMAIN live \ {p}
      PROVE  Held(mem', q, Room(live'[q])) = Held(mem, q, Room(live[q]))
  <2>1. q \in Nat /\ live[q] \in Requests /\ live'[q] = live[q]
    BY <1>1 DEF Good
  <2>2. Payload(q, live[q]) \subseteq CellsOf(heap)
    BY PayloadInside
  <2>3. \A c \in Payload(q, live[q]) : c \notin Payload(p, live[p])
    <3>1. Ideal!Extent(p, live[p]) \intersect Ideal!Extent(q, live[q]) = {}
      BY ExtentsApart
    <3>2. ASSUME NEW r \in DOMAIN live
          PROVE  Payload(r, live[r]) \subseteq Ideal!Extent(r, live[r])
      <4>1. r \in Nat /\ live[r] \in Requests /\ Room(live[r]) \in Nat
        BY Asked DEF Good
      <4>2. Ideal!Extent(r, live[r]) = (r - 1) .. (r + Room(live[r]) - 1)
        BY <4>1, Extents
      <4> QED BY <4>1, <4>2 DEF Payload
    <3> QED BY <3>1, <3>2
  <2>4. \A c \in Payload(q, live[q]) : mem'[c] = mem[c]
    BY <1>1, <2>2, <2>3 DEF Cell
  <2> QED BY <2>1, <2>4, SameHeld
<1>3. \A q \in DOMAIN live \ {p} :
          [r \in DOMAIN live' |-> [i \in 0 .. Room(live'[r]) - 1 |-> mem'[r + i]]][q]
        = [r \in DOMAIN live |-> [i \in 0 .. Room(live[r]) - 1 |-> mem[r + i]]][q]
  BY <1>1, <1>2 DEF Held
<1> QED BY <1>1, <1>3 DEF Ideal!Write

\* Every step of the heap is a step of the allocator or changes nothing it knows.
LEMMA StepRefines ==
  ASSUME ForeignApart, IInv, [Next]_vars
  PROVE  [Ideal!Next]_(Ideal!vars)
<1>1. PICK H : Good(mem, live, stale, H)
  BY DEF IInv
<1>2. ASSUME NEW n \in Requests, Alloc(n) PROVE Ideal!Next
  <2>1. call'.arg = n
    BY <1>2 DEF Alloc
  <2>2. Ideal!Grant(n) \/ Ideal!Refuse(n)
    BY <1>1, <1>2, AllocGrants, AllocRefuses
  <2>3. Ideal!Grant(call'.arg) \/ Ideal!Refuse(call'.arg)
    BY <2>1, <2>2 DEF Ideal!Grant, Ideal!Refuse
  <2> QED BY <2>3 DEF Ideal!Next
<1>3. ASSUME NEW p \in DOMAIN live, Free(p) PROVE Ideal!Next
  <2>1. call'.arg = p /\ Ideal!Free(p)
    BY <1>1, <1>3, FreeRefines DEF Free
  <2>2. Ideal!Free(call'.arg)
    BY <2>1 DEF Ideal!Free
  <2> QED BY <2>2 DEF Ideal!Next
<1>4. ASSUME NEW p \in stale \union Foreign, FreeOther(p) PROVE Ideal!Next
  <2>1. call'.arg = p /\ Ideal!FreeOther(p)
    BY <1>1, <1>4, FreeOtherRefines DEF FreeOther
  <2> QED BY <2>1 DEF Ideal!Next
<1>5. ASSUME NEW p \in DOMAIN live, NEW w \in Data, Write(p, w) PROVE Ideal!Next
  BY <1>1, <1>5, WriteRefines DEF Ideal!Next
<1>6. CASE UNCHANGED vars
  BY <1>6 DEF vars, Ideal!vars
<1> QED BY <1>2, <1>3, <1>4, <1>5, <1>6 DEF Next

\* heap_alloc and heap_free are an allocator: the blocks they grant do not
\* overlap, only the program changes what they hold, a request is refused only
\* for want of room, and what is not held cannot be freed.
THEOREM HeapRefines ==
  ASSUME ForeignApart
  PROVE  Spec => IdealSpec
<1>1. Init => Ideal!Init
  BY DEF Init, Ideal!Init
<1>2. Spec => []IInv
  BY Invariant
<1>3. IInv /\ [Next]_vars => [Ideal!Next]_(Ideal!vars)
  BY StepRefines
<1> QED BY <1>1, <1>2, <1>3, PTL DEF Spec, IdealSpec, Ideal!Spec
=============================================================================
