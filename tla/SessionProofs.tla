--------------------------- MODULE SessionProofs ---------------------------
(***************************************************************************)
(* Theorems about the parts of the debugger that do not run the program,   *)
(* in any session: memory (Inspect), for any address space, memory and     *)
(* requests; registers (Registers), for any registers and any program;     *)
(* files and their symbols (Loader), for any files and places; the command *)
(* line (CommandLine), for any characters, lines and width of an int.      *)
(***************************************************************************)
EXTENDS Session, DebuggerProofs, Sequences, NumberFacts, TLAPS

\* A step of the session is one of each part, or leaves it as it is.
LEMMA StepOfEach ==
  [SessionNext]_<<vars, loading, looking, showing, reading>>
    => /\ [Loads!Next]_Loads!vars /\ [Looks!Next]_Looks!vars
       /\ [Shows!Next]_Shows!vars /\ [Reads!Next]_reading
BY DEF SessionNext, run_command, load_command, look_command, show_command, read_command,
       loading, looking, showing, reading, Loads!vars, Looks!vars, Looks!w, Shows!vars

-----------------------------------------------------------------------------
(* Words around the address space.                                         *)

\* The word k places after an address.
place(a, k) == (a + 4 * k) % SPACE

LEMMA PlaceZero == Looks!AddressSpace => \A a \in Int : place(a, 0) = a % SPACE
BY DEF place

LEMMA PlaceNext ==
  ASSUME Looks!AddressSpace, NEW a \in Int, NEW k \in Int
  PROVE  (place(a, k) + 4) % SPACE = place(a, k+1)
<1> DEFINE x == a + 4 * k
           y == 4
<1>1. x \in Int /\ y \in Int /\ x + y = a + 4 * (k+1)
  OBVIOUS
<1> HIDE DEF x, y
<1>2. ((x % SPACE) + y) % SPACE = (x + y) % SPACE
  BY <1>1, ModPlus DEF Looks!AddressSpace
<1> QED BY <1>1, <1>2 DEF place, x, y

\* Going back tells how many places.
LEMMA PlaceDistance ==
  ASSUME Looks!AddressSpace, NEW a \in Int, NEW k \in Nat, 4 * k < SPACE
  PROVE  (place(a, k) - a) % SPACE = 4 * k
<1> DEFINE x == a + 4 * k
<1>1. x \in Int /\ x - a = 4 * k /\ -a \in Int /\ x + (-a) = 4 * k
  OBVIOUS
<1> HIDE DEF x
<1>2. ((x % SPACE) + (-a)) % SPACE = (x + (-a)) % SPACE
  BY <1>1, ModPlus DEF Looks!AddressSpace
<1>3. x % SPACE \in Int
  BY <1>1, DivMod DEF Looks!AddressSpace
<1>4. (4 * k) % SPACE = 4 * k
  <2>1. 4 * k = 0 * SPACE + 4 * k /\ 4 * k \in 0 .. SPACE - 1 /\ 4 * k \in Int
    BY DEF Looks!AddressSpace
  <2> QED BY <2>1, ModIs DEF Looks!AddressSpace
<1>5. (x % SPACE) - a = (x % SPACE) + (-a)
  BY <1>3
<1> QED BY <1>1, <1>2, <1>4, <1>5 DEF place, x

LEMMA PlaceApart ==
  ASSUME Looks!AddressSpace, NEW a \in Int, NEW j \in Nat, NEW k \in Nat, j < k, 4 * k < SPACE
  PROVE  place(a, j) # place(a, k)
<1>1. (place(a, j) - a) % SPACE = 4 * j /\ (place(a, k) - a) % SPACE = 4 * k
  BY PlaceDistance DEF Looks!AddressSpace
<1> QED BY <1>1

LEMMA PlaceWord ==
  ASSUME Looks!AddressSpace, NEW a \in Int, a % 4 = 0, NEW k \in Int
  PROVE  place(a, k) \in Looks!Word
<1>1. SPACE % 4 = 0 /\ a + 4 * k \in Int /\ (a + 4 * k) % 4 = 0
  BY DEF Looks!AddressSpace
<1>2. (a + 4 * k) % SPACE \in 0 .. SPACE - 1 /\ ((a + 4 * k) % SPACE) % 4 = 0
  BY <1>1, DivMod, ModFour DEF Looks!AddressSpace
<1> QED BY <1>2 DEF place, Looks!Word

\* Once around the address space, all words have been passed.
LEMMA PlaceAround ==
  ASSUME Looks!AddressSpace, NEW a \in Int, a % 4 = 0, NEW h \in Looks!Word
  PROVE  \E k \in Nat : 4 * k < SPACE /\ place(a, k) = h
<1> DEFINE m == (h - a) % SPACE
           q == (h - a) \div SPACE
<1>1. h \in 0 .. SPACE - 1 /\ h % 4 = 0 /\ SPACE % 4 = 0
  BY DEF Looks!Word, Looks!AddressSpace
<1>2. h - a \in Int /\ (h - a) % 4 = 0
  BY <1>1 DEF Looks!AddressSpace
<1>3. m \in 0 .. SPACE - 1 /\ q \in Int /\ h - a = q * SPACE + m
  BY <1>2, DivMod DEF Looks!AddressSpace
<1>4. m % 4 = 0
  BY <1>1, <1>2, ModFour DEF Looks!AddressSpace
<1> HIDE DEF m, q
<1>5. PICK k \in Nat : m = 4 * k
  <2>1. m \div 4 \in Nat /\ m = 4 * (m \div 4)
    BY <1>3, <1>4 DEF Looks!AddressSpace
  <2> QED BY <2>1
<1> DEFINE x == a + 4 * k
           d == -q
<1>6. x = d * SPACE + h /\ d \in Int /\ x \in Int
  BY <1>1, <1>3, <1>5 DEF Looks!AddressSpace
<1> HIDE DEF x, d
<1>7. x % SPACE = h
  BY <1>1, <1>6, ModIs DEF Looks!AddressSpace
<1> QED BY <1>3, <1>5, <1>7 DEF place, Looks!AddressSpace, x

LEMMA Rounded ==
  ASSUME NEW a \in Int
  PROVE  /\ Looks!round(a, 4) \in Int /\ Looks!round(a, 4) % 4 = 0
         /\ Looks!round(a, 16) \in Int /\ Looks!round(a, 16) % 16 = 0
         /\ \E j \in 0 .. 3 : Looks!round(a, 4) = Looks!round(a, 16) + 4 * j
<1>1. /\ Looks!round(a, 4) \in Int /\ Looks!round(a, 4) % 4 = 0
      /\ Looks!round(a, 16) \in Int /\ Looks!round(a, 16) % 16 = 0
  BY DEF Looks!round
<1>2. PICK j \in 0 .. 3 : Looks!round(a, 4) = Looks!round(a, 16) + 4 * j
  <2>1. (a % 16) \div 4 \in 0 .. 3 /\ a - (a % 4) = a - (a % 16) + 4 * ((a % 16) \div 4)
    OBVIOUS
  <2> QED BY <2>1 DEF Looks!round
<1> QED BY <1>1, <1>2

-----------------------------------------------------------------------------
(* The invariant.                                                          *)

\* What w has written: the words from the address it was given to the one it
\* writes next, less than once around.
Written(c) ==
  /\ 4 * c < SPACE /\ m_adr = place(m_asked.adr, c)
  /\ c >= Len(m_typed) /\ (~m_ended => c = Len(m_typed))
  /\ \A k \in 0 .. c - 1 :
       /\ place(m_asked.adr, k) \in Mapped
       /\ m_memory[place(m_asked.adr, k)]
               = IF k < Len(m_typed) THEN m_typed[k+1] ELSE Looks!Last(m_typed)

\* The buffer holds the number typed last.
Writing ==
  /\ m_asked.adr \in Int /\ m_typed \in Seq(Value) /\ m_ended \in BOOLEAN
  /\ m_adr # none =>
       /\ m_asked.adr % 4 = 0
       /\ m_buffer # none => m_typed # <<>> /\ m_buffer = Looks!Last(m_typed)
       /\ \E c \in Nat : Written(c)

\* What is shown are words, the one asked for among them.
Seen == m_pc \in Looks!Word /\ Looks!Range(m_shown.words) \subseteq Looks!Word /\ Looks!AddressShown

Remembered == DOMAIN m_memory = Mapped /\ m_adr \in Looks!Word \union {none}

MemoryInv == Writing /\ Seen /\ Remembered

\* What the invariant says of w is what the property does.
LEMMA InvariantImplies == Looks!AddressSpace /\ MemoryInv => Looks!TypeOK /\ Looks!ShownAndWritten
<1> SUFFICES ASSUME Looks!AddressSpace, MemoryInv PROVE Looks!TypeOK /\ Looks!ShownAndWritten
  OBVIOUS
<1>1. Looks!TypeOK /\ Looks!AddressShown
  BY DEF MemoryInv, Writing, Seen, Remembered, Looks!TypeOK
<1>2. Looks!WrittenAsTyped
  <2> SUFFICES ASSUME m_adr # none PROVE Looks!WrittenAsTyped
    BY DEF Looks!WrittenAsTyped
  <2>1. m_asked.adr \in Int
    BY DEF MemoryInv, Writing
  <2>2. PICK c \in Nat : Written(c)
    BY DEF MemoryInv, Writing
  <2> DEFINE count == ((m_adr - m_asked.adr) % SPACE) \div 4
  <2>3. count = c
    <3>1. (m_adr - m_asked.adr) % SPACE = 4 * c
      BY <2>1, <2>2, PlaceDistance DEF Written
    <3> QED BY <3>1
  <2>4. \A k \in 1 .. c : /\ k - 1 \in 0 .. c - 1
                         /\ place(m_asked.adr, k-1) = (m_asked.adr + 4 * (k-1)) % SPACE
    BY DEF place
  <2>5. c >= Len(m_typed) /\ (~m_ended => c = Len(m_typed))
    BY <2>2 DEF Written
  <2>6. ASSUME NEW k \in 1 .. c
        PROVE  LET a == (m_asked.adr + 4 * (k-1)) % SPACE
               IN /\ a \in Mapped
                  /\ m_memory[a] = IF k <= Len(m_typed) THEN m_typed[k] ELSE Looks!Last(m_typed)
    <3>1. /\ place(m_asked.adr, k-1) \in Mapped
          /\ m_memory[place(m_asked.adr, k-1)]
               = IF k - 1 < Len(m_typed) THEN m_typed[(k-1)+1] ELSE Looks!Last(m_typed)
      BY <2>2, <2>4 DEF Written
    <3>2. (k - 1 < Len(m_typed) <=> k <= Len(m_typed)) /\ (k - 1) + 1 = k
      BY DEF MemoryInv, Writing
    <3>3. place(m_asked.adr, k-1) = (m_asked.adr + 4 * (k-1)) % SPACE
      BY <2>4
    <3> QED BY <3>1, <3>2, <3>3
  <2> HIDE DEF count
  <2>7. /\ count >= Len(m_typed) /\ (~m_ended => count = Len(m_typed))
        /\ \A k \in 1 .. count :
             LET a == (m_asked.adr + 4 * (k-1)) % SPACE
             IN /\ a \in Mapped
                  /\ m_memory[a] = IF k <= Len(m_typed) THEN m_typed[k] ELSE Looks!Last(m_typed)
    BY <2>3, <2>5, <2>6
  <2> QED BY <2>7 DEF Looks!WrittenAsTyped, count
<1> QED BY <1>1, <1>2 DEF Looks!ShownAndWritten

LEMMA InitMemoryInv == Looks!AddressSpace /\ Looks!Init => MemoryInv
<1> SUFFICES ASSUME Looks!AddressSpace, Looks!Init PROVE MemoryInv
  OBVIOUS
<1>1. Writing
  <2>1. m_asked.adr \in Int /\ m_ended \in BOOLEAN /\ m_adr = none
    <3>1. m_asked.adr = 0 /\ m_ended = FALSE /\ m_adr = none
      BY DEF Looks!Init
    <3>2. 0 \in Int /\ FALSE \in BOOLEAN
      OBVIOUS
    <3> QED BY <3>1, <3>2, Zenon
  <2>2. m_typed \in Seq(Value)
    BY DEF Looks!Init
  <2> QED BY <2>1, <2>2, Zenon DEF Writing
<1>2. Seen
  BY DEF Looks!Init, Seen, Looks!AddressShown, Looks!Range
<1>3. Remembered
  BY DEF Looks!Init, Remembered
<1> QED BY <1>1, <1>2, <1>3 DEF MemoryInv

-----------------------------------------------------------------------------
(* Writing.                                                                *)

\* The words written have not come around to where the writing began: there is
\* one on the way that is not memory.
LEMMA NotAround ==
  ASSUME Looks!AddressSpace, m_asked.adr \in Int, m_asked.adr % 4 = 0,
         NEW c \in Nat, Written(c), m_adr \in Mapped
  PROVE  4 * (c + 1) < SPACE
<1> SUFFICES ASSUME SPACE <= 4 * (c + 1) PROVE FALSE
  BY DEF Looks!AddressSpace
<1>1. ASSUME NEW h \in Looks!Word PROVE h \in Mapped
  <2>1. PICK k \in Nat : 4 * k < SPACE /\ place(m_asked.adr, k) = h
    BY PlaceAround
  <2>2. k = c \/ k \in 0 .. c - 1
    BY <2>1 DEF Looks!AddressSpace
  <2> QED BY <2>1, <2>2 DEF Written
<1> QED BY <1>1 DEF Looks!AddressSpace

\* One more word: the number just typed, or after the end of input the last one
\* again.
LEMMA OneWord ==
  ASSUME Looks!AddressSpace, MemoryInv, m_asked.adr % 4 = 0,
         NEW c \in Nat, Written(c), m_adr \in Mapped, NEW v, Looks!write(v),
         \/ v \in Value /\ m_typed' = Append(m_typed, v) /\ ~m_ended /\ m_ended' = m_ended
         \/ m_typed' = m_typed /\ m_typed # <<>> /\ v = Looks!Last(m_typed) /\ m_ended' = TRUE
  PROVE  Written(c+1)'
<1>1. /\ m_asked.adr \in Int /\ m_typed \in Seq(Value) /\ DOMAIN m_memory = Mapped
      /\ 4 * c < SPACE /\ m_adr = place(m_asked.adr, c)
      /\ c >= Len(m_typed) /\ (~m_ended => c = Len(m_typed))
  BY DEF MemoryInv, Writing, Remembered, Written
<1>2. /\ m_asked' = m_asked
      /\ m_memory' = [m_memory EXCEPT ![m_adr] = v] /\ m_adr' = (m_adr + 4) % SPACE
  BY DEF Looks!write
<1>3. 4 * (c + 1) < SPACE
  BY <1>1, NotAround
<1>4. m_adr' = place(m_asked.adr, c + 1)
  <2>1. (place(m_asked.adr, c) + 4) % SPACE = place(m_asked.adr, c + 1)
    <3>1. m_asked.adr \in Int /\ c \in Int
      BY <1>1
    <3> QED BY <3>1, PlaceNext, Zenon
  <2> QED BY <1>1, <1>2, <2>1, Zenon
<1>5. c + 1 >= Len(m_typed') /\ (~m_ended' => c + 1 = Len(m_typed'))
  BY <1>1
<1>6. ASSUME NEW k \in 0 .. c
      PROVE  /\ place(m_asked.adr, k) \in Mapped
             /\ m_memory'[place(m_asked.adr, k)]
                  = IF k < Len(m_typed') THEN m_typed'[k+1] ELSE Looks!Last(m_typed')
  <2>1. CASE k = c
    <3>1. m_memory'[m_adr] = v
      BY <1>1, <1>2
    <3>2. CASE v \in Value /\ m_typed' = Append(m_typed, v) /\ ~m_ended
      <4>1. c = Len(m_typed) /\ Len(m_typed') = c + 1 /\ m_typed'[c+1] = v
        BY <1>1, <3>2
      <4> QED BY <1>1, <2>1, <3>1, <4>1
    <3>3. CASE m_typed' = m_typed /\ v = Looks!Last(m_typed)
      <4>1. ~ (c < Len(m_typed'))
        BY <1>1, <3>3
      <4> QED BY <1>1, <2>1, <3>1, <3>3, <4>1, Zenon DEF Looks!Last
    <3> QED BY <3>2, <3>3
  <2>2. CASE k # c
    <3>1. k \in 0 .. c - 1 /\ k < c /\ k \in Nat
      BY <2>2
    <3>2. /\ place(m_asked.adr, k) \in Mapped
          /\ m_memory[place(m_asked.adr, k)]
               = IF k < Len(m_typed) THEN m_typed[k+1] ELSE Looks!Last(m_typed)
      BY <3>1 DEF Written
    <3>3. place(m_asked.adr, k) # m_adr
      BY <1>1, <3>1, PlaceApart
    <3>4. m_memory'[place(m_asked.adr, k)] = m_memory[place(m_asked.adr, k)]
      BY <1>1, <1>2, <3>2, <3>3
    <3>5. CASE v \in Value /\ m_typed' = Append(m_typed, v) /\ ~m_ended
      <4>1. k < Len(m_typed) /\ k < Len(m_typed') /\ m_typed'[k+1] = m_typed[k+1]
        BY <1>1, <3>1, <3>5
      <4> QED BY <3>2, <3>4, <4>1
    <3>6. CASE m_typed' = m_typed
      BY <3>2, <3>4, <3>6 DEF Looks!Last
    <3> QED BY <3>2, <3>5, <3>6
  <2> QED BY <2>1, <2>2
<1>7. \A k \in 0 .. (c+1) - 1 : k \in 0 .. c
  OBVIOUS
<1> QED BY <1>2, <1>3, <1>4, <1>5, <1>6, <1>7 DEF Written, place

\* So it goes for a line that is a number and for the end of input.
LEMMA WriteMemoryInv ==
  ASSUME Looks!AddressSpace, MemoryInv, m_adr # none, NEW v, Looks!write(v),
         \/ /\ v \in Value /\ m_typed' = Append(m_typed, v) /\ m_buffer' = v
            /\ ~m_ended /\ m_ended' = m_ended
         \/ UNCHANGED <<m_typed, m_buffer>> /\ m_buffer # none /\ v = m_buffer /\ m_ended' = TRUE
  PROVE  MemoryInv'
<1>1. /\ m_asked.adr \in Int /\ m_asked.adr % 4 = 0 /\ m_typed \in Seq(Value) /\ m_ended \in BOOLEAN
      /\ m_buffer # none => m_typed # <<>> /\ m_buffer = Looks!Last(m_typed)
  BY DEF MemoryInv, Writing
<1>2. UNCHANGED <<m_pc, m_shown, m_asked>>
  BY DEF Looks!write
<1>3. Seen'
  BY <1>2 DEF MemoryInv, Seen, Looks!AddressShown
<1>4. m_typed' \in Seq(Value) /\ m_ended' \in BOOLEAN
  <2>1. CASE v \in Value /\ m_typed' = Append(m_typed, v) /\ m_ended' = m_ended
    BY <1>1, <2>1
  <2>2. CASE m_typed' = m_typed /\ m_ended' = TRUE
    BY <1>1, <2>2
  <2> QED BY <2>1, <2>2
<1>5. m_buffer' # none => m_typed' # <<>> /\ m_buffer' = Looks!Last(m_typed')
  <2>1. CASE v \in Value /\ m_typed' = Append(m_typed, v) /\ m_buffer' = v
    <3>1. m_typed' # <<>> /\ Len(m_typed') = Len(m_typed) + 1 /\ m_typed'[Len(m_typed) + 1] = v
      BY <1>1, <2>1
    <3> QED BY <2>1, <3>1 DEF Looks!Last
  <2>2. CASE UNCHANGED <<m_typed, m_buffer>>
    BY <1>1, <2>2 DEF Looks!Last
  <2> QED BY <2>1, <2>2
<1>6. CASE m_adr \in Mapped
  <2>1. PICK c \in Nat : Written(c)
    BY DEF MemoryInv, Writing
  <2>2. Written(c+1)' /\ c + 1 \in Nat
    <3>1. \/ v \in Value /\ m_typed' = Append(m_typed, v) /\ ~m_ended /\ m_ended' = m_ended
          \/ m_typed' = m_typed /\ m_typed # <<>> /\ v = Looks!Last(m_typed) /\ m_ended' = TRUE
      <4>1. CASE v \in Value /\ m_typed' = Append(m_typed, v) /\ ~m_ended /\ m_ended' = m_ended
        BY <4>1
      <4>2. CASE /\ UNCHANGED <<m_typed, m_buffer>>
                 /\ m_buffer # none /\ v = m_buffer /\ m_ended' = TRUE
        BY <1>1, <4>2 DEF Looks!Last
      <4> QED BY <4>1, <4>2
    <3>2. m_asked.adr % 4 = 0
      BY <1>1
    <3>3. Written(c+1)'
      BY <1>6, <2>1, <3>1, <3>2, OneWord, Zenon
    <3> QED BY <3>3
  <2>3. Remembered'
    <3>1. m_memory' = [m_memory EXCEPT ![m_adr] = v] /\ m_adr' = place(m_asked.adr, c+1)
      BY <1>2, <1>6, <2>2 DEF Looks!write, Written
    <3>2. place(m_asked.adr, c+1) \in Looks!Word
      BY <1>1, PlaceWord
    <3> QED BY <3>1, <3>2 DEF MemoryInv, Remembered
  <2> QED BY <1>1, <1>2, <1>3, <1>4, <1>5, <2>2, <2>3 DEF MemoryInv, Writing
<1>7. CASE m_adr \notin Mapped
  <2>1. m_adr' = none /\ m_memory' = m_memory
    BY <1>7 DEF Looks!write
  <2> QED BY <1>1, <1>2, <1>3, <1>4, <2>1 DEF MemoryInv, Writing, Remembered
<1> QED BY <1>6, <1>7

\* w begins with nothing written.
LEMMA BeginMemoryInv ==
  ASSUME Looks!AddressSpace, MemoryInv, NEW a \in Requests, Looks!doWriteMemory(a)
  PROVE  MemoryInv'
<1>1. a \in Int
  BY DEF Looks!AddressSpace
<1>2. Looks!round(a, 4) \in Int /\ Looks!round(a, 4) % 4 = 0
  BY <1>1, Rounded
<1>3. /\ m_adr' = Looks!round(a, 4) % SPACE /\ m_typed' = <<>> /\ m_buffer' = none
      /\ m_asked' = [adr |-> Looks!round(a, 4), count |-> none]
      /\ m_shown' = [words |-> <<>>, mark |-> none]
      /\ m_pc' = m_pc /\ m_memory' = m_memory /\ m_ended' = m_ended
  BY DEF Looks!doWriteMemory
<1>4. m_adr' = place(m_asked'.adr, 0) /\ m_adr' \in Looks!Word
  <2>1. Looks!round(a, 4) % SPACE = place(Looks!round(a, 4), 0)
    BY <1>2, PlaceZero
  <2>2. place(Looks!round(a, 4), 0) \in Looks!Word
    BY <1>2, PlaceWord
  <2> QED BY <1>3, <2>1, <2>2
<1>5. Written(0)'
  <2>1. 4 * 0 < SPACE /\ Len(m_typed') = 0
    BY <1>3 DEF Looks!AddressSpace
  <2>2. \A k \in 0 .. 0 - 1 : FALSE
    OBVIOUS
  <2> QED BY <1>4, <2>1, <2>2 DEF Written, place
<1>6. Writing'
  BY <1>2, <1>3, <1>5 DEF MemoryInv, Writing
<1>7. Seen'
  BY <1>3 DEF MemoryInv, Seen, Looks!AddressShown, Looks!Range
<1>8. Remembered'
  BY <1>3, <1>4 DEF MemoryInv, Remembered
<1> QED BY <1>6, <1>7, <1>8 DEF MemoryInv

-----------------------------------------------------------------------------
(* Seen.                                                                *)

LEMMA FromWords ==
  ASSUME Looks!AddressSpace, NEW a \in Int, a % 4 = 0, NEW n \in Nat
  PROVE  /\ Looks!Range(Looks!from(a, n)) \subseteq Looks!Word /\ Len(Looks!from(a, n)) = n
         /\ \A j \in 0 .. n - 1 : place(a, j) \in Looks!Range(Looks!from(a, n))
<1> DEFINE s == [k \in 1 .. n |-> place(a, k-1)]
<1>1. Looks!from(a, n) = s
  BY DEF Looks!from, place
<1>2. DOMAIN s = 1 .. n /\ Len(s) = n /\ \A k \in 1 .. n : s[k] = place(a, k-1)
  OBVIOUS
<1> HIDE DEF s
<1>3. \A k \in 1 .. n : s[k] \in Looks!Word
  BY <1>2, PlaceWord, SMTT(20)
<1>4. ASSUME NEW j \in 0 .. n - 1 PROVE place(a, j) \in Looks!Range(s)
  <2>1. j + 1 \in 1 .. n /\ (j + 1) - 1 = j
    OBVIOUS
  <2> QED BY <1>2, <2>1 DEF Looks!Range
<1> QED BY <1>1, <1>2, <1>3, <1>4 DEF Looks!Range

\* A command that shows keeps the invariant when it shows whole words, four at
\* least, and the one asked for.
LEMMA ShownMemoryInv ==
  ASSUME Looks!AddressSpace, MemoryInv, m_adr = none,
         UNCHANGED <<m_pc, m_memory, Looks!w, m_ended>>,
         m_asked'.adr \in Int, Looks!Range(m_shown'.words) \subseteq Looks!Word,
         m_asked'.adr % SPACE \in Looks!Range(m_shown'.words), Len(m_shown'.words) >= 4
  PROVE  MemoryInv'
<1>1. /\ m_adr' = none /\ m_typed' = m_typed /\ m_ended' = m_ended
      /\ m_pc' = m_pc /\ m_memory' = m_memory
  BY DEF Looks!w
<1>2. Writing'
  BY <1>1 DEF MemoryInv, Writing
<1>3. Seen'
  BY <1>1 DEF MemoryInv, Seen, Looks!AddressShown
<1>4. Remembered'
  BY <1>1 DEF MemoryInv, Remembered
<1> QED BY <1>2, <1>3, <1>4 DEF MemoryInv

\* The lines of a dump begin with the one before the address's.
LEMMA ShowMemoryMemoryInv ==
  ASSUME Looks!AddressSpace, MemoryInv, NEW a \in Requests, NEW len \in Requests \union {none},
         Looks!doShowMemory(a, len)
  PROVE  MemoryInv'
<1> DEFINE count == Looks!at_least(IF len = none THEN Looks!MEMORY_DUMP_SIZE ELSE len, 4) + 4
           words == IF count % 16 # 0 THEN Looks!round(count, 16) + 16 ELSE count
           first == Looks!round(a, 16) - 16
<1>1. a \in Int /\ count \in Nat /\ count >= 8
  BY DEF Looks!AddressSpace, Looks!at_least, Looks!MEMORY_DUMP_SIZE
<1>2. words \in Nat /\ words >= 8
  BY <1>1 DEF Looks!round
<1>3. /\ m_adr = none /\ UNCHANGED <<m_pc, m_memory, Looks!w, m_ended>>
      /\ m_shown'.words = Looks!from(first, words) /\ m_asked'.adr = Looks!round(a, 4)
  BY DEF Looks!doShowMemory
<1> HIDE DEF count, words
<1>4. Looks!round(a, 4) \in Int /\ Looks!round(a, 16) \in Int /\ Looks!round(a, 16) % 16 = 0
  BY <1>1, Rounded
<1>5. PICK j \in 0 .. 3 : Looks!round(a, 4) = Looks!round(a, 16) + 4 * j
  BY <1>1, Rounded
<1>6. first \in Int /\ first % 4 = 0 /\ j + 4 \in 0 .. words - 1
  BY <1>2, <1>4
<1>7. first + 4 * (j + 4) = Looks!round(a, 4)
  BY <1>4, <1>5
<1> HIDE DEF first
<1>8. /\ Looks!Range(Looks!from(first, words)) \subseteq Looks!Word
      /\ Len(Looks!from(first, words)) = words
  BY <1>2, <1>6, FromWords
<1>9. place(first, j + 4) \in Looks!Range(Looks!from(first, words))
  BY <1>2, <1>6, FromWords
<1>10. place(first, j + 4) = Looks!round(a, 4) % SPACE
  BY <1>7 DEF place
<1>11. Len(Looks!from(first, words)) >= 4
  BY <1>2, <1>8
<1> QED BY <1>3, <1>4, <1>8, <1>9, <1>10, <1>11, ShownMemoryInv

\* A listing begins at its address or two words before the program counter.
LEMMA ListProgramMemoryInv ==
  ASSUME Looks!AddressSpace, MemoryInv,
         NEW a \in Requests \union {none}, NEW len \in Requests \union {none},
         Looks!doListProgram(a, len)
  PROVE  MemoryInv'
<1> DEFINE pos == IF a = none THEN m_pc - 8 ELSE Looks!round(a, 4)
           words == Looks!at_least(IF len = none THEN 12 ELSE len, 4)
           about == IF a = none THEN m_pc ELSE pos
           j == IF a = none THEN 2 ELSE 0
<1>1. /\ m_adr = none /\ UNCHANGED <<m_pc, m_memory, Looks!w, m_ended>>
      /\ m_shown'.words = Looks!from(pos, words) /\ m_asked'.adr = about
  BY DEF Looks!doListProgram
<1>2. words \in Nat /\ words >= 4
  BY DEF Looks!AddressSpace, Looks!at_least
<1>3. m_pc \in Int /\ m_pc % 4 = 0
  BY DEF MemoryInv, Seen, Looks!Word, Looks!AddressSpace
<1>4. pos \in Int /\ pos % 4 = 0 /\ about \in Int /\ about = pos + 4 * j
  <2>1. CASE a = none
    BY <1>3, <2>1
  <2>2. CASE a # none
    <3>1. a \in Int
      BY <2>2 DEF Looks!AddressSpace
    <3>2. Looks!round(a, 4) \in Int /\ Looks!round(a, 4) % 4 = 0
      BY <3>1, Rounded
    <3> QED BY <2>2, <3>2
  <2> QED BY <2>1, <2>2
<1>5. j \in 0 .. words - 1
  BY <1>2
<1> HIDE DEF pos, words, about, j
<1>6. /\ Looks!Range(Looks!from(pos, words)) \subseteq Looks!Word
      /\ Len(Looks!from(pos, words)) = words
  BY <1>2, <1>4, FromWords
<1>7. place(pos, j) \in Looks!Range(Looks!from(pos, words))
  BY <1>2, <1>4, <1>5, FromWords
<1>8. place(pos, j) = about % SPACE
  BY <1>4 DEF place
<1>9. Len(Looks!from(pos, words)) >= 4
  BY <1>2, <1>6
<1> QED BY <1>1, <1>4, <1>6, <1>7, <1>8, <1>9, ShownMemoryInv

-----------------------------------------------------------------------------
(* The steps together.                                                     *)

LEMMA OtherMemoryInv ==
  ASSUME Looks!AddressSpace, MemoryInv,
         Looks!type_other \/ Looks!type_nothing \/ Looks!no_input \/ UNCHANGED Looks!vars
  PROVE  MemoryInv'
<1>1. /\ m_pc' = m_pc /\ m_memory' = m_memory /\ m_shown' = m_shown /\ m_asked' = m_asked
      /\ m_typed' = m_typed /\ m_ended' = m_ended
      /\ m_adr' = none \/ (m_adr' = m_adr /\ (m_buffer' = m_buffer \/ m_buffer' = none))
  BY DEF Looks!type_other, Looks!type_nothing, Looks!no_input, Looks!vars, Looks!w
<1>2. Writing'
  <2>1. CASE m_adr' = none
    BY <1>1, <2>1 DEF MemoryInv, Writing
  <2>2. CASE m_adr' = m_adr /\ (m_buffer' = m_buffer \/ m_buffer' = none)
    <3>1. ASSUME NEW c \in Nat, Written(c) PROVE Written(c)'
      BY <1>1, <2>2, <3>1 DEF Written, place, Looks!Last
    <3>2. m_asked'.adr = m_asked.adr
      BY <1>1
    <3>3. m_buffer' # none => m_buffer' = m_buffer
      BY <2>2
    <3> QED BY <1>1, <2>2, <3>1, <3>2, <3>3 DEF MemoryInv, Writing, Looks!Last
  <2> QED BY <1>1, <2>1, <2>2
<1>3. Seen'
  BY <1>1 DEF MemoryInv, Seen, Looks!AddressShown
<1>4. Remembered'
  BY <1>1 DEF MemoryInv, Remembered
<1> QED BY <1>2, <1>3, <1>4 DEF MemoryInv

LEMMA NextMemoryInv == Looks!AddressSpace /\ MemoryInv /\ [Looks!Next]_Looks!vars => MemoryInv'
<1> SUFFICES ASSUME Looks!AddressSpace, MemoryInv, [Looks!Next]_Looks!vars PROVE MemoryInv'
  OBVIOUS
<1>1. ASSUME NEW a \in Requests, NEW len \in Requests \union {none}, Looks!doShowMemory(a, len)
      PROVE  MemoryInv'
  BY <1>1, ShowMemoryMemoryInv
<1>2. ASSUME NEW a \in Requests \union {none}, NEW len \in Requests \union {none},
             Looks!doListProgram(a, len)
      PROVE  MemoryInv'
  BY <1>2, ListProgramMemoryInv
<1>3. ASSUME NEW a \in Requests, Looks!doWriteMemory(a) PROVE MemoryInv'
  BY <1>3, BeginMemoryInv
<1>4. ASSUME NEW v \in Value, Looks!type_number(v) PROVE MemoryInv'
  <2>1. /\ m_adr # none /\ Looks!write(v)
        /\ v \in Value /\ m_typed' = Append(m_typed, v) /\ m_buffer' = v
        /\ ~m_ended /\ m_ended' = m_ended
    BY <1>4 DEF Looks!type_number
  <2> QED BY <2>1, WriteMemoryInv
<1>5. CASE Looks!end_of_input
  <2>1. /\ m_adr # none /\ Looks!write(m_buffer)
        /\ UNCHANGED <<m_typed, m_buffer>> /\ m_buffer # none /\ m_ended' = TRUE
    BY <1>5 DEF Looks!end_of_input
  <2> QED BY <2>1, WriteMemoryInv
<1>6. CASE Looks!type_other \/ Looks!type_nothing \/ Looks!no_input \/ UNCHANGED Looks!vars
  BY <1>6, OtherMemoryInv
<1> QED BY <1>1, <1>2, <1>3, <1>4, <1>5, <1>6 DEF Looks!Next

\* m, M and s show whole words, the one they were asked about among them, at
\* either end of the address space; w has written what was typed, in order, and
\* nothing else.
THEOREM ShownAndWrittenCorrect ==
  ASSUME Looks!AddressSpace PROVE SessionSpec => []ShownAndWritten
<1>1. Looks!AddressSpace
  OBVIOUS
<1>2. SessionInit => MemoryInv
  BY <1>1, InitMemoryInv DEF SessionInit
<1>3. MemoryInv /\ [SessionNext]_<<vars, loading, looking, showing, reading>> => MemoryInv'
  BY <1>1, StepOfEach, NextMemoryInv
<1>4. MemoryInv => ShownAndWritten
  BY <1>1, InvariantImplies DEF ShownAndWritten
<1> QED BY <1>2, <1>3, <1>4, PTL DEF SessionSpec

\* The state of these commands keeps its types: whatever address they are given,
\* they show words, and w stands at one.
THEOREM InspectTypeCorrect ==
  ASSUME Looks!AddressSpace PROVE SessionSpec => []Looks!TypeOK
<1>1. Looks!AddressSpace
  OBVIOUS
<1>2. SessionInit => MemoryInv
  BY <1>1, InitMemoryInv DEF SessionInit
<1>3. MemoryInv /\ [SessionNext]_<<vars, loading, looking, showing, reading>> => MemoryInv'
  BY <1>1, StepOfEach, NextMemoryInv
<1>4. MemoryInv => Looks!TypeOK
  BY <1>1, InvariantImplies
<1> QED BY <1>2, <1>3, <1>4, PTL DEF SessionSpec

-----------------------------------------------------------------------------
(* Registers.                                                              *)

\* What r has stored is what it last read, the saved status apart: the one
\* register that may not be readable.
StoredIsLast == \A x \in Shows!Shown \ {"SPSR"} : r_values[x] = r_last[x]

\* Between two instructions the first buffer is the state of the processor.
BufferIsState == r_at = "N" => r_work1 = [x \in Normal |-> r_regs[x]]

RegistersInv == StoredIsLast /\ BufferIsState /\ Shows!RegistersShown

USE DEF Shows!RegistersShown, Shows!ShownIsCurrent, Shows!ChangesPrinted

LEMMA InitRegisters == Shows!Init => RegistersInv
BY DEF Shows!Init, RegistersInv, StoredIsLast, BufferIsState

LEMMA ReadIsState ==
  ASSUME NEW x \in Shows!visited \ {"SPSR"}
  PROVE  Shows!readable(x) /\ Shows!tmp(x) = r_regs[x] /\ x \in Shows!Shown
<1>1. Shows!visited \subseteq Shows!Shown
  BY DEF Shows!visited, Shows!Shown
<1> QED BY <1>1 DEF Shows!readable, Shows!tmp

LEMMA ShowRegisters == RegistersInv /\ Shows!doShowRegisters => RegistersInv'
<1> SUFFICES ASSUME RegistersInv, Shows!doShowRegisters PROVE RegistersInv'
  OBVIOUS
<1>1. /\ r_values' = [x \in Shows!Shown |->
                        IF x \in Shows!visited THEN Shows!tmp(x) ELSE r_values[x]]
      /\ r_changed' = [x \in Shows!Shown |->
                        IF x \in Shows!visited THEN Shows!tmp(x) # r_values[x] ELSE r_changed[x]]
      /\ r_valid' = [x \in Shows!Shown |->
                        IF x \in Shows!visited THEN Shows!readable(x) ELSE r_valid[x]]
      /\ r_before' = r_last
      /\ r_last' = [x \in Shows!Shown |-> IF x \in Shows!visited THEN r_regs[x] ELSE r_last[x]]
      /\ r_output' = [by |-> "r", lines |-> Shows!visited]
      /\ r_at' = "prompt" /\ r_regs' = r_regs
  BY DEF Shows!doShowRegisters
<1>2. StoredIsLast'
  <2> SUFFICES ASSUME NEW x \in Shows!Shown \ {"SPSR"} PROVE r_values'[x] = r_last'[x]
    BY DEF StoredIsLast
  <2>1. r_values[x] = r_last[x]
    BY DEF RegistersInv, StoredIsLast
  <2>2. x \in Shows!visited => Shows!tmp(x) = r_regs[x]
    BY ReadIsState
  <2> QED BY <1>1, <2>1, <2>2
<1>3. BufferIsState'
  BY <1>1 DEF BufferIsState
<1>4. Shows!ShownIsCurrent'
  <2>1. ASSUME NEW x \in Shows!visited, x # "SPSR"
        PROVE  r_valid'[x] /\ r_values'[x] = r_regs[x] /\ r_changed'[x] = (r_regs[x] # r_last[x])
    <3>1. Shows!readable(x) /\ Shows!tmp(x) = r_regs[x] /\ x \in Shows!Shown
      BY <2>1, ReadIsState
    <3>2. r_values[x] = r_last[x]
      BY <2>1, <3>1 DEF RegistersInv, StoredIsLast
    <3>3. r_valid'[x] = Shows!readable(x) /\ r_values'[x] = Shows!tmp(x)
      BY <1>1, <2>1, <3>1
    <3>4. r_changed'[x] = (Shows!tmp(x) # r_values[x])
      BY <1>1, <2>1, <3>1
    <3> QED BY <3>1, <3>2, <3>3, <3>4
  <2>2. r_output'.lines = Shows!visited
    BY <1>1
  <2>3. \A x \in r_output'.lines :
          x = "SPSR" \/ ( /\ r_valid'[x] /\ r_values'[x] = r_regs'[x]
                          /\ r_changed'[x] = (r_regs'[x] # r_before'[x]))
    <3> SUFFICES ASSUME NEW x \in r_output'.lines, x # "SPSR"
                 PROVE  /\ r_valid'[x] /\ r_values'[x] = r_regs'[x]
                        /\ r_changed'[x] = (r_regs'[x] # r_before'[x])
      BY Zenon
    <3>1. x \in Shows!visited
      BY <2>2
    <3>2. r_valid'[x] /\ r_values'[x] = r_regs[x] /\ r_changed'[x] = (r_regs[x] # r_last[x])
      BY <2>1, <3>1
    <3>3. r_regs' = r_regs /\ r_before' = r_last
      BY <1>1
    <3> QED BY <3>2, <3>3
  <2> QED BY <2>3, Zenon DEF Shows!ShownIsCurrent
<1>5. Shows!ChangesPrinted'
  BY <1>1
<1> QED BY <1>2, <1>3, <1>4, <1>5 DEF RegistersInv

LEMMA CommandN == RegistersInv /\ Shows!command_N => RegistersInv'
<1> SUFFICES ASSUME RegistersInv, Shows!command_N PROVE RegistersInv'
  OBVIOUS
<1>1. /\ r_work1' = [x \in Normal |-> r_regs[x]] /\ r_regs' = r_regs /\ r_before' = r_regs
      /\ r_output' = [by |-> "N", lines |-> {}]
      /\ r_values' = r_values /\ r_last' = r_last
  BY DEF Shows!command_N, Shows!work_registers_get_state, Shows!r_only
<1> QED BY <1>1 DEF RegistersInv, StoredIsLast, BufferIsState

LEMMA NextInstruction ==
  ASSUME RegistersInv, NEW rs, Shows!doNextInstruction(rs)
  PROVE  RegistersInv'
<1>1. /\ r_regs' = rs /\ r_before' = r_regs
      /\ r_work1' = [x \in Normal |-> rs[x]] /\ r_work2' = [x \in Normal |-> r_regs[x]]
      /\ r_output' = [by |-> "N", lines |-> {x \in Normal : r_work1'[x] # r_work2'[x]}]
      /\ r_values' = r_values /\ r_last' = r_last
  BY DEF Shows!doNextInstruction, Shows!work_registers_get_state,
         Shows!work_registers_print_changed, Shows!r_only,
         RegistersInv, BufferIsState
<1>2. StoredIsLast' /\ BufferIsState'
  BY <1>1 DEF RegistersInv, StoredIsLast, BufferIsState
<1>3. Shows!ShownIsCurrent' /\ Shows!ChangesPrinted'
  BY <1>1
<1> QED BY <1>2, <1>3 DEF RegistersInv

LEMMA OtherRegisters ==
  ASSUME RegistersInv, Shows!N_ends \/ \E rs \in Shows!Results : Shows!program_runs(rs)
  PROVE  RegistersInv'
<1>1. /\ r_at' = "prompt" /\ r_output' = [by |-> "none", lines |-> {}]
      /\ r_values' = r_values /\ r_last' = r_last
  BY DEF Shows!N_ends, Shows!program_runs, Shows!r_only
<1> QED BY <1>1 DEF RegistersInv, StoredIsLast, BufferIsState

\* r shows the registers as they are and marks exactly those it showed otherwise
\* the time before; N prints exactly those the last instruction changed.
THEOREM RegistersShownCorrect == SessionSpec => []RegistersShown
<1>1. RegistersInv /\ [Shows!Next]_Shows!vars => RegistersInv'
  <2> SUFFICES ASSUME RegistersInv, [Shows!Next]_Shows!vars PROVE RegistersInv'
    OBVIOUS
  <2>1. CASE Shows!doShowRegisters
    BY <2>1, ShowRegisters
  <2>2. CASE Shows!command_N
    BY <2>2, CommandN
  <2>3. ASSUME NEW rs \in Shows!Results, Shows!doNextInstruction(rs) PROVE RegistersInv'
    BY <2>3, NextInstruction
  <2>4. CASE Shows!N_ends \/ \E rs \in Shows!Results : Shows!program_runs(rs)
    BY <2>4, OtherRegisters
  <2>5. CASE UNCHANGED Shows!vars
    BY <2>5 DEF RegistersInv, StoredIsLast, BufferIsState, Shows!vars
  <2> QED BY <2>1, <2>2, <2>3, <2>4, <2>5 DEF Shows!Next
<1>2. SessionInit => RegistersInv
  BY InitRegisters DEF SessionInit
<1>3. RegistersInv /\ [SessionNext]_<<vars, loading, looking, showing, reading>> => RegistersInv'
  BY <1>1, StepOfEach
<1>4. RegistersInv => RegistersShown
  BY DEF RegistersInv, RegistersShown
<1> QED BY <1>2, <1>3, <1>4, PTL DEF SessionSpec

-----------------------------------------------------------------------------
(* Files.                                                                  *)

\* A word of a file lies at its place.
LEMMA WordOf ==
  ASSUME NEW size \in Nat, NEW k \in 0 .. size - 1
  PROVE  k \div 4 \in 0 .. size \div 4 /\ 4 * (k \div 4) <= k /\ k <= 4 * (k \div 4) + 3
OBVIOUS

\* What writing the words of a file makes of memory.
LEMMA WordsLoaded ==
  ASSUME Loads!FilesOfBytes, DOMAIN f_memory = 0 .. MEM - 1,
         NEW f \in DOMAIN File, NEW adr \in Place \union {0}, Loads!load_words(f, adr)
  PROVE  /\ DOMAIN f_memory' = 0 .. MEM - 1
         /\ \A k \in 0 .. File[f].size - 1 :
              adr + 4 * (k \div 4) + 3 < MEM => f_memory'[adr + k] = <<f, k>>
         /\ \A a \in DOMAIN f_memory \ (adr .. adr + File[f].size + 3) : f_memory'[a] = f_memory[a]
<1> DEFINE size == File[f].size
           fits == {k \in 0 .. Loads!words(f) - 1 : adr + 4 * k + 3 < MEM}
           covered(a) == \E k \in fits : a \in adr + 4*k .. adr + 4*k + 3
<1>1. size \in Nat /\ adr \in Nat /\ MEM \in Nat
  <2>1. /\ \A g \in DOMAIN File : File[g].size \in Nat
        /\ Place \subseteq Nat /\ MEM \in Nat
    BY DEF Loads!FilesOfBytes
  <2>2. size \in Nat
    BY <2>1
  <2> HIDE DEF size
  <2>3. adr \in Place \/ adr = 0
    OBVIOUS
  <2>4. adr \in Nat
    BY <2>1, <2>3
  <2> QED BY <2>1, <2>2, <2>4
<1>2. f_memory' = [a \in DOMAIN f_memory |->
                     IF covered(a) THEN Loads!byte(f, a - adr) ELSE f_memory[a]]
  BY DEF Loads!load_words
<1>3. fits = {k \in 0 .. size \div 4 : adr + 4 * k + 3 < MEM}
  BY <1>1 DEF Loads!words
<1>4. \A k \in 0 .. size - 1 : Loads!byte(f, k) = <<f, k>>
  BY <1>1 DEF Loads!byte
<1> HIDE DEF size, fits, covered
<1>5. ASSUME NEW k \in 0 .. size - 1, adr + 4 * (k \div 4) + 3 < MEM
      PROVE  f_memory'[adr + k] = <<f, k>>
  <2>1. k \div 4 \in 0 .. size \div 4 /\ 4 * (k \div 4) <= k /\ k <= 4 * (k \div 4) + 3
    BY <1>1, WordOf
  <2>2. k \div 4 \in fits
    BY <1>3, <1>5, <2>1
  <2>3. adr + k \in adr + 4*(k \div 4) .. adr + 4*(k \div 4) + 3
    BY <1>1, <2>1
  <2>4. covered(adr + k)
    BY <2>2, <2>3 DEF covered
  <2>5. adr + k \in DOMAIN f_memory
    BY <1>1, <1>5, <2>1
  <2>6. (adr + k) - adr = k
    BY <1>1
  <2> QED BY <1>2, <1>4, <2>4, <2>5, <2>6
<1>6. ASSUME NEW a \in DOMAIN f_memory, a \notin adr .. adr + size + 3
      PROVE  f_memory'[a] = f_memory[a]
  <2>1. ~ covered(a)
    <3> SUFFICES ASSUME NEW k \in fits, a \in adr + 4*k .. adr + 4*k + 3 PROVE FALSE
      BY DEF covered
    <3>1. k \in 0 .. size \div 4
      BY <1>3
    <3>2. 4 * k <= size
      BY <1>1, <3>1
    <3> QED BY <1>1, <1>6, <3>1, <3>2
  <2> QED BY <1>2, <2>1
<1> QED BY <1>2, <1>5, <1>6 DEF size

\* doLoadBinary leaves memory alone or writes the words of a raw file.
LEMMA LoadBinary ==
  ASSUME NEW f \in DOMAIN File, NEW adr, NEW taken, Loads!doLoadBinary(f, adr, taken)
  PROVE  f_memory' = f_memory \/ (File[f].type = "bin" /\ Loads!load_words(f, adr))
BY DEF Loads!doLoadBinary

\* Between steps, memory is all of memory and main has files to load.
LoaderInv == DOMAIN f_memory = 0 .. MEM - 1 /\ f_left \in Seq(DOMAIN File)

LEMMA LoaderStep ==
  ASSUME Loads!FilesOfBytes, LoaderInv, [Loads!Next]_Loads!vars
  PROVE  /\ \/ f_memory' = f_memory
            \/ \E f \in DOMAIN File, adr \in Place \union {0} :
                 File[f].type = "bin" /\ Loads!load_words(f, adr)
         /\ f_left' \in Seq(DOMAIN File)
<1>1. CASE Loads!main_load
  <2>1. f_left # <<>> /\ f_left' = Tail(f_left)
    BY <1>1 DEF Loads!main_load
  <2>2. Head(f_left) \in DOMAIN File /\ f_left' \in Seq(DOMAIN File)
    BY <2>1 DEF LoaderInv
  <2>3. PICK adr \in Place \union {0}, taken \in Loads!answers(Head(f_left)) :
          Loads!doLoadBinary(Head(f_left), adr, taken)
    BY <1>1 DEF Loads!main_load
  <2> QED BY <2>2, <2>3, LoadBinary
<1>2. CASE Loads!command_L
  <2>1. PICK f \in DOMAIN File, adr \in Place \union {0} :
          \E taken \in Loads!answers(f) : Loads!doLoadBinary(f, adr, taken)
    BY <1>2 DEF Loads!command_L
  <2>2. f_left' = f_left
    BY <1>2 DEF Loads!command_L
  <2> QED BY <2>1, <2>2, LoadBinary DEF LoaderInv
<1>3. CASE Loads!main_starts \/ Loads!command_l \/ Loads!finished \/ UNCHANGED Loads!vars
  BY <1>3 DEF Loads!main_starts, Loads!command_l, Loads!finished, Loads!vars, LoaderInv
<1> QED BY <1>1, <1>2, <1>3 DEF Loads!Next

LEMMA LoadedInv ==
  Loads!FilesOfBytes /\ LoaderInv /\ [Loads!Next]_Loads!vars => LoaderInv' /\ Loads!LoadedWhole
<1> SUFFICES ASSUME Loads!FilesOfBytes, LoaderInv, [Loads!Next]_Loads!vars
             PROVE  LoaderInv' /\ Loads!LoadedWhole
  OBVIOUS
<1>1. f_left' \in Seq(DOMAIN File)
  BY LoaderStep
<1>2. CASE f_memory' = f_memory
  BY <1>1, <1>2 DEF LoaderInv, Loads!LoadedWhole
<1>3. CASE f_memory' # f_memory
  <2>1. PICK f \in DOMAIN File, adr \in Place \union {0} :
          File[f].type = "bin" /\ Loads!load_words(f, adr)
    BY <1>3, LoaderStep
  <2>2. /\ DOMAIN f_memory' = 0 .. MEM - 1
        /\ \A k \in 0 .. File[f].size - 1 :
             adr + 4 * (k \div 4) + 3 < MEM => f_memory'[adr + k] = <<f, k>>
        /\ \A a \in DOMAIN f_memory \ (adr .. adr + File[f].size + 3) : f_memory'[a] = f_memory[a]
    BY <2>1, WordsLoaded DEF LoaderInv
  <2>3. f \in {g \in DOMAIN File : File[g].type = "bin"}
    BY <2>1
  <2>4. Loads!LoadedWhole
    BY <2>2, <2>3, Zenon DEF Loads!LoadedWhole
  <2> QED BY <1>1, <2>2, <2>4 DEF LoaderInv
<1> QED BY <1>2, <1>3

LEMMA InitLoader == Loads!FilesOfBytes /\ SessionInit => LoaderInv
BY DEF SessionInit, Loads!FilesOfBytes, Loads!Init, LoaderInv

\* A load that changes memory has put all of one file there, in order, as far as
\* memory goes, and has left alone what its words do not take.
THEOREM WholeFileCorrect ==
  ASSUME Loads!FilesOfBytes PROVE SessionSpec => WholeFile
<1>1. LoaderInv /\ [SessionNext]_<<vars, loading, looking, showing, reading>>
        => LoaderInv' /\ [Loads!LoadedWhole]_Loads!vars
  BY LoadedInv, StepOfEach
<1> QED BY <1>1, InitLoader, PTL DEF SessionSpec, WholeFile, Loads!WholeFile


-----------------------------------------------------------------------------
(* Symbols.                                                                *)

\* The symbols of the first k of a section that are read.
WantedTo(s, k) == {x \in {s[j] : j \in 1 .. k} : Loads!wanted(x)}

\* The first symbols of a chain are just these.
Starts(chain, W) == \E m \in 0 .. Len(chain) : {chain[j] : j \in 1 .. m} = W

Pushed(x, chain) == <<x>> \o chain

LEMMA StartsNone == ASSUME NEW U, NEW chain \in Seq(U) PROVE Starts(chain, {})
<1>1. {chain[j] : j \in 1 .. 0} = {} /\ 0 \in 0 .. Len(chain)
  OBVIOUS
<1> QED BY <1>1 DEF Starts

LEMMA StartsPush ==
  ASSUME NEW U, NEW chain \in Seq(U), NEW x \in U, NEW W, Starts(chain, W)
  PROVE  Pushed(x, chain) \in Seq(U) /\ Starts(Pushed(x, chain), W \union {x})
<1> DEFINE c == Pushed(x, chain)
<1>1. /\ c \in Seq(U) /\ Len(c) = Len(chain) + 1 /\ c[1] = x
      /\ \A j \in 1 .. Len(chain) : c[j + 1] = chain[j]
  BY DEF Pushed
<1>2. PICK m \in 0 .. Len(chain) : {chain[j] : j \in 1 .. m} = W
  BY DEF Starts
<1> HIDE DEF c
<1>3. m + 1 \in 0 .. Len(c) /\ m \in Nat /\ Len(chain) \in Nat
  BY <1>1
<1>4. {c[j] : j \in 1 .. m + 1} = W \union {x}
  <2>1. ASSUME NEW j \in 1 .. m + 1 PROVE c[j] \in W \union {x}
    <3>1. CASE j = 1
      BY <1>1, <3>1
    <3>2. CASE j # 1
      <4>1. j - 1 \in 1 .. m /\ j - 1 \in 1 .. Len(chain) /\ (j - 1) + 1 = j
        BY <1>3, <3>2
      <4> QED BY <1>1, <1>2, <4>1, ZenonT(40)
    <3> QED BY <3>1, <3>2
  <2>2. ASSUME NEW y \in W PROVE \E j \in 1 .. m + 1 : c[j] = y
    <3>1. PICK h \in 1 .. m : chain[h] = y
      BY <1>2
    <3>2. h + 1 \in 1 .. m + 1 /\ h \in 1 .. Len(chain)
      BY <1>3
    <3> QED BY <1>1, <3>1, <3>2
  <2>3. 1 \in 1 .. m + 1
    BY <1>3
  <2> QED BY <1>1, <2>1, <2>2, <2>3
<1> QED BY <1>1, <1>3, <1>4 DEF Starts, c

\* The chain after a section: its symbols are the first.
LEMMA SectionRead ==
  ASSUME NEW U, NEW chain \in Seq(U), NEW section, NEW V, section.symbols \in Seq(V),
         WantedTo(section.symbols, Len(section.symbols)) \subseteq U,
         NEW W, Starts(chain, W)
  PROVE  /\ Loads!do_read_symbol_table(chain, section) \in Seq(U)
         /\ Starts(Loads!do_read_symbol_table(chain, section),
                   W \union WantedTo(section.symbols, Len(section.symbols)))
<1> DEFINE s == section.symbols
           n == Len(s)
           Is(g) == g = [k \in 0 .. n |-> IF k = 0 THEN chain
                                          ELSE IF Loads!wanted(s[k]) THEN <<s[k]>> \o g[k-1]
                                          ELSE g[k-1]]
           pushed == CHOOSE g : Is(g)
           h == [k \in 1 .. n |->
                   [c \in Seq(U) |-> IF Loads!wanted(s[k]) THEN Pushed(s[k], c) ELSE c]]
<1>1. Loads!do_read_symbol_table(chain, section) = pushed[n]
  BY DEF Loads!do_read_symbol_table
<1>2. n \in Nat /\ \A k \in 1 .. n : Loads!wanted(s[k]) => s[k] \in U
  <2>1. n \in Nat
    OBVIOUS
  <2>2. \A k \in 1 .. n : Loads!wanted(s[k]) => s[k] \in WantedTo(s, n)
    BY DEF WantedTo
  <2> QED BY <2>1, <2>2
<1> HIDE DEF s, n, pushed
<1>3. \A c \in Seq(U), k \in 1 .. n : Loads!wanted(s[k]) => Pushed(s[k], c) \in Seq(U)
  <2> TAKE c \in Seq(U), k \in 1 .. n
  <2> HAVE Loads!wanted(s[k])
  <2>1. s[k] \in U
    BY <1>2
  <2> QED BY <2>1, StartsNone, StartsPush
<1>4. \A k \in 1 .. n : \A c \in Seq(U) :
        /\ h[k][c] = (IF Loads!wanted(s[k]) THEN Pushed(s[k], c) ELSE c)
        /\ h[k][c] \in Seq(U)
  BY <1>3
<1>5. PICK f : Iterates(f, h, chain, n)
  BY <1>2, IteratesExist
<1> HIDE DEF h
<1>6. \A k \in 0 .. n : f[k] \in Seq(U)
  BY <1>2, <1>4, <1>5, IteratesIn
<1>7. Is(f)
  <2>1. \A k \in 0 .. n : f[k] = (IF k = 0 THEN chain
                                  ELSE IF Loads!wanted(s[k]) THEN <<s[k]>> \o f[k-1]
                                  ELSE f[k-1])
    <3> TAKE k \in 0 .. n
    <3>1. CASE k = 0
      BY <1>2, <1>5, <3>1, IteratesAt
    <3>2. CASE k # 0
      <4>1. k \in 1 .. n /\ k - 1 \in 0 .. n
        BY <1>2, <3>2
      <4>2. f[k] = h[k][f[k-1]] /\ f[k-1] \in Seq(U)
        BY <1>2, <1>5, <1>6, <4>1, IteratesAt
      <4>3. f[k] = (IF Loads!wanted(s[k]) THEN Pushed(s[k], f[k-1]) ELSE f[k-1])
        BY <1>4, <4>1, <4>2
      <4> QED BY <3>2, <4>3 DEF Pushed
    <3> QED BY <3>1, <3>2
  <2>2. f = [k \in 0 .. n |-> f[k]]
    BY <1>5 DEF Iterates
  <2> QED BY <2>1, <2>2
<1>8. Is(pushed)
  <2> HIDE DEF Is
  <2> QED BY <1>7 DEF pushed
<1>9. \A k \in 0 .. n : pushed[k] = (IF k = 0 THEN chain
                                     ELSE IF Loads!wanted(s[k]) THEN Pushed(s[k], pushed[k-1])
                                     ELSE pushed[k-1])
  BY <1>8 DEF Pushed
<1> HIDE DEF Is
<1> DEFINE Good(k) == pushed[k] \in Seq(U) /\ Starts(pushed[k], W \union WantedTo(s, k))
           Bad == {k \in 0 .. n : ~ Good(k)}
<1>10. Bad = {}
  <2> SUFFICES ASSUME Bad # {} PROVE FALSE
    OBVIOUS
  <2>1. PICK k \in Bad : \A j \in Bad : k <= j
    <3>1. Bad \subseteq Nat
      OBVIOUS
    <3> HIDE DEF Bad
    <3> QED BY <3>1, Least
  <2>2. CASE k = 0
    <3>1. WantedTo(s, 0) = {}
      BY DEF WantedTo
    <3>2. pushed[0] = chain
      BY <1>2, <1>9
    <3>3. Good(0)
      BY <3>1, <3>2
    <3> QED BY <2>2, <3>3
  <2>3. CASE k # 0
    <3>1. k \in 1 .. n /\ k - 1 \in 0 .. n /\ Good(k - 1)
      <4> HIDE DEF Good
      <4>1. k \in 1 .. n /\ k - 1 \in 0 .. n /\ ~ (k <= k - 1)
        BY <1>2, <2>3
      <4> QED BY <2>1, <4>1
    <3>2. WantedTo(s, k) = WantedTo(s, k - 1) \union (IF Loads!wanted(s[k]) THEN {s[k]} ELSE {})
      <4>1. 1 .. k = (1 .. k - 1) \union {k}
        BY <1>2, <3>1
      <4>2. {s[j] : j \in 1 .. k} = {s[j] : j \in 1 .. k - 1} \union {s[k]}
        BY <4>1
      <4> QED BY <4>2 DEF WantedTo
    <3>3. CASE Loads!wanted(s[k])
      <4>1. pushed[k] = Pushed(s[k], pushed[k-1]) /\ s[k] \in U
        BY <1>2, <1>9, <3>1, <3>3
      <4>2. /\ Pushed(s[k], pushed[k-1]) \in Seq(U)
            /\ Starts(Pushed(s[k], pushed[k-1]), (W \union WantedTo(s, k - 1)) \union {s[k]})
        BY <3>1, <4>1, StartsPush
      <4>3. (W \union WantedTo(s, k - 1)) \union {s[k]} = W \union WantedTo(s, k)
        BY <3>2, <3>3
      <4> QED BY <4>1, <4>2, <4>3
    <3>4. CASE ~ Loads!wanted(s[k])
      <4>1. pushed[k] = pushed[k-1]
        BY <1>9, <3>1, <3>4
      <4>2. WantedTo(s, k) = WantedTo(s, k - 1)
        BY <3>2, <3>4
      <4>3. Good(k)
        BY <3>1, <4>1, <4>2
      <4> QED BY <4>3
    <3> QED BY <3>3, <3>4
  <2> QED BY <2>2, <2>3
<1>11. Good(n)
  <2>1. n \in 0 .. n
    BY <1>2
  <2> HIDE DEF Good
  <2> QED BY <1>10, <2>1
<1> QED BY <1>1, <1>11 DEF s, n

\* What f's symbol tables have, up to section k,
WantedIn(f, k) ==
  UNION {WantedTo(File[f].sections[j].symbols, Len(File[f].sections[j].symbols)) :
           j \in {h \in 1 .. k : File[f].sections[h].type = 2}}

\* and the table of strings that is there then, if it is one of f's.
Strings(f, k, table) ==
  \A j \in 1 .. k :
    File[f].sections[j].type = 3 /\ (\A h \in j + 1 .. k : File[f].sections[h].type # 3)
      => table = File[f].sections[j].strings

\* All symbols of all files.
Symbols == UNION {WantedIn(f, Len(File[f].sections)) : f \in {g \in DOMAIN File : File[g].is_elf}}

LEMMA SectionsRead ==
  ASSUME Loads!SymbolTables, NEW f \in DOMAIN File, File[f].is_elf, f_symbols \in Seq(Symbols)
  PROVE  /\ Loads!sections(f).chain \in Seq(Symbols)
         /\ Starts(Loads!sections(f).chain, WantedIn(f, Len(File[f].sections)))
         /\ Strings(f, Len(File[f].sections), Loads!sections(f).table)
         /\ \/ \A j \in DOMAIN File[f].sections : File[f].sections[j].type # 3
            \/ Loads!sections(f).table # none
         /\ f_strings # none => Loads!sections(f).table # none
<1> DEFINE s == File[f].sections
           n == Len(s)
           turn(r, x) == IF x.type = 2
                         THEN [r EXCEPT !.chain = Loads!do_read_symbol_table(@, x)]
                         ELSE IF x.type = 3
                         THEN [r EXCEPT !.table = Loads!do_read_string_table(@, x)]
                         ELSE r
           b == [chain |-> f_symbols, table |-> f_strings]
           Is(g) == g = [k \in 0 .. n |-> IF k = 0 THEN b ELSE turn(g[k-1], s[k])]
           turns == CHOOSE g : Is(g)
           Tables == {f_strings} \union {s[k].strings : k \in 1 .. n}
           R == [chain : Seq(Symbols), table : Tables]
           h == [k \in 1 .. n |-> [r \in R |-> turn(r, s[k])]]
<1>1. Loads!sections(f) = turns[n]
  BY DEF Loads!sections
<1>2. /\ n \in Nat /\ DOMAIN s = 1 .. n
      /\ \A k \in 1 .. n : s[k].type = 3 => s[k].strings # none
      /\ \A k \in 1 .. n : s[k].type = 2 => s[k].symbols \in Seq(Loads!Range(s[k].symbols))
  <2>1. s \in Seq(Loads!Range(s))
    BY DEF Loads!SymbolTables
  <2>2. \A k \in DOMAIN s : s[k].type = 3 => s[k].strings # none
    BY DEF Loads!SymbolTables
  <2>3. \A t \in {u \in Loads!Range(s) : u.type = 2} : t.symbols \in Seq(Loads!Range(t.symbols))
    BY DEF Loads!SymbolTables
  <2> HIDE DEF s
  <2>4. n \in Nat /\ DOMAIN s = 1 .. n
    BY <2>1
  <2>5. \A k \in 1 .. n : s[k] \in Loads!Range(s)
    BY <2>4 DEF Loads!Range
  <2> QED BY <2>2, <2>3, <2>4, <2>5
<1>3. ASSUME NEW k \in 1 .. n, s[k].type = 2
      PROVE  /\ WantedTo(s[k].symbols, Len(s[k].symbols)) \subseteq Symbols
             /\ \A c \in Seq(Symbols) : \A W : Starts(c, W) =>
                  /\ Loads!do_read_symbol_table(c, s[k]) \in Seq(Symbols)
                  /\ Starts(Loads!do_read_symbol_table(c, s[k]),
                            W \union WantedTo(s[k].symbols, Len(s[k].symbols)))
  <2>1. WantedTo(s[k].symbols, Len(s[k].symbols)) \subseteq WantedIn(f, n)
    BY <1>3 DEF WantedIn
  <2>2. WantedIn(f, n) \subseteq Symbols
    BY DEF Symbols
  <2>3. WantedTo(s[k].symbols, Len(s[k].symbols)) \subseteq Symbols
    BY <2>1, <2>2
  <2> QED BY <1>2, <1>3, <2>3, SectionRead
<1>4. \A r \in R, k \in 1 .. n : turn(r, s[k]) \in R
  <2> TAKE r \in R, k \in 1 .. n
  <2>1. CASE s[k].type = 2
    <3>1. Loads!do_read_symbol_table(r.chain, s[k]) \in Seq(Symbols)
      BY <1>3, <2>1, StartsNone
    <3> QED BY <2>1, <3>1
  <2>2. CASE s[k].type = 3
    BY <2>2 DEF Loads!do_read_string_table
  <2> QED BY <2>1, <2>2
<1>5. b \in R
  OBVIOUS
<1> HIDE DEF s, n, turns, b, R
<1>6. \A k \in 1 .. n : \A r \in R : h[k][r] = turn(r, s[k]) /\ h[k][r] \in R
  <2> HIDE DEF turn
  <2> QED BY <1>4
<1>7. PICK g : Iterates(g, h, b, n)
  BY <1>2, IteratesExist
<1> HIDE DEF h, turn
<1>8. \A k \in 0 .. n : g[k] \in R
  BY <1>2, <1>5, <1>6, <1>7, IteratesIn
<1>9. Is(g)
  <2>1. \A k \in 0 .. n : g[k] = (IF k = 0 THEN b ELSE turn(g[k-1], s[k]))
    <3> TAKE k \in 0 .. n
    <3>1. CASE k = 0
      BY <1>2, <1>7, <3>1, IteratesAt
    <3>2. CASE k # 0
      <4>1. k \in 1 .. n /\ k - 1 \in 0 .. n
        BY <1>2, <3>2
      <4>2. g[k] = h[k][g[k-1]] /\ g[k-1] \in R
        BY <1>2, <1>7, <1>8, <4>1, IteratesAt
      <4> QED BY <1>6, <3>2, <4>1, <4>2
    <3> QED BY <3>1, <3>2
  <2>2. g = [k \in 0 .. n |-> g[k]]
    BY <1>7 DEF Iterates
  <2> QED BY <2>1, <2>2
<1>10. Is(turns)
  <2> HIDE DEF Is
  <2> QED BY <1>9 DEF turns
<1>11. \A k \in 0 .. n : turns[k] = (IF k = 0 THEN b ELSE turn(turns[k-1], s[k]))
  BY <1>10
<1> HIDE DEF Is
<1> DEFINE T(k) == /\ \A j \in 1 .. k : s[j].type = 3
                          /\ (\A x \in j + 1 .. k : s[x].type # 3)
                             => turns[k].table = s[j].strings
                   /\ (\A j \in 1 .. k : s[j].type # 3) \/ turns[k].table # none
                   /\ f_strings # none => turns[k].table # none
           C(k) == Starts(turns[k].chain, WantedIn(f, k))
           Good(k) == turns[k] \in R /\ T(k) /\ C(k)
           Bad == {k \in 0 .. n : ~ Good(k)}
<1>12. Good(0)
  <2>1. turns[0] = b
    BY <1>2, <1>11
  <2>2. WantedIn(f, 0) = {}
    BY DEF WantedIn
  <2>3. Starts(f_symbols, {})
    BY StartsNone
  <2>4. b.chain = f_symbols /\ b.table = f_strings
    BY DEF b
  <2>5. C(0)
    BY <2>1, <2>2, <2>3, <2>4
  <2>6. T(0)
    BY <2>1, <2>4
  <2>7. turns[0] \in R
    BY <1>5, <2>1
  <2> HIDE DEF C, T
  <2> QED BY <2>5, <2>6, <2>7
<1>13. ASSUME NEW k \in 1 .. n, Good(k - 1) PROVE Good(k)
  <2>1. turns[k] = turn(turns[k-1], s[k]) /\ turns[k-1] \in R
    BY <1>2, <1>11, <1>13
  <2>2. turns[k] \in R
    BY <1>4, <2>1
  <2>3. WantedIn(f, k) = WantedIn(f, k - 1)
          \union (IF s[k].type = 2 THEN WantedTo(s[k].symbols, Len(s[k].symbols)) ELSE {})
    <3>1. {x \in 1 .. k : s[x].type = 2}
            = {x \in 1 .. k - 1 : s[x].type = 2} \union (IF s[k].type = 2 THEN {k} ELSE {})
      BY <1>2
    <3> QED BY <3>1 DEF WantedIn, s
  <2>4. CASE s[k].type = 2
    <3>1. /\ turns[k].chain = Loads!do_read_symbol_table(turns[k-1].chain, s[k])
          /\ turns[k].table = turns[k-1].table /\ turns[k-1].chain \in Seq(Symbols)
      BY <2>1, <2>4 DEF turn, R
    <3>2. C(k)
      BY <1>3, <1>13, <2>3, <2>4, <3>1
    <3>3. T(k)
      <4> HIDE DEF C
      <4> QED BY <1>2, <1>13, <2>4, <3>1
    <3> QED BY <2>2, <3>2, <3>3
  <2>5. CASE s[k].type = 3
    <3>1. /\ turns[k].chain = turns[k-1].chain /\ turns[k].table = s[k].strings
      BY <2>1, <2>5 DEF turn, R, Loads!do_read_string_table
    <3>2. C(k)
      BY <1>13, <2>3, <2>5, <3>1
    <3>3. T(k)
      <4>1. s[k].strings # none
        BY <1>2, <2>5
      <4> HIDE DEF C
      <4> QED BY <1>2, <2>5, <3>1, <4>1
    <3> QED BY <2>2, <3>2, <3>3
  <2>6. CASE s[k].type # 2 /\ s[k].type # 3
    <3>1. turns[k] = turns[k-1]
      BY <2>1, <2>6 DEF turn
    <3>2. C(k)
      BY <1>13, <2>3, <2>6, <3>1
    <3>3. T(k)
      <4> HIDE DEF C
      <4> QED BY <1>2, <1>13, <2>6, <3>1
    <3> QED BY <2>2, <3>2, <3>3
  <2> QED BY <2>4, <2>5, <2>6
<1>14. Bad = {}
  <2> HIDE DEF Good
  <2> SUFFICES ASSUME Bad # {} PROVE FALSE
    OBVIOUS
  <2>1. PICK k \in Bad : \A j \in Bad : k <= j
    <3>1. Bad \subseteq Nat
      OBVIOUS
    <3> HIDE DEF Bad
    <3> QED BY <3>1, Least
  <2>2. CASE k = 0
    BY <1>12, <2>2
  <2>3. CASE k # 0
    <3>1. k \in 1 .. n /\ k - 1 \in 0 .. n /\ ~ (k <= k - 1)
      BY <1>2, <2>3
    <3>2. Good(k - 1)
      BY <2>1, <3>1
    <3> QED BY <1>13, <3>1, <3>2
  <2> QED BY <2>2, <2>3
<1>15. Good(n)
  <2>1. n \in 0 .. n
    BY <1>2
  <2> HIDE DEF Good
  <2> QED BY <1>14, <2>1
<1>16. turns[n].chain \in Seq(Symbols)
  BY <1>15 DEF R
<1>17. Strings(f, n, turns[n].table)
  BY <1>15 DEF Strings, s
<1> QED BY <1>1, <1>2, <1>15, <1>16, <1>17 DEF s, n

-----------------------------------------------------------------------------
(* The files whose symbols were read.                                      *)

ElfFiles == {f \in DOMAIN File : File[f].is_elf}

\* The symbols of the file read last come first, and its names are in the table.
SymbolsInv ==
  /\ f_symbols \in Seq(Symbols) /\ f_read \in Seq(ElfFiles)
  /\ f_at \in {"main", "prompt", "exit"}
  /\ f_at # "exit" /\ f_read # <<>> => f_strings # none
  /\ f_read # <<>> =>
       /\ Starts(f_symbols, WantedIn(f_read[1], Len(File[f_read[1]].sections)))
       /\ \A t \in {u \in Loads!Range(File[f_read[1]].sections) : u.type = 2} :
            f_strings = File[f_read[1]].sections[t.link].strings

\* The last table of a file is that of its symbols.
LEMMA LastTable ==
  ASSUME Loads!SymbolTables, NEW f \in ElfFiles, NEW table,
         Strings(f, Len(File[f].sections), table)
  PROVE  \A t \in {u \in Loads!Range(File[f].sections) : u.type = 2} :
           table = File[f].sections[t.link].strings
<1> DEFINE s == File[f].sections
           n == Len(s)
<1> SUFFICES ASSUME NEW t \in {u \in Loads!Range(s) : u.type = 2}
             PROVE  table = s[t.link].strings
  OBVIOUS
<1>1. /\ s \in Seq(Loads!Range(s)) /\ t.link \in DOMAIN s /\ s[t.link].type = 3
      /\ \A k \in DOMAIN s : s[k].type = 3 => k <= t.link
  BY DEF Loads!SymbolTables, ElfFiles
<1>2. \A j \in 1 .. n : s[j].type = 3 /\ (\A h \in j + 1 .. n : s[h].type # 3)
                         => table = s[j].strings
  BY DEF Strings
<1> HIDE DEF s
<1>3. DOMAIN s = 1 .. n /\ n \in Nat
  BY <1>1
<1> HIDE DEF n
<1>4. \A h \in t.link + 1 .. n : s[h].type # 3
  <2> TAKE h \in t.link + 1 .. n
  <2>1. h \in DOMAIN s /\ ~ (h <= t.link)
    BY <1>1, <1>3
  <2> QED BY <1>1, <2>1
<1> QED BY <1>1, <1>2, <1>3, <1>4

\* What doLoadSymbols does to the chain, the table and the files read.
LEMMA LoadSymbols ==
  ASSUME Loads!SymbolTables, SymbolsInv, NEW f \in DOMAIN File, Loads!doLoadSymbols(f)
  PROVE  /\ f_symbols' \in Seq(Symbols) /\ f_read' \in Seq(ElfFiles)
         /\ f_strings # none => f_strings' # none
         /\ f_read' # <<>> =>
              /\ Starts(f_symbols', WantedIn(f_read'[1], Len(File[f_read'[1]].sections)))
              /\ \A t \in {u \in Loads!Range(File[f_read'[1]].sections) : u.type = 2} :
                   f_strings' = File[f_read'[1]].sections[t.link].strings
<1>1. CASE ~ (File[f].readable /\ File[f].is_elf)
  BY <1>1 DEF Loads!doLoadSymbols, SymbolsInv
<1>2. CASE File[f].readable /\ File[f].is_elf
  <2>1. /\ f_symbols' = Loads!sections(f).chain /\ f_strings' = Loads!sections(f).table
        /\ f_read' = <<f>> \o f_read
    BY <1>2 DEF Loads!doLoadSymbols
  <2>2. f \in ElfFiles
    BY <1>2 DEF ElfFiles
  <2>3. f_read' \in Seq(ElfFiles) /\ f_read'[1] = f
    BY <2>1, <2>2 DEF SymbolsInv
  <2>4. f_symbols \in Seq(Symbols)
    BY DEF SymbolsInv
  <2>5. /\ f_symbols' \in Seq(Symbols)
        /\ Starts(f_symbols', WantedIn(f, Len(File[f].sections)))
        /\ Strings(f, Len(File[f].sections), f_strings')
        /\ f_strings # none => f_strings' # none
    BY <1>2, <2>1, <2>4, SectionsRead
  <2> QED BY <2>2, <2>3, <2>5, LastTable
<1> QED BY <1>1, <1>2

\* Every step leaves the chain, the table and the files read as they are, or is
\* doLoadSymbols; main ends if there is still no table.
LEMMA SymbolsStep ==
  ASSUME Loads!FilesOfBytes, Loads!SymbolTables, LoaderInv, SymbolsInv, [Loads!Next]_Loads!vars
  PROVE  SymbolsInv'
<1>1. ASSUME UNCHANGED <<f_symbols, f_strings, f_read>>,
             f_at' \in {"main", "prompt", "exit"}, f_at = "exit" => f_at' = "exit"
      PROVE  SymbolsInv'
  BY <1>1 DEF SymbolsInv
<1>2. ASSUME NEW f \in DOMAIN File, Loads!doLoadSymbols(f), f_at # "exit",
             f_at' \in {"main", "prompt", "exit"},
             f_at' = "exit" \/ f_strings' # none \/ f_read' = f_read
      PROVE  SymbolsInv'
  <2>1. f_read' = f_read => (f_at' # "exit" /\ f_read # <<>> => f_strings' # none)
    BY <1>2, LoadSymbols DEF SymbolsInv
  <2> QED BY <1>2, <2>1, LoadSymbols DEF SymbolsInv
<1>3. ASSUME NEW f \in DOMAIN File, NEW adr, NEW taken \in Loads!answers(f),
             Loads!doLoadBinary(f, adr, taken)
      PROVE  \/ UNCHANGED <<f_symbols, f_strings, f_read>>
             \/ Loads!doLoadSymbols(f) /\ File[f].type = "elf" /\ taken
  BY <1>3 DEF Loads!doLoadBinary
<1>4. CASE Loads!main_load
  <2>1. f_left # <<>> /\ f_at = "main"
    BY <1>4 DEF Loads!main_load
  <2> DEFINE f == Head(f_left)
  <2>2. f \in DOMAIN File
    BY <2>1 DEF LoaderInv
  <2> HIDE DEF f
  <2>3. PICK adr \in Place \union {0}, taken \in Loads!answers(f) :
          /\ Loads!doLoadBinary(f, adr, taken)
          /\ IF Loads!loaded(f, adr, taken)
             THEN Loads!go_on(File[f].type = "elf", "main") ELSE f_at' = "exit"
    BY <1>4 DEF Loads!main_load, f
  <2>4. f_at' \in {"main", "exit"}
    BY <2>3 DEF Loads!go_on
  <2>5. CASE UNCHANGED <<f_symbols, f_strings, f_read>>
    BY <1>1, <2>1, <2>4, <2>5
  <2>6. CASE Loads!doLoadSymbols(f) /\ File[f].type = "elf" /\ taken
    <3>1. f_at' = "exit" \/ f_strings' # none
      BY <2>3, <2>6 DEF Loads!go_on
    <3> QED BY <1>2, <2>1, <2>2, <2>4, <2>6, <3>1
  <2> QED BY <1>3, <2>2, <2>3, <2>5, <2>6
<1>5. CASE Loads!command_L
  <2>1. PICK f \in DOMAIN File, adr \in Place \union {0} : \E taken \in Loads!answers(f) :
          /\ Loads!doLoadBinary(f, adr, taken)
          /\ Loads!go_on(File[f].type = "elf" /\ taken, "prompt")
    BY <1>5 DEF Loads!command_L
  <2>2. PICK taken \in Loads!answers(f) :
          /\ Loads!doLoadBinary(f, adr, taken)
          /\ Loads!go_on(File[f].type = "elf" /\ taken, "prompt")
    BY <2>1
  <2>3. f_at = "prompt" /\ f_at' \in {"prompt", "exit"}
    BY <1>5, <2>2 DEF Loads!command_L, Loads!go_on
  <2>4. CASE UNCHANGED <<f_symbols, f_strings, f_read>>
    BY <1>1, <2>3, <2>4
  <2>5. CASE Loads!doLoadSymbols(f) /\ File[f].type = "elf" /\ taken
    <3>1. f_at' = "exit" \/ f_strings' # none
      BY <2>2, <2>5 DEF Loads!go_on
    <3> QED BY <1>2, <2>3, <2>5, <3>1
  <2> QED BY <1>3, <2>2, <2>4, <2>5
<1>6. CASE Loads!command_l
  <2>1. PICK f \in DOMAIN File : Loads!doLoadSymbols(f) /\ Loads!go_on(File[f].readable, "prompt")
    BY <1>6 DEF Loads!command_l
  <2>2. f_at = "prompt" /\ f_at' \in {"prompt", "exit"}
    BY <1>6, <2>1 DEF Loads!command_l, Loads!go_on
  <2>3. f_at' = "exit" \/ f_strings' # none \/ f_read' = f_read
    BY <2>1 DEF Loads!go_on, Loads!doLoadSymbols
  <2> QED BY <1>2, <2>1, <2>2, <2>3
<1>7. CASE Loads!main_starts \/ Loads!finished \/ UNCHANGED Loads!vars
  <2>1. /\ UNCHANGED <<f_symbols, f_strings, f_read>>
        /\ f_at' \in {"main", "prompt", "exit"} /\ (f_at = "exit" => f_at' = "exit")
    BY <1>7 DEF Loads!main_starts, Loads!finished, Loads!vars, SymbolsInv
  <2> QED BY <1>1, <2>1
<1> QED BY <1>4, <1>5, <1>6, <1>7 DEF Loads!Next

\* A name of the file read last is found among its symbols first.
LEMMA FoundFirst ==
  ASSUME NEW chain, NEW W, Starts(chain, W), Len(chain) \in Nat,
         NEW I, I \subseteq 1 .. Len(chain),
         NEW s \in W, \A h \in 1 .. Len(chain) : chain[h] = s => h \in I
  PROVE  I # {} /\ Loads!Min(I) \in I /\ chain[Loads!Min(I)] \in W
<1>1. PICK m \in 0 .. Len(chain) : {chain[j] : j \in 1 .. m} = W
  BY DEF Starts
<1>2. PICK j \in 1 .. m : chain[j] = s
  BY <1>1
<1>3. j \in I /\ I \subseteq Nat
  BY <1>2
<1>4. PICK x \in I : \A y \in I : x <= y
  BY <1>3, Least
<1>5. Loads!Min(I) \in I /\ \A y \in I : Loads!Min(I) <= y
  BY <1>4 DEF Loads!Min
<1>6. Loads!Min(I) \in 1 .. m
  <2>1. Loads!Min(I) \in 1 .. Len(chain) /\ Loads!Min(I) <= j
    BY <1>3, <1>5
  <2> QED BY <1>1, <2>1
<1> QED BY <1>1, <1>3, <1>5, <1>6

\* The names of the file read last are its symbols' in the table.
LEMMA NamesAre ==
  ASSUME Loads!SymbolTables, SymbolsInv, f_read # <<>>,
         NEW W, W = WantedIn(f_read[1], Len(File[f_read[1]].sections))
  PROVE  /\ Loads!Names(f_read[1]) = {<<Loads!name(s), s.value>> : s \in W}
         /\ W # {} => f_strings # none
<1> DEFINE f == f_read[1]
           of_file == File[f].sections
           n == Len(of_file)
<1>1. f \in ElfFiles
  BY DEF SymbolsInv
<1>2. /\ of_file \in Seq(Loads!Range(of_file))
      /\ \A k \in DOMAIN of_file : of_file[k].type = 3 => of_file[k].strings # none
      /\ \A t \in {u \in Loads!Range(of_file) : u.type = 2} :
           /\ t.link \in DOMAIN of_file /\ of_file[t.link].type = 3
           /\ t.symbols \in Seq(Loads!Range(t.symbols))
           /\ \A s \in Loads!Range(t.symbols) :
                s.name \in Nat /\ (s.name # 0 => s.name \in DOMAIN of_file[t.link].strings)
  BY <1>1 DEF Loads!SymbolTables, ElfFiles
<1>3. \A t \in {u \in Loads!Range(of_file) : u.type = 2} : f_strings = of_file[t.link].strings
  BY DEF SymbolsInv
<1>4. W = WantedIn(f, n)
  OBVIOUS
<1>5. Loads!Names(f) =
        UNION {{<<of_file[t.link].strings[s.name], s.value>> :
                  s \in {x \in Loads!Range(t.symbols) : x.type \in 0 .. 2 /\ x.name # 0}} :
                 t \in {u \in Loads!Range(of_file) : u.type = 2}}
  BY DEF Loads!Names
<1>6. W = UNION {WantedTo(of_file[j].symbols, Len(of_file[j].symbols)) :
                   j \in {h \in 1 .. n : of_file[h].type = 2}}
  BY <1>4 DEF WantedIn
<1> HIDE DEF of_file, f
<1>7. DOMAIN of_file = 1 .. n
  BY <1>2
<1> HIDE DEF n
<1>8. ASSUME NEW t \in {u \in Loads!Range(of_file) : u.type = 2}
      PROVE  {x \in Loads!Range(t.symbols) : x.type \in 0 .. 2 /\ x.name # 0}
               = WantedTo(t.symbols, Len(t.symbols))
  <2>1. t.symbols \in Seq(Loads!Range(t.symbols))
    BY <1>2
  <2>2. DOMAIN t.symbols = 1 .. Len(t.symbols)
    BY <2>1
  <2>3. Loads!Range(t.symbols) = {t.symbols[j] : j \in 1 .. Len(t.symbols)}
    BY <2>2 DEF Loads!Range
  <2>4. \A x : x.type \in 0 .. 2 /\ x.name # 0 <=> Loads!wanted(x)
    <3>1. 0 .. 2 = {0, 1, 2}
      OBVIOUS
    <3> QED BY <3>1 DEF Loads!wanted
  <2> QED BY <2>3, <2>4 DEF WantedTo
<1>9. \A x : x \in W <=> \E t \in {u \in Loads!Range(of_file) : u.type = 2} :
                           x \in WantedTo(t.symbols, Len(t.symbols))
  <2> TAKE x
  <2>1. ASSUME x \in W
        PROVE  \E t \in {u \in Loads!Range(of_file) : u.type = 2} :
                 x \in WantedTo(t.symbols, Len(t.symbols))
    <3>1. PICK j \in {h \in 1 .. n : of_file[h].type = 2} :
            x \in WantedTo(of_file[j].symbols, Len(of_file[j].symbols))
      BY <1>6, <2>1
    <3>2. of_file[j] \in Loads!Range(of_file) /\ of_file[j].type = 2
      BY <1>7, <3>1 DEF Loads!Range
    <3> QED BY <3>1, <3>2
  <2>2. ASSUME NEW t \in {u \in Loads!Range(of_file) : u.type = 2},
               x \in WantedTo(t.symbols, Len(t.symbols))
        PROVE  x \in W
    <3>1. PICK j \in 1 .. n : of_file[j] = t
      BY <1>7 DEF Loads!Range
    <3> QED BY <1>6, <2>2, <3>1
  <2> QED BY <2>1, <2>2
<1>10. ASSUME NEW t \in {u \in Loads!Range(of_file) : u.type = 2},
              NEW s \in WantedTo(t.symbols, Len(t.symbols))
       PROVE  Loads!name(s) = of_file[t.link].strings[s.name] /\ f_strings # none
  <2>1. s \in Loads!Range(t.symbols) /\ s.name # 0
    BY <1>8
  <2>2. s.name \in DOMAIN f_strings
    BY <1>2, <1>3, <2>1
  <2>3. f_strings # none
    BY <1>2, <1>3
  <2> QED BY <1>3, <2>2, <2>3 DEF Loads!name
<1>11. Loads!Names(f) = {<<Loads!name(s), s.value>> : s \in W}
  <2>1. ASSUME NEW p \in Loads!Names(f) PROVE \E s \in W : p = <<Loads!name(s), s.value>>
    <3>1. PICK t \in {u \in Loads!Range(of_file) : u.type = 2} :
            p \in {<<of_file[t.link].strings[s.name], s.value>> :
                     s \in {x \in Loads!Range(t.symbols) : x.type \in 0 .. 2 /\ x.name # 0}}
      BY <1>5, <2>1
    <3>2. PICK s \in WantedTo(t.symbols, Len(t.symbols)) :
            p = <<of_file[t.link].strings[s.name], s.value>>
      BY <1>8, <3>1
    <3> QED BY <1>9, <1>10, <3>2
  <2>2. ASSUME NEW s \in W PROVE <<Loads!name(s), s.value>> \in Loads!Names(f)
    <3>1. PICK t \in {u \in Loads!Range(of_file) : u.type = 2} :
            s \in WantedTo(t.symbols, Len(t.symbols))
      BY <1>9
    <3>2. Loads!name(s) = of_file[t.link].strings[s.name]
      BY <1>10, <3>1
    <3>3. s \in {x \in Loads!Range(t.symbols) : x.type \in 0 .. 2 /\ x.name # 0}
      BY <1>8, <3>1
    <3> QED BY <1>5, <3>2, <3>3
  <2> QED BY <2>1, <2>2
<1>12. W # {} => f_strings # none
  BY <1>9, <1>10
<1> QED BY <1>11, <1>12 DEF f

LEMMA SymbolsInvIs ==
  ASSUME Loads!SymbolTables, SymbolsInv PROVE Loads!NewestFirst
<1> SUFFICES ASSUME f_read # <<>>
             PROVE  /\ \A n \in Loads!Names(f_read[1]) :
                         \/ n[1] \in Register
                         \/ <<n[1], Loads!getNumber(n[1])>> \in Loads!Names(f_read[1])
                    /\ \A n \in Loads!Names(f_read[1]) : ~ Loads!is_mapping(n[1]) =>
                         /\ ~ Loads!is_mapping(Loads!getSymbolFromAddress(n[2]))
                         /\ <<Loads!getSymbolFromAddress(n[2]), n[2]>> \in Loads!Names(f_read[1])
  BY DEF Loads!NewestFirst, Loads!NewestNames, Loads!NewestAddresses
<1> DEFINE W == WantedIn(f_read[1], Len(File[f_read[1]].sections))
<1>1. /\ Loads!Names(f_read[1]) = {<<Loads!name(s), s.value>> : s \in W}
      /\ W # {} => f_strings # none
  BY NamesAre
<1>2. Starts(f_symbols, W) /\ f_symbols \in Seq(Symbols) /\ Len(f_symbols) \in Nat
  BY DEF SymbolsInv
<1> HIDE DEF W
<1> SUFFICES ASSUME NEW s \in W
             PROVE  /\ \/ Loads!name(s) \in Register
                       \/ <<Loads!name(s), Loads!getNumber(Loads!name(s))>>
                            \in Loads!Names(f_read[1])
                    /\ ~ Loads!is_mapping(Loads!name(s)) =>
                         /\ ~ Loads!is_mapping(Loads!getSymbolFromAddress(s.value))
                         /\ <<Loads!getSymbolFromAddress(s.value), s.value>>
                              \in Loads!Names(f_read[1])
  BY <1>1
<1>3. f_strings # none
  BY <1>1
<1>4. ASSUME Loads!name(s) \notin Register
      PROVE  <<Loads!name(s), Loads!getNumber(Loads!name(s))>> \in Loads!Names(f_read[1])
  <2> DEFINE I == {h \in 1 .. Len(f_symbols) : Loads!name(f_symbols[h]) = Loads!name(s)}
             x == f_symbols[Loads!Min(I)]
  <2>1. I # {} /\ Loads!Min(I) \in I /\ x \in W
    <3>1. /\ I \subseteq 1 .. Len(f_symbols)
          /\ \A h \in 1 .. Len(f_symbols) : f_symbols[h] = s => h \in I
      OBVIOUS
    <3> HIDE DEF I
    <3> QED BY <1>2, <3>1, FoundFirst
  <2>2. Loads!symbol_named(Loads!name(s)) = Loads!Min(I)
    BY <2>1 DEF Loads!symbol_named, Loads!SelectInSeq
  <2>3. Loads!Min(I) # 0 /\ Loads!name(x) = Loads!name(s)
    BY <2>1
  <2> HIDE DEF I
  <2>4. Loads!getNumber(Loads!name(s)) = x.value
    BY <1>3, <1>4, <2>2, <2>3 DEF Loads!getNumber, Loads!getAddressFromSymbol
  <2> HIDE DEF x
  <2> QED BY <1>1, <2>1, <2>3, <2>4
<1>5. ASSUME ~ Loads!is_mapping(Loads!name(s))
      PROVE  /\ ~ Loads!is_mapping(Loads!getSymbolFromAddress(s.value))
             /\ <<Loads!getSymbolFromAddress(s.value), s.value>> \in Loads!Names(f_read[1])
  <2> DEFINE I == {h \in 1 .. Len(f_symbols) : f_symbols[h].value = s.value
                                                 /\ ~ Loads!is_mapping(Loads!name(f_symbols[h]))}
             x == f_symbols[Loads!Min(I)]
  <2>1. I # {} /\ Loads!Min(I) \in I /\ x \in W
    <3>1. /\ I \subseteq 1 .. Len(f_symbols)
          /\ \A h \in 1 .. Len(f_symbols) : f_symbols[h] = s => h \in I
      BY <1>5
    <3> HIDE DEF I
    <3> QED BY <1>2, <3>1, FoundFirst
  <2>2. Loads!Min(I) # 0 /\ x.value = s.value /\ ~ Loads!is_mapping(Loads!name(x))
    BY <2>1
  <2>3. Loads!getSymbolFromAddress(s.value) = Loads!name(x)
    BY <1>3, <2>1, <2>2 DEF Loads!getSymbolFromAddress, Loads!SelectInSeq
  <2> HIDE DEF x, I
  <2> QED BY <1>1, <2>1, <2>2, <2>3
<1> QED BY <1>4, <1>5

\* Whatever files were loaded, in whatever order, the file read last translates
\* its names to its addresses, unless they are names of registers, and its
\* addresses to its names (symbols.c).
THEOREM NewestFirstCorrect ==
  ASSUME Loads!FilesOfBytes, Loads!SymbolTables PROVE SessionSpec => []NewestFirst
<1>1. SessionInit => LoaderInv /\ SymbolsInv
  BY DEF SessionInit, Loads!FilesOfBytes, Loads!Init, LoaderInv, SymbolsInv
<1>2. LoaderInv /\ [SessionNext]_<<vars, loading, looking, showing, reading>> => LoaderInv'
  BY LoadedInv, StepOfEach
<1>3. LoaderInv /\ SymbolsInv /\ [SessionNext]_<<vars, loading, looking, showing, reading>>
       => SymbolsInv'
  BY SymbolsStep, StepOfEach
<1>4. SymbolsInv => NewestFirst
  BY SymbolsInvIs DEF NewestFirst
<1> QED BY <1>1, <1>2, <1>3, <1>4, PTL DEF SessionSpec

\* The type invariant of Loader.
LoaderTypes ==
  /\ LoaderInv /\ SymbolsInv
  /\ f_loads \in Nat /\ f_need \in BOOLEAN /\ f_start \in DOMAIN File \union {none}

LEMMA SymbolTypes ==
  ASSUME Loads!SymbolTables, NEW s \in Symbols
  PROVE  s.name \in Nat \ {0} /\ s.type \in 0 .. 2
<1>1. PICK f \in DOMAIN File : File[f].is_elf /\ s \in WantedIn(f, Len(File[f].sections))
  BY DEF Symbols
<1> DEFINE of_file == File[f].sections
<1>2. /\ of_file \in Seq(Loads!Range(of_file))
      /\ \A t \in {u \in Loads!Range(of_file) : u.type = 2} :
           /\ t.symbols \in Seq(Loads!Range(t.symbols))
           /\ \A x \in Loads!Range(t.symbols) : x.name \in Nat
  BY <1>1 DEF Loads!SymbolTables
<1>3. PICK j \in 1 .. Len(of_file) :
        /\ of_file[j].type = 2
        /\ s \in WantedTo(of_file[j].symbols, Len(of_file[j].symbols))
  BY <1>1 DEF WantedIn
<1> HIDE DEF of_file
<1> DEFINE t == of_file[j]
<1>4. t \in Loads!Range(of_file) /\ t.type = 2
  BY <1>2, <1>3 DEF Loads!Range
<1>5. s \in WantedTo(t.symbols, Len(t.symbols))
  BY <1>3
<1> HIDE DEF t
<1>6. t.symbols \in Seq(Loads!Range(t.symbols)) /\ \A x \in Loads!Range(t.symbols) : x.name \in Nat
  BY <1>2, <1>4
<1>7. Loads!wanted(s) /\ \E k \in 1 .. Len(t.symbols) : s = t.symbols[k]
  BY <1>5 DEF WantedTo
<1>8. s \in Loads!Range(t.symbols)
  BY <1>6, <1>7 DEF Loads!Range
<1> QED BY <1>6, <1>7, <1>8 DEF Loads!wanted

\* Whatever is loaded, and whatever fails to load, the loader's state has its
\* types: no symbol without a name is kept, and at the prompt there is a table if
\* any file was read (main, doLoadBinary, doLoadSymbols).
THEOREM LoaderTypeCorrect ==
  ASSUME Loads!FilesOfBytes, Loads!SymbolTables PROVE SessionSpec => []Loads!TypeOK
<1>1. SessionInit => LoaderTypes
  BY DEF SessionInit, Loads!FilesOfBytes, Loads!Init, LoaderTypes, LoaderInv, SymbolsInv
<1>2. ASSUME LoaderTypes, [Loads!Next]_Loads!vars PROVE LoaderTypes'
  <2>1. LoaderInv' /\ SymbolsInv'
    BY <1>2, LoadedInv, SymbolsStep DEF LoaderTypes
  <2>2. f_loads' \in Nat
    BY <1>2 DEF LoaderTypes, Loads!Next, Loads!vars, Loads!main_load, Loads!main_starts,
                Loads!command_L, Loads!command_l, Loads!finished
  <2>3. ASSUME NEW f \in DOMAIN File, NEW adr, NEW taken, Loads!doLoadBinary(f, adr, taken)
        PROVE  f_need' \in BOOLEAN /\ f_start' \in DOMAIN File \union {none}
    BY <1>2, <2>3 DEF LoaderTypes, Loads!doLoadBinary
  <2>4. f_need' \in BOOLEAN /\ f_start' \in DOMAIN File \union {none}
    <3>1. CASE Loads!main_load
      <4>1. f_left # <<>> /\ Head(f_left) \in DOMAIN File
        BY <1>2, <3>1 DEF Loads!main_load, LoaderTypes, LoaderInv
      <4> QED BY <2>3, <3>1, <4>1 DEF Loads!main_load
    <3>2. CASE Loads!command_L
      BY <2>3, <3>2 DEF Loads!command_L
    <3>3. CASE Loads!main_starts \/ Loads!command_l \/ Loads!finished \/ UNCHANGED Loads!vars
      BY <1>2, <3>3 DEF LoaderTypes, Loads!main_starts, Loads!command_l, Loads!finished, Loads!vars
    <3> QED BY <1>2, <3>1, <3>2, <3>3 DEF Loads!Next
  <2> QED BY <2>1, <2>2, <2>4 DEF LoaderTypes
<1>3. LoaderTypes /\ [SessionNext]_<<vars, loading, looking, showing, reading>> => LoaderTypes'
  BY <1>2, StepOfEach
<1>4. LoaderTypes => Loads!TypeOK
  <2> SUFFICES ASSUME LoaderTypes PROVE Loads!TypeOK
    OBVIOUS
  <2>1. \A k \in DOMAIN f_symbols : f_symbols[k] \in Symbols
    BY DEF LoaderTypes, SymbolsInv
  <2>2. \A k \in DOMAIN f_symbols : f_symbols[k].name \in Nat \ {0} /\ f_symbols[k].type \in 0 .. 2
    BY <2>1, SymbolTypes
  <2> QED BY <2>2 DEF LoaderTypes, LoaderInv, SymbolsInv, Loads!TypeOK
<1> QED BY <1>1, <1>3, <1>4, PTL DEF SessionSpec

\* The registers' buffers have their types, and nothing but registers is printed
\* (doShowRegisters, work_registers_print_changed).
THEOREM RegistersTypeCorrect == SessionSpec => []Shows!TypeOK
<1> USE DEF Shows!TypeOK
<1>1. SessionInit => Shows!TypeOK
  BY DEF SessionInit, Shows!Init
<1>2. ASSUME Shows!TypeOK, [Shows!Next]_Shows!vars PROVE Shows!TypeOK'
  <2>1. CASE Shows!doShowRegisters
    <3>1. Shows!visited \subseteq Shows!Shown /\ \A x : Shows!readable(x) \in BOOLEAN
      BY DEF Shows!visited, Shows!Shown, Shows!readable
    <3>2. \A x \in Shows!Shown : (Shows!tmp(x) # r_values[x]) \in BOOLEAN
      OBVIOUS
    <3> QED BY <1>2, <2>1, <3>1, <3>2 DEF Shows!doShowRegisters
  <2>2. CASE Shows!command_N
    BY <1>2, <2>2 DEF Shows!command_N, Shows!r_only
  <2>3. \A rs \in Shows!Results : DOMAIN rs = Shows!Shown
    BY DEF Shows!Results
  <2>4. ASSUME NEW rs \in Shows!Results, Shows!doNextInstruction(rs) PROVE Shows!TypeOK'
    <3>1. Shows!work_registers_print_changed \subseteq Shows!Shown
      BY DEF Shows!work_registers_print_changed, Shows!Shown
    <3>2. r_regs' = rs /\ r_output'.lines = Shows!work_registers_print_changed
          /\ UNCHANGED <<r_at, r_changed, r_valid>>
      BY <2>4 DEF Shows!doNextInstruction, Shows!r_only
    <3> QED BY <1>2, <2>3, <3>1, <3>2
  <2>5. CASE Shows!N_ends
    BY <1>2, <2>5 DEF Shows!N_ends, Shows!r_only
  <2>6. ASSUME NEW rs \in Shows!Results, Shows!program_runs(rs) PROVE Shows!TypeOK'
    BY <1>2, <2>3, <2>6 DEF Shows!program_runs, Shows!r_only
  <2>7. CASE UNCHANGED Shows!vars
    BY <1>2, <2>7 DEF Shows!vars
  <2> QED BY <1>2, <2>1, <2>2, <2>4, <2>5, <2>6, <2>7 DEF Shows!Next
<1>3. Shows!TypeOK /\ [SessionNext]_<<vars, loading, looking, showing, reading>> => Shows!TypeOK'
  BY <1>2, StepOfEach
<1> QED BY <1>1, <1>3, PTL DEF SessionSpec

-----------------------------------------------------------------------------
(* The command line: places in a line.                                     *)

nul == Reads!nul
Space == Reads!Spaces
Apart == nul \notin Char /\ Reads!newline \notin Char

\* The first place from k on that is behind a word.
IsEnd(l, k, e) ==
  /\ e \in k .. Len(l) + 1 /\ (\A j \in k .. e - 1 : l[j] \notin Space)
  /\ (e = Len(l) + 1 \/ l[e] \in Space)

\* The place of the first word from k on, or 0.
IsNext(l, k, q) ==
  \/ q = 0 /\ \A j \in k .. Len(l) : l[j] \in Space
  \/ q \in k .. Len(l) /\ l[q] \notin Space /\ \A j \in k .. q - 1 : l[j] \in Space

LEMMA SomeEnd == ASSUME NEW l \in Seq(Char), NEW k \in 1 .. Len(l) PROVE \E e : IsEnd(l, k, e)
<1> DEFINE S == {j \in k .. Len(l) + 1 : j = Len(l) + 1 \/ l[j] \in Space}
<1>1. Len(l) \in Nat
  OBVIOUS
<1>2. S \subseteq Nat /\ Len(l) + 1 \in S
  BY <1>1
<1>3. PICK e \in S : \A j \in S : e <= j
  <2> HIDE DEF S
  <2> QED BY <1>2, Least
<1>4. ASSUME NEW j \in k .. e - 1 PROVE l[j] \notin Space
  <2>1. j \in k .. Len(l) + 1 /\ ~ (e <= j)
    BY <1>1
  <2> QED BY <1>3, <2>1
<1> QED BY <1>3, <1>4 DEF IsEnd

LEMMA SomeNext == ASSUME NEW l \in Seq(Char), NEW k \in 1 .. Len(l) + 1 PROVE \E q : IsNext(l, k, q)
<1> DEFINE S == {j \in k .. Len(l) : l[j] \notin Space}
<1>1. Len(l) \in Nat
  OBVIOUS
<1>2. CASE S = {}
  BY <1>2 DEF IsNext
<1>3. CASE S # {}
  <2>1. S \subseteq Nat
    BY <1>1
  <2>2. PICK q \in S : \A j \in S : q <= j
    <3> HIDE DEF S
    <3> QED BY <1>3, <2>1, Least
  <2>3. ASSUME NEW j \in k .. q - 1 PROVE l[j] \in Space
    <3>1. j \in k .. Len(l) /\ ~ (q <= j)
      BY <1>1
    <3> QED BY <2>2, <3>1
  <2> QED BY <2>2, <2>3 DEF IsNext
<1> QED BY <1>2, <1>3

\* What the code skips to.
LEMMA SkipIs ==
  ASSUME NEW b, NEW p \in Nat, NEW S, Len(b) \in Nat, NEW q \in p .. Len(b), b[q] \notin S,
         \A k \in p .. q - 1 : b[k] \in S
  PROVE  Reads!skip(b, p, S) = q
<1>1. ASSUME NEW r \in p .. Len(b), b[r] \notin S, \A k \in p .. r - 1 : b[k] \in S PROVE r = q
  <2>1. ~ (r < q) /\ ~ (q < r)
    BY <1>1
  <2> QED BY <2>1
<1>2. \E r \in p .. Len(b) : b[r] \notin S /\ \A k \in p .. r - 1 : b[k] \in S
  OBVIOUS
<1> QED BY <1>1, <1>2 DEF Reads!skip

-----------------------------------------------------------------------------
(* The words of a line.                                                    *)

IsWord(l, p, w) == \E e : IsEnd(l, p, e) /\ w = SubSeq(l, p, e - 1)

LEMMA Cons ==
  ASSUME NEW U, NEW x \in U, NEW s \in Seq(U)
  PROVE  LET c == <<x>> \o s
         IN /\ c \in Seq(U) /\ Len(c) = Len(s) + 1 /\ Len(s) \in Nat /\ c[1] = x
            /\ \A k \in 1 .. Len(s) : c[k+1] = s[k]
OBVIOUS

LEMMA WordIs ==
  ASSUME NEW l \in Seq(Char), NEW p \in 1 .. Len(l), l[p] \notin Space, NEW w, IsWord(l, p, w)
  PROVE  w \in Seq(Reads!NoSpaces) /\ w # <<>>
<1>1. PICK e : IsEnd(l, p, e) /\ w = SubSeq(l, p, e - 1)
  BY DEF IsWord
<1>2. e \in p .. Len(l) + 1 /\ Len(l) \in Nat /\ e # p
  BY <1>1 DEF IsEnd
<1>3. Len(w) = e - p /\ Len(w) # 0 /\ \A k \in 1 .. e - p : w[k] = l[p + k - 1]
  BY <1>1, <1>2
<1>4. ASSUME NEW k \in 1 .. e - p PROVE w[k] \in Reads!NoSpaces
  <2>1. p + k - 1 \in p .. e - 1 /\ p + k - 1 \in 1 .. Len(l)
    BY <1>2
  <2>2. l[p + k - 1] \in Char /\ l[p + k - 1] \notin Space
    BY <1>1, <2>1 DEF IsEnd
  <2> QED BY <1>3, <2>2 DEF Reads!NoSpaces, Space
<1>5. w \in Seq(Char)
  <2>1. \A k \in p .. e - 1 : l[k] \in Char
    BY <1>2
  <2> QED BY <1>1, <1>2, <2>1
<1>6. w \in [1 .. Len(w) -> Reads!NoSpaces]
  BY <1>3, <1>4, <1>5
<1>7. w \in Seq(Reads!NoSpaces)
  BY <1>2, <1>3, <1>6
<1> QED BY <1>3, <1>7

LEMMA EndsIs ==
  ASSUME NEW l \in Seq(Char), NEW p \in 1 .. Len(l), l[p] \notin Space, NEW e, IsEnd(l, p, e)
  PROVE  Reads!ends(l, p) = e - 1
<1> DEFINE P(q) == (\A n \in p .. q : l[n] \notin Space) /\ (q = Len(l) \/ l[q+1] \in Space)
<1>1. e \in p .. Len(l) + 1 /\ Len(l) \in Nat /\ e # p
  BY DEF IsEnd
<1>2. e - 1 \in p .. Len(l) /\ P(e - 1) /\ (e - 1) + 1 = e
  BY <1>1 DEF IsEnd
<1>3. ASSUME NEW q \in p .. Len(l), P(q) PROVE q = e - 1
  <2>1. ~ (q < e - 1)
    <3> SUFFICES ASSUME q < e - 1 PROVE FALSE
      OBVIOUS
    <3>1. q + 1 \in p .. e - 1 /\ q # Len(l)
      BY <1>1
    <3> QED BY <1>3, <3>1 DEF IsEnd
  <2>2. ~ (e - 1 < q)
    <3> SUFFICES ASSUME e - 1 < q PROVE FALSE
      OBVIOUS
    <3>1. e \in p .. q /\ e # Len(l) + 1
      BY <1>1
    <3> QED BY <1>3, <3>1 DEF IsEnd
  <2> QED BY <1>1, <2>1, <2>2
<1>4. Reads!ends(l, p) = CHOOSE q \in p .. Len(l) : P(q)
  BY DEF Reads!ends, Space
<1> HIDE DEF P
<1> QED BY <1>2, <1>3, <1>4

\* What Words is made of: the words from each place on.
IsFrom(f, l) ==
  /\ f[Len(l) + 1] = <<>>
  /\ \A k \in 1 .. Len(l) :
       f[k] = IF Reads!begins(l, k) THEN <<SubSeq(l, k, Reads!ends(l, k))>> \o f[k+1] ELSE f[k+1]

LEMMA WordsFrom == ASSUME NEW l \in Seq(Char) PROVE \E f : IsFrom(f, l) /\ Reads!Words(l) = f[1]
<1> DEFINE n == Len(l)
           step(k, x) == IF Reads!begins(l, k) THEN <<SubSeq(l, k, Reads!ends(l, k))>> \o x ELSE x
           Is(f) == f = [k \in 1 .. n + 1 |-> IF k = n + 1 THEN <<>> ELSE step(k, f[k+1])]
           from == CHOOSE f : Is(f)
<1>1. n \in Nat
  OBVIOUS
<1>2. Reads!Words(l) = from[1] /\ n = Len(l)
  BY DEF Reads!Words
<1>3. \E f : Is(f)
  <2> HIDE DEF n
  <2> DEFINE Bad == {m \in 0 .. n : ~ \E f : f = [k \in n + 1 - m .. n + 1 |->
                                              IF k = n + 1 THEN <<>> ELSE step(k, f[k+1])]}
  <2> HIDE DEF step
  <2>1. Bad = {}
    <3> SUFFICES ASSUME Bad # {} PROVE FALSE
      OBVIOUS
    <3>1. PICK m \in Bad : \A j \in Bad : m <= j
      <4>1. Bad \subseteq Nat
        OBVIOUS
      <4> HIDE DEF Bad
      <4> QED BY <4>1, Least
    <3>2. m # 0
      <4> DEFINE f == [k \in n + 1 .. n + 1 |-> <<>>]
      <4>1. f = [k \in n + 1 - 0 .. n + 1 |-> IF k = n + 1 THEN <<>> ELSE step(k, f[k+1])]
        BY <1>1
      <4> HIDE DEF f
      <4> QED BY <4>1
    <3>3. m \in 0 .. n
      OBVIOUS
    <3>4. m - 1 \in 0 .. n /\ ~ (m <= m - 1) /\ n + 1 - (m - 1) = n + 2 - m
      BY <1>1, <3>2, <3>3
    <3>5. m - 1 \notin Bad
      <4> HIDE DEF Bad
      <4> QED BY <3>1, <3>4
    <3>6. PICK g : g = [k \in n + 2 - m .. n + 1 |-> IF k = n + 1 THEN <<>> ELSE step(k, g[k+1])]
      BY <3>5, <3>4
    <3> DEFINE f == [k \in n + 1 - m .. n + 1 |->
                      IF k = n + 1 - m THEN step(k, g[k+1]) ELSE g[k]]
    <3>7. \A k \in n + 1 - m .. n + 1 : f[k] = IF k = n + 1 THEN <<>> ELSE step(k, f[k+1])
      <4> TAKE k \in n + 1 - m .. n + 1
      <4>1. CASE k = n + 1 - m
        <5>1. k + 1 \in n + 1 - m .. n + 1 /\ k + 1 # n + 1 - m /\ k # n + 1
          BY <1>1, <3>2, <3>3, <4>1
        <5>2. f[k] = step(k, g[k+1]) /\ f[k+1] = g[k+1]
          BY <4>1, <5>1
        <5> QED BY <5>1, <5>2
      <4>2. CASE k # n + 1 - m
        <5>1. k \in n + 2 - m .. n + 1
          BY <1>1, <3>3, <4>2
        <5>2. f[k] = g[k] /\ g[k] = (IF k = n + 1 THEN <<>> ELSE step(k, g[k+1]))
          BY <3>6, <4>2, <5>1
        <5>3. k # n + 1 => k + 1 \in n + 1 - m .. n + 1 /\ k + 1 # n + 1 - m
          BY <1>1, <3>3, <4>2
        <5>4. k # n + 1 => f[k+1] = g[k+1]
          BY <5>3
        <5> QED BY <5>2, <5>4
      <4> QED BY <4>1, <4>2
    <3>8. f = [k \in n + 1 - m .. n + 1 |-> f[k]]
      OBVIOUS
    <3> HIDE DEF f
    <3>9. f = [k \in n + 1 - m .. n + 1 |-> IF k = n + 1 THEN <<>> ELSE step(k, f[k+1])]
      BY <3>7, <3>8
    <3> QED BY <3>1, <3>9
  <2>2. n \in 0 .. n /\ n + 1 - n = 1
    BY <1>1
  <2>3. \E f : f = [k \in n + 1 - n .. n + 1 |-> IF k = n + 1 THEN <<>> ELSE step(k, f[k+1])]
    BY <2>1, <2>2
  <2> QED BY <2>2, <2>3
<1>4. Is(from)
  <2> HIDE DEF Is
  <2> QED BY <1>3
<1>5. \A k \in 1 .. n + 1 : from[k] = IF k = n + 1 THEN <<>> ELSE step(k, from[k+1])
  <2> HIDE DEF from, step
  <2> QED BY <1>4
<1>6. IsFrom(from, l)
  <2> HIDE DEF from
  <2>1. from[n+1] = <<>>
    <3>1. n + 1 \in 1 .. n + 1
      BY <1>1
    <3> HIDE DEF step
    <3> QED BY <1>5, <3>1
  <2>2. ASSUME NEW k \in 1 .. n PROVE from[k] = step(k, from[k+1])
    <3>1. k \in 1 .. n + 1 /\ k # n + 1
      BY <1>1
    <3> QED BY <1>5, <3>1
  <2> QED BY <2>1, <2>2 DEF IsFrom
<1> QED BY <1>2, <1>6

\* Where no word begins, the words are those from further on.
LEMMA FromSame ==
  ASSUME NEW l \in Seq(Char), NEW f, IsFrom(f, l),
         NEW a \in 1 .. Len(l) + 1, NEW z \in a .. Len(l) + 1,
         \A k \in a .. z - 1 : ~ Reads!begins(l, k)
  PROVE  f[a] = f[z]
<1> DEFINE Bad == {m \in 0 .. z - a : f[z - m] # f[z]}
<1>1. Len(l) \in Nat
  OBVIOUS
<1>2. Bad = {}
  <2> SUFFICES ASSUME Bad # {} PROVE FALSE
    OBVIOUS
  <2>1. PICK m \in Bad : \A j \in Bad : m <= j
    <3>1. Bad \subseteq Nat
      OBVIOUS
    <3> HIDE DEF Bad
    <3> QED BY <3>1, Least
  <2>2. m # 0 /\ m \in 0 .. z - a
    BY <1>1
  <2>3. m - 1 \in 0 .. z - a /\ m - 1 \notin Bad /\ z - (m - 1) = (z - m) + 1
    BY <1>1, <2>1, <2>2
  <2>4. z - m \in a .. z - 1 /\ z - m \in 1 .. Len(l)
    BY <1>1, <2>2
  <2>5. f[z - m] = f[(z - m) + 1]
    BY <2>4 DEF IsFrom
  <2> QED BY <2>1, <2>3, <2>5
<1>3. z - a \in 0 .. z - a /\ z - (z - a) = a
  BY <1>1
<1>4. z - a \notin Bad
  BY <1>2
<1> QED BY <1>3, <1>4

\* The words from a place on, for a place that may be none.
From(f, q) == IF q = 0 THEN <<>> ELSE f[q]

\* No word begins in spaces, so the words are those from the next one on.
LEMMA FromNext ==
  ASSUME NEW l \in Seq(Char), NEW f, IsFrom(f, l), NEW k \in 1 .. Len(l) + 1, NEW q, IsNext(l, k, q)
  PROVE  f[k] = From(f, q)
<1>1. Len(l) \in Nat
  OBVIOUS
<1>2. CASE q = 0
  <2>1. \A j \in k .. Len(l) : l[j] \in Space
    BY <1>2, <1>1 DEF IsNext
  <2>2. \A j \in k .. (Len(l) + 1) - 1 : ~ Reads!begins(l, j)
    BY <1>1, <2>1 DEF Reads!begins, Space
  <2>3. f[k] = f[Len(l) + 1]
    BY <1>1, <2>2, FromSame
  <2> QED BY <1>2, <2>3 DEF IsFrom, From
<1>3. CASE q # 0
  <2>1. q \in k .. Len(l) + 1 /\ \A j \in k .. q - 1 : ~ Reads!begins(l, j)
    BY <1>1, <1>3 DEF IsNext, Reads!begins, Space
  <2> QED BY <1>3, <2>1, FromSame DEF From
<1> QED BY <1>2, <1>3

\* A word, and the words behind it.
LEMMA FromWord ==
  ASSUME NEW l \in Seq(Char), NEW f, IsFrom(f, l), NEW p \in 1 .. Len(l), Reads!begins(l, p),
         NEW e, IsEnd(l, p, e), NEW q, IsNext(l, e, q)
  PROVE  f[p] = <<SubSeq(l, p, e - 1)>> \o From(f, q)
<1>1. Len(l) \in Nat /\ l[p] \notin Space
  BY DEF Reads!begins, Space
<1>2. e \in p + 1 .. Len(l) + 1
  BY <1>1 DEF IsEnd
<1>3. f[p] = <<SubSeq(l, p, e - 1)>> \o f[p+1]
  BY <1>1, EndsIs DEF IsFrom
<1>4. ASSUME NEW j \in p + 1 .. e - 1 PROVE ~ Reads!begins(l, j)
  <2>1. j - 1 \in p .. e - 1 /\ j # 1
    BY <1>2
  <2> QED BY <2>1 DEF IsEnd, Reads!begins, Space
<1>5. f[p+1] = f[e]
  BY <1>1, <1>2, <1>4, FromSame
<1>6. f[e] = From(f, q)
  BY <1>1, <1>2, FromNext
<1> QED BY <1>3, <1>5, <1>6

-----------------------------------------------------------------------------
(* The command line: the buffer.                                           *)

\* The buffer still has the line, but for spaces that are cut.
Holds(b, l) ==
  /\ b \in Seq(Char \union {nul}) /\ Len(b) = Len(l) + 1 /\ b[Len(l) + 1] = nul
  /\ \A k \in 1 .. Len(l) : b[k] = l[k] \/ (b[k] = nul /\ l[k] \in Space)

\* From p on only the spaces at the end are.
Intact(b, l, p) ==
  \A k \in p .. Len(l) : b[k] = IF \E j \in k .. Len(l) : l[j] \notin Space THEN l[k] ELSE nul

\* In front of p none is.
Lead(b, l, p) == \A k \in 1 .. p - 1 : b[k] = l[k]

\* The word w is at p, and is cut.
IsCut(b, l, p, w) == \E e : p > 0 /\ IsEnd(l, p, e) /\ b[e] = nul /\ w = SubSeq(l, p, e - 1)

LEMMA SpaceIs == Space = {" ", "newline"} /\ nul = "nul" /\ Reads!NoSpaces = Char \ Space
BY DEF Space, Reads!Spaces, Reads!newline, nul, Reads!nul, Reads!NoSpaces

LEMMA NulIs == Apart => nul \notin Char /\ nul \notin Space
BY SpaceIs DEF Apart

LEMMA LineHolds ==
  ASSUME Apart, NEW l \in Seq(Char)
  PROVE  /\ Holds(l \o <<nul>>, l) /\ \A p \in 1 .. Len(l) + 1 : Lead(l \o <<nul>>, l, p)
         /\ \A k \in 1 .. Len(l) : (l \o <<nul>>)[k] = l[k]
<1> DEFINE b == l \o <<nul>>
<1>1. b \in Seq(Char \union {nul}) /\ Len(b) = Len(l) + 1 /\ b[Len(l) + 1] = nul
  OBVIOUS
<1>2. \A k \in 1 .. Len(l) : b[k] = l[k]
  OBVIOUS
<1>3. \A p \in 1 .. Len(l) + 1 : \A k \in 1 .. p - 1 : k \in 1 .. Len(l)
  OBVIOUS
<1> HIDE DEF b
<1>4. Holds(b, l) /\ \A p \in 1 .. Len(l) + 1 : Lead(b, l, p)
  BY <1>1, <1>2, <1>3 DEF Holds, Lead
<1> QED BY <1>2, <1>4 DEF b

\* A character of the line is not a nul.
LEMMA NotNul ==
  ASSUME Apart, NEW l \in Seq(Char), NEW b, Holds(b, l), NEW k \in 1 .. Len(l)
  PROVE  l[k] \in Char /\ l[k] # nul /\ (l[k] \notin Space => b[k] = l[k])
BY NulIs DEF Holds, Apart

\* The word at p, once it is cut, is what the command gets.
LEMMA StringIs ==
  ASSUME Apart, NEW l \in Seq(Char), NEW b, Holds(b, l), NEW p \in 1 .. Len(l),
         NEW w, IsCut(b, l, p, w)
  PROVE  Reads!string(b, p) = w
<1>1. Len(l) \in Nat /\ Len(b) = Len(l) + 1 /\ b \in Seq(Char \union {nul})
  BY DEF Holds
<1>2. PICK e : IsEnd(l, p, e) /\ b[e] = nul /\ w = SubSeq(l, p, e - 1)
  BY DEF IsCut
<1>3. e \in p .. Len(b)
  BY <1>1, <1>2 DEF IsEnd
<1>4. ASSUME NEW k \in p .. e - 1 PROVE b[k] = l[k] /\ b[k] \in Char
  <2>1. k \in 1 .. Len(l) /\ l[k] \notin Space
    BY <1>1, <1>2, <1>3 DEF IsEnd
  <2> QED BY <2>1, NotNul
<1>5. Reads!skip(b, p, Char \union Space) = e
  <2>1. b[e] \notin Char \union Space
    BY <1>2, NulIs
  <2> QED BY <1>1, <1>3, <1>4, <2>1, SkipIs
<1>6. SubSeq(b, p, e - 1) = SubSeq(l, p, e - 1)
  <2>1. e - 1 \in Int /\ p \in Nat /\ e - 1 <= Len(l) /\ e - 1 <= Len(b)
    BY <1>1, <1>3
  <2>2. \A k \in 1 .. e - p : p + k - 1 \in p .. e - 1
    BY <1>3
  <2>3. \A k \in 1 .. e - p : b[p + k - 1] = l[p + k - 1]
    BY <1>4, <2>2
  <2>4. /\ SubSeq(b, p, e - 1) = [k \in 1 .. e - p |-> b[p + k - 1]]
        /\ SubSeq(l, p, e - 1) = [k \in 1 .. e - p |-> l[p + k - 1]]
    BY <1>1, <1>3, <2>1
  <2> QED BY <2>3, <2>4
<1> QED BY <1>2, <1>5, <1>6 DEF Reads!string, Space

\* Behind the last word, getNextString changes nothing.
LEMMA NoNextString ==
  ASSUME NEW b, NEW p, p = 0 \/ b[Reads!skip(b, p, Reads!NoSpaces)] = nul
  PROVE  Reads!getNextString(b, p) = [at |-> 0, buffer |-> b]
BY DEF Reads!getNextString, nul

\* getNextString cuts the word at p and goes to the next one.
LEMMA NextString ==
  ASSUME Apart, NEW l \in Seq(Char), NEW b, Holds(b, l), NEW p \in 1 .. Len(l), l[p] \notin Space,
         Intact(b, l, p), NEW e, IsEnd(l, p, e), NEW q, IsNext(l, e, q)
  PROVE  LET r == Reads!getNextString(b, p)
         IN /\ r.at = q /\ Holds(r.buffer, l) /\ r.buffer[e] = nul
            /\ \A k \in 1 .. Len(l) + 1 : k # e => r.buffer[k] = b[k]
            /\ q # 0 => Intact(r.buffer, l, q)
<1> DEFINE r == Reads!getNextString(b, p)
           m == [b EXCEPT ![e] = nul]
<1>1. Len(l) \in Nat /\ Len(b) = Len(l) + 1 /\ b \in Seq(Char \union {nul}) /\ b[Len(l) + 1] = nul
  BY DEF Holds
<1>2. e \in p + 1 .. Len(l) + 1 /\ e \in 1 .. Len(b) /\ e \in p .. Len(b)
  BY <1>1 DEF IsEnd
<1>3. Reads!skip(b, p, Reads!NoSpaces) = e
  <2>1. ASSUME NEW k \in p .. e - 1 PROVE b[k] \in Reads!NoSpaces
    <3>1. k \in 1 .. Len(l) /\ l[k] \notin Space
      BY <1>1, <1>2, <2>1 DEF IsEnd
    <3> QED BY <3>1, NotNul, SpaceIs
  <2>2. b[e] \notin Reads!NoSpaces
    <3>1. CASE e = Len(l) + 1
      BY <1>1, <3>1, NulIs, SpaceIs
    <3>2. CASE e # Len(l) + 1
      <4>1. e \in 1 .. Len(l) /\ l[e] \in Space
        BY <1>1, <1>2, <3>2 DEF IsEnd
      <4>2. b[e] = l[e] \/ b[e] = nul
        BY <4>1 DEF Holds
      <4> QED BY <4>1, <4>2, NulIs, SpaceIs
    <3> QED BY <3>1, <3>2
  <2> QED BY <1>1, <1>2, <2>1, <2>2, SkipIs
<1>4. m \in Seq(Char \union {nul}) /\ Len(m) = Len(b) /\ m[e] = nul
      /\ \A k \in 1 .. Len(b) : k # e => m[k] = b[k]
  <2>1. DOMAIN b = 1 .. Len(b)
    BY <1>1
  <2>2. m = [k \in 1 .. Len(b) |-> IF k = e THEN nul ELSE b[k]]
    BY <2>1
  <2> HIDE DEF m
  <2>3. \A k \in 1 .. Len(b) : m[k] \in Char \union {nul}
    BY <1>1, <2>2
  <2>4. m \in [1 .. Len(b) -> Char \union {nul}]
    BY <2>2, <2>3
  <2> QED BY <1>1, <1>2, <2>2, <2>4
<1>5. Holds(m, l)
  <2>1. ASSUME NEW k \in 1 .. Len(l) PROVE m[k] = l[k] \/ (m[k] = nul /\ l[k] \in Space)
    <3>1. CASE k = e
      BY <1>1, <1>4, <3>1 DEF IsEnd
    <3>2. CASE k # e
      BY <1>1, <1>4, <3>2 DEF Holds
    <3> QED BY <3>1, <3>2
  <2>2. m[Len(l) + 1] = nul
    BY <1>1, <1>4
  <2> HIDE DEF m
  <2> QED BY <1>1, <1>4, <2>1, <2>2 DEF Holds
<1>6. p # 0
  OBVIOUS
<1>7. CASE q = 0
  <2>1. b[e] = nul
    <3>1. CASE e = Len(l) + 1
      BY <1>1, <3>1
    <3>2. CASE e # Len(l) + 1
      <4>1. e \in p .. Len(l) /\ ~ \E j \in e .. Len(l) : l[j] \notin Space
        BY <1>1, <1>2, <1>7, <3>2 DEF IsNext
      <4> QED BY <4>1 DEF Intact
    <3> QED BY <3>1, <3>2
  <2>2. r = [at |-> 0, buffer |-> b]
    BY <1>3, <2>1, NoNextString
  <2> QED BY <1>7, <2>1, <2>2
<1>8. CASE q # 0
  <2>1. q \in e .. Len(l) /\ l[q] \notin Space /\ \A j \in e .. q - 1 : l[j] \in Space
    BY <1>8 DEF IsNext
  <2>2. l[e] \in Space /\ q \in e + 1 .. Len(l) /\ e \in 1 .. Len(l)
    BY <1>1, <1>2, <2>1 DEF IsEnd
  <2>3. \A k \in e .. q : b[k] = l[k]
    <3> TAKE k \in e .. q
    <3>1. k \in p .. Len(l) /\ \E j \in k .. Len(l) : l[j] \notin Space
      BY <1>1, <1>2, <2>1
    <3> QED BY <3>1 DEF Intact
  <2>4. b[e] # nul
    BY <2>1, <2>2, <2>3, NotNul
  <2>5. Reads!skip(m, e + 1, Space) = q
    <3>1. q \in e + 1 .. Len(m) /\ m[q] \notin Space
      BY <1>1, <1>4, <2>1, <2>2, <2>3
    <3>2. ASSUME NEW k \in e + 1 .. q - 1 PROVE m[k] \in Space
      <4>1. k \in e .. q - 1 /\ k # e /\ k \in 1 .. Len(b) /\ k \in e .. q
        BY <1>1, <1>2, <2>1
      <4> QED BY <1>4, <2>1, <2>3, <4>1
    <3>3. e + 1 \in Nat /\ Len(m) \in Nat
      BY <1>1, <1>2, <1>4
    <3> HIDE DEF m
    <3> QED BY <3>1, <3>2, <3>3, SkipIs
  <2>6. m[q] # nul
    <3>1. q \in 1 .. Len(b) /\ q # e /\ q \in 1 .. Len(l) /\ q \in e .. q
      BY <1>1, <1>2, <2>2
    <3> QED BY <1>4, <2>3, <3>1, NotNul
  <2>7. r.at = q /\ r.buffer = m
    <3>1. Reads!skip(m, e + 1, Reads!Spaces) = q
      BY <2>5 DEF Space
    <3>2. r = Reads!string_behind(m, e)
      BY <1>3, <1>6, <2>4 DEF Reads!getNextString, nul
    <3> HIDE DEF r, m
    <3> QED BY <2>6, <3>1, <3>2 DEF Reads!string_behind, nul
  <2>8. Intact(m, l, q)
    <3>1. ASSUME NEW k \in q .. Len(l) PROVE m[k] = b[k] /\ k \in p .. Len(l)
      <4>1. k # e /\ k \in 1 .. Len(b) /\ k \in p .. Len(l)
        BY <1>1, <1>2, <2>2
      <4> QED BY <1>4, <4>1
    <3> HIDE DEF m
    <3> QED BY <3>1 DEF Intact
  <2> HIDE DEF m
  <2> QED BY <1>1, <1>4, <1>5, <2>7, <2>8
<1> QED BY <1>7, <1>8

\* trimString goes to the first word and cuts the spaces at the end.
LEMMA Trim ==
  ASSUME Apart, NEW l \in Seq(Char), l # <<>>, NEW p, IsNext(l, 1, p)
  PROVE  LET b == l \o <<nul>>
             r == Reads!trimString(b, 1)
         IN /\ r.at = p /\ Holds(r.buffer, l)
            /\ p = 0 => r.buffer = b
            /\ p # 0 => Intact(r.buffer, l, p) /\ Lead(r.buffer, l, p)
<1> DEFINE b == l \o <<nul>>
           n == Len(l)
           P(z, q) == (\A k \in q .. n : Reads!is_space(b[k]))
                      /\ (q > z + 1 => ~ Reads!is_space(b[q-1]))
           cut(z) == CHOOSE q \in z + 1 .. n + 1 : P(z, q)
           r == Reads!trimString(b, 1)
<1>1. /\ n \in Nat /\ Len(b) = n + 1 /\ b \in Seq(Char \union {nul}) /\ b[n+1] = nul
      /\ \A k \in 1 .. n : b[k] = l[k] /\ b[k] \in Char
  BY LineHolds, NotNul DEF Holds
<1>2. Holds(b, l) /\ \A z \in 1 .. n + 1 : Lead(b, l, z)
  BY LineHolds
<1> HIDE DEF b
<1> DEFINE Claim == /\ r.at = p /\ Holds(r.buffer, l)
                    /\ p = 0 => r.buffer = b
                    /\ p # 0 => Intact(r.buffer, l, p) /\ Lead(r.buffer, l, p)
<1>3. ASSUME p = 0 PROVE Claim
  <2>1. Reads!skip(b, 1, Space) = n + 1
    <3>1. \A k \in 1 .. (n + 1) - 1 : b[k] \in Space
      BY <1>1, <1>3 DEF IsNext
    <3>2. b[n + 1] \notin Space /\ n + 1 \in 1 .. Len(b) /\ Len(b) \in Nat
      BY <1>1, NulIs
    <3> QED BY <3>1, <3>2, SkipIs
  <2>2. r = [at |-> 0, buffer |-> b]
    BY Zenon, <1>1, <2>1 DEF Reads!trimString, nul, Space
  <2> HIDE DEF r
  <2> QED BY <1>2, <1>3, <2>2
<1>4. ASSUME p # 0 PROVE Claim
  <2>1. p \in 1 .. n /\ l[p] \notin Space /\ \A j \in 1 .. p - 1 : l[j] \in Space
    BY <1>4 DEF IsNext
  <2>2. Reads!skip(b, 1, Space) = p
    <3>1. \A k \in 1 .. p - 1 : b[k] \in Space
      BY <1>1, <2>1
    <3>2. b[p] \notin Space /\ p \in 1 .. Len(b) /\ Len(b) \in Nat
      BY <1>1, <2>1
    <3> QED BY <3>1, <3>2, SkipIs
  <2>3. Reads!skip(b, p, Char \union Space) = n + 1
    <3>1. \A k \in p .. (n + 1) - 1 : b[k] \in Char \union Space
      BY <1>1, <2>1
    <3>2. b[n+1] \notin Char \union Space /\ n + 1 \in p .. Len(b) /\ Len(b) \in Nat /\ p \in Nat
      BY <1>1, <2>1, NulIs
    <3> QED BY <3>1, <3>2, SkipIs
  <2>4. b[p] # nul /\ (n + 1) - 1 = n
    <3>1. l[p] # nul
      BY <1>2, <2>1, NotNul
    <3> QED BY <1>1, <2>1, <3>1
  <2> DEFINE c == cut(p)
             m == [k \in DOMAIN b |-> IF k \in c .. n THEN nul ELSE b[k]]
  <2>5. r = [at |-> p, buffer |-> m]
    BY Zenon, <2>2, <2>3, <2>4 DEF Reads!trimString, nul, Space
  <2>6. c \in p + 1 .. n + 1 /\ P(p, c)
    <3> DEFINE Q == {q \in p + 1 .. n + 1 : \A k \in q .. n : l[k] \in Space}
    <3>1. Q \subseteq Nat /\ n + 1 \in Q
      BY <1>1, <2>1
    <3>2. PICK q \in Q : \A j \in Q : q <= j
      <4> HIDE DEF Q
      <4> QED BY <3>1, Least
    <3>3. q > p + 1 => l[q-1] \notin Space
      <4> SUFFICES ASSUME q > p + 1, l[q-1] \in Space PROVE FALSE
        OBVIOUS
      <4>1. q - 1 \in p + 1 .. n + 1 /\ ~ (q <= q - 1)
        BY <1>1, <2>1
      <4>2. \A k \in q - 1 .. n : l[k] \in Space
        <5> TAKE k \in q - 1 .. n
        <5>1. k = q - 1 \/ k \in q .. n
          BY <1>1, <2>1
        <5> QED BY <5>1
      <4> QED BY <3>2, <4>1, <4>2
    <3>4. P(p, q)
      <4>1. \A k \in q .. n : k \in 1 .. n
        BY <1>1, <2>1
      <4>2. \A k \in q .. n : b[k] \in Space
        BY <1>1, <4>1
      <4>3. q > p + 1 => b[q-1] \notin Space
        <5>1. q > p + 1 => q - 1 \in 1 .. n
          BY <1>1, <2>1
        <5> QED BY <1>1, <3>3, <5>1
      <4> QED BY <4>2, <4>3 DEF Reads!is_space, Space, Reads!Spaces
    <3>5. q \in p + 1 .. n + 1
      OBVIOUS
    <3> HIDE DEF P, Q
    <3> QED BY <3>4, <3>5
  <2> HIDE DEF c
  <2>7. ASSUME NEW k \in 1 .. n
        PROVE  k \in c .. n <=> k \in p .. n /\ ~ \E j \in k .. n : l[j] \notin Space
    <3>1. \A j \in c .. n : l[j] \in Space
      <4>1. \A j \in c .. n : j \in 1 .. n
        BY <1>1, <2>1, <2>6
      <4> QED BY <1>1, <2>6, <4>1 DEF Reads!is_space, Space, Reads!Spaces
    <3>2. k \in c .. n => k \in p .. n /\ \A j \in k .. n : l[j] \in Space
      BY <1>1, <2>1, <2>6, <3>1
    <3>3. k \in p .. n /\ k < c => \E j \in k .. n : l[j] \notin Space
      <4> SUFFICES ASSUME k \in p .. n, k < c PROVE \E j \in k .. n : l[j] \notin Space
        OBVIOUS
      <4>1. CASE c = p + 1
        BY <1>1, <2>1, <2>6, <4>1
      <4>2. CASE c # p + 1
        <5>1. c > p + 1 /\ c - 1 \in k .. n /\ c - 1 \in 1 .. n
          BY <1>1, <2>1, <2>6, <4>2
        <5>2. b[c-1] \notin Space
          BY <2>6, <5>1 DEF Reads!is_space, Space, Reads!Spaces
        <5> QED BY <1>1, <5>1, <5>2
      <4> QED BY <4>1, <4>2
    <3>4. k \in p .. n /\ k \notin c .. n => k < c
      BY <1>1, <2>1, <2>6
    <3> QED BY <3>2, <3>3, <3>4
  <2>8. DOMAIN b = 1 .. n + 1 /\ \A k \in 1 .. n + 1 : b[k] \in Char \union {nul}
    BY <1>1
  <2>9. /\ m \in Seq(Char \union {nul}) /\ Len(m) = n + 1 /\ m[n+1] = nul
        /\ \A k \in 1 .. n : m[k] = IF k \in c .. n THEN nul ELSE l[k]
    <3>1. /\ m \in [1 .. n + 1 -> Char \union {nul}]
          /\ \A k \in 1 .. n + 1 : m[k] = IF k \in c .. n THEN nul ELSE b[k]
      BY <2>8
    <3>2. n + 1 \in 1 .. n + 1 /\ n + 1 \notin c .. n /\ \A k \in 1 .. n : k \in 1 .. n + 1
      BY <1>1
    <3> HIDE DEF m
    <3> QED BY <1>1, <3>1, <3>2
  <2> HIDE DEF m
  <2>10. Holds(m, l)
    <3>1. ASSUME NEW k \in 1 .. n PROVE m[k] = l[k] \/ (m[k] = nul /\ l[k] \in Space)
      <4>1. k \in c .. n => k \in k .. n
        BY <1>1
      <4> QED BY <2>7, <2>9, <4>1
    <3> QED BY <2>9, <3>1 DEF Holds
  <2>11. Intact(m, l, p)
    <3>1. \A k \in p .. n : k \in 1 .. n
      BY <1>1, <2>1
    <3> QED BY <2>7, <2>9, <3>1 DEF Intact
  <2>12. Lead(m, l, p)
    <3>1. \A k \in 1 .. p - 1 : k \in 1 .. n /\ k \notin c .. n
      BY <1>1, <2>1, <2>6
    <3> QED BY <2>9, <3>1 DEF Lead
  <2> HIDE DEF r
  <2> QED BY <1>4, <2>5, <2>10, <2>11, <2>12
<1>5. Claim
  BY <1>3, <1>4
<1> QED BY <1>5 DEF b

-----------------------------------------------------------------------------
(* The command line: the command and its arguments.                        *)

Word == Seq(Reads!NoSpaces)

LEMMA FromSeq ==
  ASSUME NEW l \in Seq(Char), NEW f, IsFrom(f, l)
  PROVE \A k \in 1 .. Len(l) + 1 : f[k] \in Seq(Word)
<1> DEFINE n == Len(l)
           Bad == {m \in 0 .. n : f[n + 1 - m] \notin Seq(Word)}
<1>1. n \in Nat
  OBVIOUS
<1>2. ASSUME NEW m \in 0 .. n, m # 0, f[n + 1 - (m - 1)] \in Seq(Word)
      PROVE  f[n + 1 - m] \in Seq(Word)
  <2> DEFINE k == n + 1 - m
  <2>1. k \in 1 .. n /\ k + 1 = n + 1 - (m - 1)
    BY <1>1, <1>2
  <2> HIDE DEF k
  <2>2. CASE Reads!begins(l, k)
    <3>1. l[k] \notin Space
      BY <2>2 DEF Reads!begins, Space
    <3>2. PICK e : IsEnd(l, k, e)
      BY <2>1, SomeEnd
    <3> DEFINE w == SubSeq(l, k, e - 1)
    <3>3. IsWord(l, k, w)
      BY <3>2 DEF IsWord
    <3>4. w \in Word
      BY <2>1, <3>1, <3>3, WordIs DEF Word
    <3>5. f[k] = <<w>> \o f[k+1]
      BY <2>1, <2>2, <3>1, <3>2, EndsIs DEF IsFrom
    <3>6. f[k+1] \in Seq(Word)
      BY <1>2, <2>1
    <3> HIDE DEF w
    <3> QED BY <3>4, <3>5, <3>6, Cons DEF k
  <2>3. CASE ~ Reads!begins(l, k)
    BY <1>2, <2>1, <2>3 DEF IsFrom, k
  <2> QED BY <2>2, <2>3
<1>3. Bad = {}
  <2> SUFFICES ASSUME Bad # {} PROVE FALSE
    OBVIOUS
  <2>1. PICK m \in Bad : \A j \in Bad : m <= j
    <3>1. Bad \subseteq Nat
      OBVIOUS
    <3> HIDE DEF Bad
    <3> QED BY <3>1, Least
  <2>2. m \in 0 .. n /\ f[n + 1 - m] \notin Seq(Word)
    OBVIOUS
  <2>3. m # 0
    <3>1. f[n + 1] \in Seq(Word)
      BY DEF IsFrom
    <3>2. n + 1 - 0 = n + 1
      BY <1>1
    <3> HIDE DEF n
    <3> QED BY <2>2, <3>1, <3>2
  <2>4. m - 1 \in 0 .. n /\ ~ (m <= m - 1)
    BY <1>1, <2>2, <2>3
  <2>5. m - 1 \notin Bad
    <3> HIDE DEF Bad
    <3> QED BY <2>1, <2>4
  <2>6. f[n + 1 - (m - 1)] \in Seq(Word)
    BY <2>4, <2>5
  <2> HIDE DEF n
  <2> QED BY <1>2, <2>2, <2>3, <2>6
<1>4. \A k \in 1 .. n + 1 : n + 1 - k \in 0 .. n /\ n + 1 - (n + 1 - k) = k
  BY <1>1
<1>5. \A m \in 0 .. n : f[n + 1 - m] \in Seq(Word)
  BY <1>3
<1> HIDE DEF n
<1>6. \A k \in 1 .. n + 1 : f[k] \in Seq(Word)
  BY <1>4, <1>5
<1> QED BY <1>6 DEF n

\* The buffer, and the pointer into it that goes from word to word.
At(l, b, p) ==
  /\ Holds(b, l) /\ p \in 0 .. Len(l)
  /\ p # 0 => Reads!begins(l, p) /\ Intact(b, l, p)

\* One call of getNextString: it cuts the word at p, goes to the next one, and
\* leaves the words in front as they are.
Goes(l, f, b, p, c, q) ==
  /\ At(l, c, q)
  /\ p = 0 => q = 0 /\ c = b
  /\ q # 0 => p < q
  /\ p # 0 => \E w \in Word : w # <<>> /\ IsCut(c, l, p, w) /\ From(f, p) = <<w>> \o From(f, q)
  /\ \A z \in Nat : \A w : IsCut(b, l, z, w) => IsCut(c, l, z, w)
  /\ \A z \in Nat : (p # 0 => z <= p) /\ Lead(b, l, z) => Lead(c, l, z)

LEMMA NextWord ==
  ASSUME Apart, NEW l \in Seq(Char), NEW f, IsFrom(f, l), NEW b, NEW p, At(l, b, p)
  PROVE  LET r == Reads!getNextString(b, p) IN Goes(l, f, b, p, r.buffer, r.at)
<1> DEFINE r == Reads!getNextString(b, p)
<1>1. Len(l) \in Nat /\ Holds(b, l) /\ p \in 0 .. Len(l)
  BY DEF At
<1>2. CASE p = 0
  <2>1. r = [at |-> 0, buffer |-> b]
    BY <1>2, NoNextString
  <2> HIDE DEF r
  <2>2. r.at = p /\ r.buffer = b
    BY <1>2, <2>1
  <2>3. At(l, r.buffer, r.at)
    BY <2>2
  <2>4. Goes(l, f, b, p, r.buffer, r.at)
    BY <1>2, <2>2, <2>3 DEF Goes
  <2> QED BY <2>4 DEF r
<1>3. CASE p # 0
  <2>1. p \in 1 .. Len(l) /\ Reads!begins(l, p) /\ Intact(b, l, p) /\ l[p] \notin Space
    BY <1>1, <1>3 DEF At, Reads!begins, Space
  <2>2. PICK e : IsEnd(l, p, e)
    BY <2>1, SomeEnd
  <2>3. e \in p + 1 .. Len(l) + 1 /\ e \in 1 .. Len(l) + 1
    BY <1>1, <2>1, <2>2 DEF IsEnd
  <2>4. PICK q : IsNext(l, e, q)
    BY <2>3, SomeNext
  <2>5. /\ r.at = q /\ Holds(r.buffer, l) /\ r.buffer[e] = nul
        /\ \A k \in 1 .. Len(l) + 1 : k # e => r.buffer[k] = b[k]
        /\ q # 0 => Intact(r.buffer, l, q)
    BY <1>1, <2>1, <2>2, <2>4, NextString
  <2> HIDE DEF r
  <2>6. q # 0 => q \in e + 1 .. Len(l) /\ Reads!begins(l, q)
    <3> SUFFICES ASSUME q # 0 PROVE q \in e + 1 .. Len(l) /\ Reads!begins(l, q)
      OBVIOUS
    <3>1. q \in e .. Len(l) /\ l[q] \notin Space /\ \A j \in e .. q - 1 : l[j] \in Space
      BY <2>4 DEF IsNext
    <3>2. l[e] \in Space /\ q # e
      BY <1>1, <2>2, <2>3, <3>1 DEF IsEnd
    <3>3. q - 1 \in e .. q - 1 /\ q \in e + 1 .. Len(l)
      BY <1>1, <2>3, <3>1, <3>2
    <3> QED BY <3>1, <3>3 DEF Reads!begins, Space
  <2>7. q \in 0 .. Len(l) /\ (q # 0 => p < q)
    BY <1>1, <2>1, <2>3, <2>4, <2>6 DEF IsNext
  <2>8. At(l, r.buffer, r.at)
    BY <2>5, <2>6, <2>7 DEF At
  <2>9. \E w \in Word : w # <<>> /\ IsCut(r.buffer, l, p, w) /\ From(f, p) = <<w>> \o From(f, r.at)
    <3> DEFINE w == SubSeq(l, p, e - 1)
    <3>1. IsCut(r.buffer, l, p, w)
      <4>1. p > 0
        BY <2>1
      <4> QED BY <2>2, <2>5, <4>1 DEF IsCut
    <3>2. IsWord(l, p, w)
      BY <2>2 DEF IsWord
    <3>3. w \in Word /\ w # <<>>
      BY <2>1, <3>2, WordIs DEF Word
    <3>4. f[p] = <<w>> \o From(f, q)
      BY <2>1, <2>2, <2>4, FromWord
    <3>5. From(f, p) = f[p]
      BY <1>3 DEF From
    <3> QED BY <2>5, <3>1, <3>3, <3>4, <3>5
  <2>10. ASSUME NEW z \in Nat, NEW w, IsCut(b, l, z, w) PROVE IsCut(r.buffer, l, z, w)
    <3>1. PICK x : z > 0 /\ IsEnd(l, z, x) /\ b[x] = nul /\ w = SubSeq(l, z, x - 1)
      BY <2>10 DEF IsCut
    <3>2. x = e \/ r.buffer[x] = b[x]
      <4>1. x \in 1 .. Len(l) + 1
        BY <1>1, <3>1 DEF IsEnd
      <4> QED BY <2>5, <4>1
    <3> QED BY <2>5, <3>1, <3>2 DEF IsCut
  <2>11. ASSUME NEW z \in Nat, p # 0 => z <= p, Lead(b, l, z) PROVE Lead(r.buffer, l, z)
    <3>1. \A k \in 1 .. z - 1 : k \in 1 .. Len(l) + 1 /\ k # e
      BY <1>1, <1>3, <2>1, <2>3, <2>11
    <3> QED BY <2>5, <2>11, <3>1 DEF Lead
  <2>12. Goes(l, f, b, p, r.buffer, r.at)
    BY <1>3, <2>5, <2>7, <2>8, <2>9, <2>10, <2>11 DEF Goes
  <2> QED BY <2>12 DEF r
<1> QED BY <1>2, <1>3

\* A chain of words, of which each g[k] is what is left, ends at a null pointer;
\* the first four are those that have a pointer.
WordChain(p, w, g) ==
  /\ \A k \in 1 .. 4 : IF p[k] = 0 THEN p[k+1] = 0 /\ g[k] = <<>>
                       ELSE w[k] \in Word /\ g[k] = <<w[k]>> \o g[k+1]
  /\ g[5] \in Seq(Word)

First(p, w, x) ==
  LET given == {k \in 1 .. 4 : p[k] # 0}
      m == IF Len(x) < 4 THEN Len(x) ELSE 4
  IN /\ [k \in given |-> w[k]] = SubSeq(x, 1, m)
     /\ [k \in given |-> w[k]] \in Seq(Word) /\ m \in 0 .. 4
     /\ given = 1 .. m /\ (p[1] = 0 <=> x = <<>>)

LEMMA FourWords == ASSUME NEW p, NEW w, NEW g, WordChain(p, w, g) PROVE First(p, w, g[1])
<1> DEFINE U == Word
<1>1. /\ \A k \in 1 .. 4 : IF p[k] = 0 THEN p[k+1] = 0 /\ g[k] = <<>>
                           ELSE w[k] \in U /\ g[k] = <<w[k]>> \o g[k+1]
      /\ g[5] \in Seq(U)
  BY DEF WordChain
<1> HIDE DEF U
<1> DEFINE given == {k \in 1 .. 4 : p[k] # 0}
           m == IF Len(g[1]) < 4 THEN Len(g[1]) ELSE 4
           Claim(k, n) == /\ g[k] \in Seq(U)
                          /\ \A j \in 1 .. n : w[k + j - 1] \in U /\ g[k][j] = w[k + j - 1]
                          /\ n <= Len(g[k]) /\ (k + n < 5 => Len(g[k]) = n)
                          /\ \A j \in k .. 4 : p[j] # 0 <=> j \in k .. k + n - 1
<1>2. ASSUME NEW k \in 1 .. 4, NEW n \in 0 .. 4 - k, Claim(k+1, n), p[k] # 0
      PROVE  Claim(k, n + 1)
  <2>1. w[k] \in U /\ g[k] = <<w[k]>> \o g[k+1] /\ g[k+1] \in Seq(U)
    BY <1>1, <1>2
  <2>2. /\ g[k] \in Seq(U) /\ Len(g[k]) = Len(g[k+1]) + 1 /\ Len(g[k+1]) \in Nat /\ g[k][1] = w[k]
        /\ \A j \in 1 .. Len(g[k+1]) : g[k][j+1] = g[k+1][j]
    BY <2>1, Cons
  <2>3. ASSUME NEW j \in 1 .. n + 1 PROVE w[k + j - 1] \in U /\ g[k][j] = w[k + j - 1]
    <3>1. CASE j = 1
      BY <2>1, <2>2, <3>1
    <3>2. CASE j # 1
      <4>1. j - 1 \in 1 .. n /\ j - 1 \in 1 .. Len(g[k+1]) /\ (j - 1) + 1 = j
            /\ (k + 1) + (j - 1) - 1 = k + j - 1
        BY <1>2, <2>2, <3>2
      <4>2. w[(k + 1) + (j - 1) - 1] \in U /\ g[k+1][j-1] = w[(k + 1) + (j - 1) - 1]
        BY <1>2, <4>1
      <4>3. g[k][(j-1)+1] = g[k+1][j-1]
        BY <2>2, <4>1
      <4> QED BY <4>1, <4>2, <4>3
    <3> QED BY <3>1, <3>2
  <2>4. ASSUME NEW j \in k .. 4 PROVE p[j] # 0 <=> j \in k .. k + (n + 1) - 1
    BY <1>2
  <2>5. n + 1 <= Len(g[k]) /\ (k + (n + 1) < 5 => Len(g[k]) = n + 1)
    BY <1>2, <2>2
  <2> QED BY <2>2, <2>3, <2>4, <2>5
<1>3. ASSUME NEW k \in 1 .. 4, p[k] = 0, \A j \in k + 1 .. 4 : p[j] = 0 PROVE Claim(k, 0)
  <2>1. g[k] = <<>>
    BY <1>1, <1>3
  <2>2. g[k] \in Seq(U) /\ Len(g[k]) = 0
    BY <2>1
  <2>3. \A j \in k .. 4 : p[j] = 0 /\ ~ j \in k .. k + 0 - 1
    BY <1>3
  <2> QED BY <2>2, <2>3
<1>4. /\ \A k \in 1 .. 3 : p[k] = 0 => p[k+1] = 0
      /\ 1 + 1 = 2 /\ 2 + 1 = 3 /\ 3 + 1 = 4 /\ 4 + 1 = 5
  BY <1>1, SMT
<1>5. Claim(5, 0)
  BY <1>1
<1> HIDE DEF Claim
<1>6. \E n \in 0 .. 1 : Claim(4, n)
  <2>1. p[4] = 0 => Claim(4, 0)
    BY <1>3
  <2>2. p[4] # 0 => Claim(4, 1)
    <3>1. 4 \in 1 .. 4 /\ 0 \in 0 .. 4 - 4 /\ 0 + 1 = 1
      OBVIOUS
    <3> QED BY <1>2, <1>4, <1>5, <3>1
  <2> QED BY <2>1, <2>2
<1>7. \E n \in 0 .. 2 : Claim(3, n)
  <2>1. p[3] = 0 => Claim(3, 0)
    BY <1>3, <1>4
  <2>2. PICK n \in 0 .. 1 : Claim(4, n)
    BY <1>6
  <2>3. p[3] # 0 => Claim(3, n + 1)
    <3>1. 3 \in 1 .. 4 /\ n \in 0 .. 4 - 3
      OBVIOUS
    <3> QED BY <1>2, <1>4, <2>2, <3>1
  <2> QED BY <2>1, <2>3
<1>8. \E n \in 0 .. 3 : Claim(2, n)
  <2>1. p[2] = 0 => Claim(2, 0)
    BY <1>3, <1>4
  <2>2. PICK n \in 0 .. 2 : Claim(3, n)
    BY <1>7
  <2>3. p[2] # 0 => Claim(2, n + 1)
    <3>1. 2 \in 1 .. 4 /\ n \in 0 .. 4 - 2
      OBVIOUS
    <3> QED BY <1>2, <1>4, <2>2, <3>1
  <2> QED BY <2>1, <2>3
<1>9. PICK n \in 0 .. 4 : Claim(1, n)
  <2>1. p[1] = 0 => Claim(1, 0)
    BY <1>3, <1>4
  <2>2. PICK n \in 0 .. 3 : Claim(2, n)
    BY <1>8
  <2>3. p[1] # 0 => Claim(1, n + 1)
    <3>1. 1 \in 1 .. 4 /\ n \in 0 .. 4 - 1
      OBVIOUS
    <3> QED BY <1>2, <1>4, <2>2, <3>1
  <2> QED BY <2>1, <2>3
<1>10. /\ g[1] \in Seq(U) /\ Len(g[1]) \in Nat /\ n <= Len(g[1]) /\ (n < 4 => Len(g[1]) = n)
       /\ \A j \in 1 .. n : w[j] \in U /\ g[1][j] = w[j]
       /\ \A j \in 1 .. 4 : p[j] # 0 <=> j \in 1 .. n
  <2>1. \A j \in 1 .. n : 1 + j - 1 = j
    OBVIOUS
  <2> QED BY <1>9, <2>1 DEF Claim
<1>11. m = n /\ given = 1 .. n
  <2>1. m = n
    BY <1>10
  <2>2. \A j \in 1 .. 4 : j \in given <=> j \in 1 .. n
    BY <1>10
  <2>3. given \subseteq 1 .. 4 /\ 1 .. n \subseteq 1 .. 4
    OBVIOUS
  <2> HIDE DEF given
  <2>4. given = 1 .. n
    BY <2>2, <2>3
  <2> QED BY <2>1, <2>4
<1>12. SubSeq(g[1], 1, n) = [k \in 1 .. n |-> g[1][k]]
  <2>1. SubSeq(g[1], 1, n) = [k \in 1 .. n |-> g[1][1 + k - 1]]
    BY <1>10
  <2> QED BY <2>1
<1>13. /\ [k \in given |-> w[k]] = [k \in 1 .. n |-> g[1][k]]
       /\ [k \in given |-> w[k]] \in [1 .. n -> U]
  BY <1>10, <1>11
<1>14. p[1] = 0 <=> n = 0
  BY <1>10
<1>15. g[1] = <<>> <=> n = 0
  BY <1>10
<1> HIDE DEF given, m
<1>16. [k \in given |-> w[k]] \in Seq(U)
  BY <1>13
<1> QED BY <1>11, <1>12, <1>13, <1>14, <1>15, <1>16 DEF given, m, First, U

\* What split does: trimString, and four calls of getNextString.
Call(b, k) == LET c  == Reads!trimString(b, 1)
                  a1 == Reads!getNextString(c.buffer, c.at)
                  a2 == Reads!getNextString(a1.buffer, a1.at)
                  a3 == Reads!getNextString(a2.buffer, a2.at)
                  a4 == Reads!getNextString(a3.buffer, a3.at)
              IN CASE k = 1 -> c [] k = 2 -> a1 [] k = 3 -> a2 [] k = 4 -> a3 [] OTHER -> a4

LEMMA SplitCalls ==
  ASSUME NEW b
  PROVE  /\ Call(b, 1) = Reads!trimString(b, 1)
         /\ \A k \in 1 .. 4 : Call(b, k+1) = Reads!getNextString(Call(b, k).buffer, Call(b, k).at)
         /\ Reads!split(b).buffer = Call(b, 5).buffer
         /\ Reads!split(b).words = [k \in {j \in 1 .. 4 : Call(b, j).at # 0} |->
                                      Reads!string(Call(b, 5).buffer, Call(b, k).at)]
<1> DEFINE c  == Reads!trimString(b, 1)
           a1 == Reads!getNextString(c.buffer, c.at)
           a2 == Reads!getNextString(a1.buffer, a1.at)
           a3 == Reads!getNextString(a2.buffer, a2.at)
           a4 == Reads!getNextString(a3.buffer, a3.at)
           starts == <<c.at, a1.at, a2.at, a3.at>>
           given == {k \in 1 .. 4 : starts[k] # 0}
<1>1. Reads!split(b) =
         [buffer |-> a4.buffer, words |-> [k \in given |-> Reads!string(a4.buffer, starts[k])]]
  BY Zenon DEF Reads!split
<1>2. Call(b, 1) = c /\ Call(b, 2) = a1 /\ Call(b, 3) = a2 /\ Call(b, 4) = a3 /\ Call(b, 5) = a4
  BY SMT DEF Call
<1>3. \A k \in 1 .. 4 : Call(b, k+1) = Reads!getNextString(Call(b, k).buffer, Call(b, k).at)
  <2>1. 1 + 1 = 2 /\ 2 + 1 = 3 /\ 3 + 1 = 4 /\ 4 + 1 = 5 /\ \A k \in 1 .. 4 : k \in {1, 2, 3, 4}
    OBVIOUS
  <2> QED BY <1>2, <2>1
<1>4. \A k \in 1 .. 4 : starts[k] = Call(b, k).at
  <2> HIDE DEF c, a1, a2, a3, a4
  <2> QED BY <1>2
<1>5. Call(b, 1) = Reads!trimString(b, 1)
  BY <1>2
<1>6. /\ Reads!split(b).buffer = a4.buffer
      /\ Reads!split(b).words = [k \in given |-> Reads!string(a4.buffer, starts[k])]
  <2> HIDE DEF a4, starts, given
  <2> QED BY <1>1
<1> HIDE DEF c, a1, a2, a3, a4, starts
<1>7. [k \in given |-> Reads!string(a4.buffer, starts[k])]
        = [k \in {j \in 1 .. 4 : Call(b, j).at # 0} |->
              Reads!string(Call(b, 5).buffer, Call(b, k).at)]
  BY <1>2, <1>4
<1> HIDE DEF given
<1> QED BY <1>2, <1>3, <1>7, <1>5, <1>6

\* A typed line.
LEMMA SplitLine ==
  ASSUME Apart, NEW l \in Seq(Char), l # <<>>
  PROVE  LET s == Reads!split(l \o <<nul>>)
             w == Reads!Words(l)
         IN /\ s.words = Reads!first_four(w) /\ s.words \in Seq(Word) /\ Len(s.words) <= 4
            /\ \A k \in DOMAIN s.words : s.words[k] # <<>>
            /\ Holds(s.buffer, l)
            /\ \/ w = <<>> /\ s.words = <<>> /\ s.buffer = l \o <<nul>>
               \/ /\ w # <<>>
                  /\ \E p \in 1 .. Len(l) : IsNext(l, 1, p) /\ Lead(s.buffer, l, p)
                                            /\ IsCut(s.buffer, l, p, w[1])
<1> DEFINE b == l \o <<nul>>
           W == Reads!Words(l)
           s == Reads!split(b)
<1>1. PICK f : IsFrom(f, l) /\ W = f[1]
  BY WordsFrom
<1>2. PICK p : IsNext(l, 1, p)
  BY SomeNext
<1>3. Len(l) \in Nat /\ (p = 0 \/ p \in 1 .. Len(l)) /\ (p # 0 => Reads!begins(l, p))
  <2>1. Len(l) \in Nat /\ (p = 0 \/ p \in 1 .. Len(l))
    BY <1>2 DEF IsNext
  <2>2. ASSUME p # 0, p # 1 PROVE p - 1 \in 1 .. p - 1
    BY <2>1, <2>2
  <2> QED BY <1>2, <2>1, <2>2 DEF IsNext, Reads!begins, Space
<1> DEFINE to == [k \in 1 .. 5 |-> Call(b, k).at]
           buf == [k \in 1 .. 5 |-> Call(b, k).buffer]
<1>4. /\ to[1] = p /\ Holds(buf[1], l) /\ (p = 0 => buf[1] = b)
      /\ p # 0 => Intact(buf[1], l, p) /\ Lead(buf[1], l, p)
  <2>1. Call(b, 1) = Reads!trimString(b, 1)
    BY SplitCalls
  <2>2. to[1] = Call(b, 1).at /\ buf[1] = Call(b, 1).buffer
    OBVIOUS
  <2> HIDE DEF to, buf
  <2> QED BY <1>2, <2>1, <2>2, Trim
<1>5. At(l, buf[1], to[1])
  BY <1>3, <1>4 DEF At
<1>6. ASSUME NEW k \in 1 .. 4
      PROVE  to[k+1] = Reads!getNextString(buf[k], to[k]).at
             /\ buf[k+1] = Reads!getNextString(buf[k], to[k]).buffer
  <2>1. Call(b, k+1) = Reads!getNextString(Call(b, k).buffer, Call(b, k).at)
    BY SplitCalls
  <2>2. /\ to[k] = Call(b, k).at /\ buf[k] = Call(b, k).buffer
        /\ to[k+1] = Call(b, k+1).at /\ buf[k+1] = Call(b, k+1).buffer
    OBVIOUS
  <2> HIDE DEF to, buf
  <2> QED BY <2>1, <2>2
<1> DEFINE Next4(k) == Goes(l, f, buf[k], to[k], buf[k+1], to[k+1])
<1> HIDE DEF to, buf
<1>7. ASSUME NEW k \in 1 .. 4, At(l, buf[k], to[k]) PROVE Next4(k)
  <2> DEFINE r == Reads!getNextString(buf[k], to[k])
  <2>1. Goes(l, f, buf[k], to[k], r.buffer, r.at)
    BY <1>1, <1>7, NextWord
  <2> QED BY <1>6, <2>1
<1>8. /\ 1 + 1 = 2 /\ 2 + 1 = 3 /\ 3 + 1 = 4 /\ 4 + 1 = 5
      /\ \A k \in 1 .. 4 : k \in {1, 2, 3, 4}
      /\ 1 \in 1 .. 4 /\ 2 \in 1 .. 4 /\ 3 \in 1 .. 4 /\ 4 \in 1 .. 4
  OBVIOUS
<1>9. /\ \A k \in 1 .. 4 : Next4(k)
      /\ \A k \in 1 .. 5 : to[k] \in 0 .. Len(l)
      /\ Holds(buf[5], l)
  <2>1. Next4(1) /\ At(l, buf[2], to[2])
    <3> HIDE DEF Next4
    <3>1. Next4(1)
      BY <1>5, <1>7, <1>8
    <3> QED BY <1>8, <3>1 DEF Next4, Goes
  <2>2. Next4(2) /\ At(l, buf[3], to[3])
    <3> HIDE DEF Next4
    <3>1. Next4(2)
      BY <1>7, <1>8, <2>1
    <3> QED BY <1>8, <3>1 DEF Next4, Goes
  <2>3. Next4(3) /\ At(l, buf[4], to[4])
    <3> HIDE DEF Next4
    <3>1. Next4(3)
      BY <1>7, <1>8, <2>2
    <3> QED BY <1>8, <3>1 DEF Next4, Goes
  <2>4. Next4(4) /\ At(l, buf[5], to[5])
    <3> HIDE DEF Next4
    <3>1. Next4(4)
      BY <1>7, <1>8, <2>3
    <3> QED BY <1>8, <3>1 DEF Next4, Goes
  <2>5. \A k \in 1 .. 5 : k \in {1, 2, 3, 4, 5}
    OBVIOUS
  <2> HIDE DEF Next4
  <2>6. \A k \in 1 .. 4 : Next4(k)
    BY <1>8, <2>1, <2>2, <2>3, <2>4
  <2>7. \A k \in 1 .. 5 : At(l, buf[k], to[k])
    BY <1>5, <2>1, <2>2, <2>3, <2>4, <2>5
  <2>8. 5 \in 1 .. 5
    OBVIOUS
  <2> QED BY <2>6, <2>7, <2>8 DEF At
<1>10. \A z \in Nat : \A w : \A k \in 1 .. 4 : IsCut(buf[k+1], l, z, w) => IsCut(buf[5], l, z, w)
  <2> TAKE z \in Nat
  <2> TAKE w
  <2>1. /\ IsCut(buf[2], l, z, w) => IsCut(buf[3], l, z, w)
        /\ IsCut(buf[3], l, z, w) => IsCut(buf[4], l, z, w)
        /\ IsCut(buf[4], l, z, w) => IsCut(buf[5], l, z, w)
    BY <1>8, <1>9 DEF Goes
  <2> QED BY <1>8, <2>1
<1>11. p # 0 => Lead(buf[5], l, p)
  <2> SUFFICES ASSUME p # 0 PROVE Lead(buf[5], l, p)
    OBVIOUS
  <2>1. Lead(buf[1], l, p) /\ p \in Nat /\ to[1] = p
    BY <1>3, <1>4
  <2>2. \A k \in 1 .. 4 : (to[k] # 0 => p <= to[k]) /\ Lead(buf[k], l, p)
                          => (to[k+1] # 0 => p <= to[k+1]) /\ Lead(buf[k+1], l, p)
    <3> TAKE k \in 1 .. 4
    <3> HAVE (to[k] # 0 => p <= to[k]) /\ Lead(buf[k], l, p)
    <3>1. Next4(k) /\ to[k] \in Nat /\ to[k+1] \in Nat
      <4>1. k \in 1 .. 5 /\ k + 1 \in 1 .. 5
        OBVIOUS
      <4> QED BY <1>3, <1>9, <4>1
    <3>2. Lead(buf[k+1], l, p)
      BY <2>1, <3>1 DEF Goes
    <3>3. to[k+1] # 0 => p <= to[k+1]
      <4>1. to[k+1] # 0 => to[k] < to[k+1] /\ to[k] # 0
        BY <3>1 DEF Goes
      <4> QED BY <2>1, <3>1, <4>1
    <3> QED BY <3>2, <3>3
  <2> QED BY <1>8, <2>1, <2>2
<1> DEFINE w == [k \in 1 .. 4 |-> Reads!string(buf[5], to[k])]
<1>12. ASSUME NEW k \in 1 .. 4, to[k] # 0
       PROVE  /\ w[k] \in Word /\ w[k] # <<>> /\ IsCut(buf[5], l, to[k], w[k])
              /\ From(f, to[k]) = <<w[k]>> \o From(f, to[k+1])
  <2>1. PICK x \in Word : x # <<>> /\ IsCut(buf[k+1], l, to[k], x)
                          /\ From(f, to[k]) = <<x>> \o From(f, to[k+1])
    BY <1>9, <1>12 DEF Goes
  <2>2. to[k] \in Nat /\ to[k] \in 1 .. Len(l)
    BY <1>3, <1>9, <1>12
  <2>3. IsCut(buf[5], l, to[k], x)
    BY <1>10, <2>1, <2>2
  <2>4. Reads!string(buf[5], to[k]) = x
    BY <1>9, <2>2, <2>3, StringIs
  <2>5. w[k] = x
    BY <2>4
  <2> QED BY <2>1, <2>3, <2>5
<1>13. W = From(f, to[1])
  BY <1>1, <1>2, <1>3, <1>4, FromNext
<1> DEFINE g == [k \in 1 .. 5 |-> From(f, to[k])]
<1>14. /\ \A k \in 1 .. 4 : IF to[k] = 0 THEN to[k+1] = 0 /\ g[k] = <<>>
                            ELSE w[k] \in Word /\ g[k] = <<w[k]>> \o g[k+1]
       /\ g[5] \in Seq(Word) /\ g[1] = W
  <2>1. \A k \in 1 .. 4 : k \in 1 .. 5 /\ k + 1 \in 1 .. 5
    OBVIOUS
  <2>2. ASSUME NEW k \in 1 .. 4
        PROVE  IF to[k] = 0 THEN to[k+1] = 0 /\ g[k] = <<>>
               ELSE w[k] \in Word /\ g[k] = <<w[k]>> \o g[k+1]
    <3> HIDE DEF w
    <3>1. g[k] = From(f, to[k]) /\ g[k+1] = From(f, to[k+1])
      BY <2>1
    <3> HIDE DEF g
    <3>2. CASE to[k] = 0
      BY <1>9, <3>1, <3>2 DEF From, Goes
    <3>3. CASE to[k] # 0
      BY <1>12, <3>1, <3>3
    <3> QED BY <3>2, <3>3
  <2>3. g[5] = From(f, to[5]) /\ g[1] = From(f, to[1]) /\ 5 \in 1 .. 5
    OBVIOUS
  <2>4. g[5] \in Seq(Word)
    <3>1. to[5] = 0 \/ to[5] \in 1 .. Len(l) + 1
      BY <1>3, <1>9, <2>3
    <3>2. \A k \in 1 .. Len(l) + 1 : f[k] \in Seq(Word)
      BY <1>1, FromSeq
    <3> HIDE DEF g
    <3> QED BY <2>3, <3>1, <3>2 DEF From
  <2> HIDE DEF g, w
  <2> QED BY <1>13, <2>2, <2>3, <2>4
<1> DEFINE given == {k \in 1 .. 4 : to[k] # 0}
           m == IF Len(W) < 4 THEN Len(W) ELSE 4
           v == [k \in given |-> w[k]]
<1>15. /\ v = SubSeq(W, 1, m) /\ v \in Seq(Word) /\ m \in 0 .. 4
       /\ given = 1 .. m /\ (to[1] = 0 <=> W = <<>>)
  <2> HIDE DEF w, g, W
  <2>1. g[1] = W /\ WordChain(to, w, g)
    BY <1>14 DEF WordChain
  <2>2. First(to, w, W)
    BY <2>1, FourWords
  <2> QED BY <2>2 DEF First
<1>16. s.buffer = buf[5] /\ s.words = v
  <2>1. \A k \in 1 .. 5 : to[k] = Call(b, k).at /\ buf[k] = Call(b, k).buffer
    BY DEF to, buf
  <2>2. /\ s.buffer = Call(b, 5).buffer
        /\ s.words = [k \in {j \in 1 .. 4 : Call(b, j).at # 0} |->
                           Reads!string(Call(b, 5).buffer, Call(b, k).at)]
    BY SplitCalls
  <2>3. given = {j \in 1 .. 4 : Call(b, j).at # 0} /\ buf[5] = Call(b, 5).buffer
    BY <2>1
  <2>4. v = [k \in given |-> Reads!string(buf[5], to[k])]
    OBVIOUS
  <2> HIDE DEF s, given
  <2> QED BY <2>1, <2>2, <2>3, <2>4
<1>17. s.words = Reads!first_four(W)
  <2> HIDE DEF s, v, W
  <2> QED BY <1>15, <1>16 DEF Reads!first_four
<1>18. Len(s.words) <= 4 /\ \A k \in DOMAIN s.words : s.words[k] # <<>>
  <2>1. DOMAIN v = given /\ \A k \in given : v[k] = w[k] /\ k \in 1 .. 4 /\ to[k] # 0
    OBVIOUS
  <2> HIDE DEF s, v, w, given, m
  <2>2. DOMAIN v = 1 .. Len(v) /\ Len(v) \in Nat
    BY <1>15
  <2>3. Len(v) <= 4
    BY <1>15, <2>1, <2>2
  <2> QED BY <1>12, <1>16, <2>1, <2>3
<1>19. Holds(s.buffer, l)
  BY <1>9, <1>16
<1> HIDE DEF s, v, w, given
<1>20. CASE p = 0
  <2>1. W = <<>> /\ m = 0
    BY <1>4, <1>15, <1>20
  <2>2. buf[5] = b
    <3>1. to[1] = 0 /\ to[2] = 0 /\ to[3] = 0 /\ to[4] = 0
      BY <1>4, <1>8, <1>9, <1>20 DEF Goes
    <3> QED BY <1>4, <1>8, <1>9, <1>20, <3>1 DEF Goes
  <2>3. s.words = <<>>
    BY <1>15, <1>16, <2>1
  <2> QED BY <1>16, <1>17, <1>18, <1>19, <1>15, <2>1, <2>2, <2>3 DEF s
<1>21. CASE p # 0
  <2>1. W # <<>> /\ to[1] # 0 /\ p \in 1 .. Len(l)
    BY <1>3, <1>4, <1>15, <1>21
  <2>2. W[1] = w[1]
    <3> DEFINE rest == From(f, to[2])
    <3>1. W = <<w[1]>> \o rest
      BY <1>8, <1>12, <1>13, <2>1
    <3>2. rest \in Seq(Word)
      <4>1. to[2] = 0 \/ to[2] \in 1 .. Len(l) + 1
        BY <1>3, <1>9
      <4> QED BY <1>1, <4>1, FromSeq DEF From
    <3>3. w[1] \in Word
      BY <1>8, <1>12, <2>1
    <3> HIDE DEF rest, W
    <3> QED BY <3>1, <3>2, <3>3, Cons
  <2>3. IsCut(s.buffer, l, p, W[1])
    BY <1>4, <1>8, <1>12, <1>16, <2>1, <2>2
  <2>4. Lead(s.buffer, l, p)
    BY <1>11, <1>16, <1>21
  <2> HIDE DEF W
  <2>5. /\ W # <<>>
        /\ \E z \in 1 .. Len(l) :
             IsNext(l, 1, z) /\ Lead(s.buffer, l, z) /\ IsCut(s.buffer, l, z, W[1])
    BY <1>2, <2>1, <2>3, <2>4
  <2> QED BY <1>16, <1>17, <1>18, <1>19, <1>15, <2>5 DEF s, W
<1> QED BY <1>20, <1>21

\* The same buffer again: the last command without its arguments.
LEMMA Again ==
  ASSUME Apart, NEW l \in Seq(Char), NEW b, Holds(b, l), NEW p \in 1 .. Len(l), IsNext(l, 1, p),
         Lead(b, l, p), NEW w, IsCut(b, l, p, w)
  PROVE  Reads!split(b).buffer = b /\ Reads!split(b).words = <<w>>
<1> DEFINE n == Len(l)
<1>1. n \in Nat /\ Len(b) = n + 1 /\ b \in Seq(Char \union {nul}) /\ DOMAIN b = 1 .. n + 1
  BY DEF Holds
<1>2. l[p] \notin Space /\ \A j \in 1 .. p - 1 : l[j] \in Space
  BY DEF IsNext
<1>3. PICK e : IsEnd(l, p, e) /\ b[e] = nul /\ w = SubSeq(l, p, e - 1)
  BY DEF IsCut
<1>4. e \in p + 1 .. n + 1
  BY <1>1, <1>2, <1>3 DEF IsEnd
<1>5. \A k \in p .. e - 1 : b[k] = l[k] /\ b[k] \in Char /\ b[k] \notin Space
  <2> TAKE k \in p .. e - 1
  <2>1. k \in 1 .. n /\ l[k] \notin Space
    BY <1>1, <1>3, <1>4 DEF IsEnd
  <2> QED BY <2>1, NotNul
<1>6. Reads!skip(b, 1, Space) = p
  <2>1. \A k \in 1 .. p - 1 : b[k] \in Space
    BY <1>2 DEF Lead
  <2>2. b[p] \notin Space /\ p \in 1 .. Len(b) /\ Len(b) \in Nat
    BY <1>1, <1>4, <1>5
  <2> QED BY <2>1, <2>2, SkipIs
<1>7. Reads!skip(b, p, Char \union Space) = e
  <2>1. b[e] \notin Char \union Space /\ e \in p .. Len(b) /\ Len(b) \in Nat /\ p \in Nat
    BY <1>1, <1>3, <1>4, NulIs
  <2> QED BY <1>5, <2>1, SkipIs
<1>8. Reads!skip(b, p, Reads!NoSpaces) = e
  <2>1. b[e] \notin Reads!NoSpaces
    BY <1>3, NulIs, SpaceIs
  <2>2. b[e] \notin Reads!NoSpaces /\ e \in p .. Len(b) /\ Len(b) \in Nat /\ p \in Nat
    BY <1>1, <1>4, <2>1
  <2>3. \A k \in p .. e - 1 : b[k] \in Reads!NoSpaces
    BY <1>5, SpaceIs
  <2> QED BY <2>2, <2>3, SkipIs
<1> DEFINE P(q) == (\A k \in q .. e - 1 : Reads!is_space(b[k]))
                   /\ (q > p + 1 => ~ Reads!is_space(b[q-1]))
           c == CHOOSE q \in p + 1 .. e : P(q)
           m == [k \in DOMAIN b |-> IF k \in c .. e - 1 THEN nul ELSE b[k]]
<1>9. b[p] # nul /\ (e - 1) + 1 = e
  <2>1. p \in p .. e - 1
    BY <1>4
  <2> QED BY <1>4, <1>5, <2>1, NulIs
<1>10. Reads!trimString(b, 1) = [at |-> p, buffer |-> m]
  BY Zenon, <1>6, <1>7, <1>9 DEF Reads!trimString, nul, Space
<1>11. c = e
  <2>1. P(e) /\ e \in p + 1 .. e
    <3>1. e > p + 1 => e - 1 \in p .. e - 1
      BY <1>4
    <3>2. \A k \in e .. e - 1 : FALSE
      BY <1>4
    <3>3. e \in p + 1 .. e
      BY <1>4
    <3> QED BY <1>5, <3>1, <3>2, <3>3 DEF Reads!is_space, Space, Reads!Spaces
  <2>2. ASSUME NEW q \in p + 1 .. e, P(q) PROVE q = e
    <3>1. q # e => e - 1 \in q .. e - 1 /\ e - 1 \in p .. e - 1
      BY <1>4
    <3> QED BY <1>5, <2>2, <3>1 DEF Reads!is_space, Space, Reads!Spaces
  <2> HIDE DEF P
  <2> QED BY <2>1, <2>2
<1> HIDE DEF c
<1>12. m = b
  <2>1. \A k \in DOMAIN b : ~ k \in e .. e - 1
    BY <1>1, <1>4
  <2>2. m = [k \in DOMAIN b |-> b[k]]
    BY <1>11, <2>1
  <2> QED BY <1>1, <2>2
<1> HIDE DEF m
<1>13. Call(b, 1) = [at |-> p, buffer |-> b]
  BY <1>10, <1>12, SplitCalls
<1>14. Call(b, 2) = [at |-> 0, buffer |-> b]
  <2>1. Reads!getNextString(b, p) = [at |-> 0, buffer |-> b]
    BY <1>3, <1>8, NoNextString
  <2>2. 1 \in 1 .. 4 /\ 1 + 1 = 2
    OBVIOUS
  <2>3. Call(b, 2) = Reads!getNextString(Call(b, 1).buffer, Call(b, 1).at)
    BY <2>2, SplitCalls
  <2> QED BY <1>13, <2>1, <2>3
<1>15. ASSUME NEW k \in 2 .. 4, Call(b, k) = [at |-> 0, buffer |-> b]
       PROVE  Call(b, k+1) = [at |-> 0, buffer |-> b]
  <2>1. k \in 1 .. 4
    OBVIOUS
  <2>2. Call(b, k+1) = Reads!getNextString(Call(b, k).buffer, Call(b, k).at)
    BY <2>1, SplitCalls
  <2>3. Reads!getNextString(b, 0) = [at |-> 0, buffer |-> b]
    BY NoNextString
  <2> QED BY <1>15, <2>2, <2>3
<1>16. 2 + 1 = 3 /\ 3 + 1 = 4 /\ 4 + 1 = 5 /\ 2 \in 2 .. 4 /\ 3 \in 2 .. 4 /\ 4 \in 2 .. 4
  OBVIOUS
<1>17. Call(b, 3) = [at |-> 0, buffer |-> b] /\ Call(b, 4) = [at |-> 0, buffer |-> b]
       /\ Call(b, 5) = [at |-> 0, buffer |-> b]
  <2>1. Call(b, 3) = [at |-> 0, buffer |-> b]
    BY <1>14, <1>15, <1>16
  <2>2. Call(b, 4) = [at |-> 0, buffer |-> b]
    BY <1>15, <1>16, <2>1
  <2> QED BY <1>15, <1>16, <2>1, <2>2
<1>18. {j \in 1 .. 4 : Call(b, j).at # 0} = 1 .. 1 /\ Call(b, 1).at = p
  <2>1. \A j \in 1 .. 4 : j \in {1, 2, 3, 4}
    OBVIOUS
  <2>2. Call(b, 1).at = p /\ Call(b, 2).at = 0 /\ Call(b, 3).at = 0 /\ Call(b, 4).at = 0 /\ p # 0
    BY <1>13, <1>14, <1>17
  <2> QED BY <2>1, <2>2
<1>19. Reads!string(b, p) = w
  BY StringIs
<1>20. /\ Reads!split(b).buffer = b
       /\ Reads!split(b).words = [k \in 1 .. 1 |-> Reads!string(b, Call(b, k).at)]
  BY <1>17, <1>18, SplitCalls
<1>21. [k \in 1 .. 1 |-> Reads!string(b, Call(b, k).at)] = <<w>>
  BY <1>18, <1>19
<1> QED BY <1>20, <1>21

\* What the buffer and the command are made of.
LineInv ==
  /\ l_ended \in BOOLEAN
  /\ \/ l_typed = <<>> /\ l_buffer = <<nul>> /\ l_cmd = <<>> /\ ~ l_ended
     \/ l_typed = <<>> /\ l_buffer = <<Reads!newline, nul>> /\ l_cmd = <<>>
     \/ /\ l_typed \in Line /\ l_typed # <<>>
        /\ l_buffer = Reads!split(l_typed \o <<nul>>).buffer
        /\ l_cmd = IF l_ended
                   THEN SubSeq(Reads!Words(l_typed), 1,
                           IF Reads!Words(l_typed) = <<>> THEN 0 ELSE 1)
                   ELSE Reads!split(l_typed \o <<nul>>).words

LEMMA Lines == Reads!LinesOfChars => Apart /\ Line \subseteq Seq(Char) /\ <<>> \in Line
BY DEF Reads!LinesOfChars, Apart, nul

LEMMA FirstOf ==
  ASSUME NEW U, NEW w \in Seq(U), w # <<>>, NEW n \in 1 .. Len(w)
  PROVE  /\ SubSeq(w, 1, 1) = <<w[1]>> /\ w[1] \in U
         /\ SubSeq(w, 1, n)[1] = w[1] /\ 1 \in DOMAIN SubSeq(w, 1, n)
<1>1. Len(w) \in Nat /\ Len(w) >= 1 /\ w[1] \in U
  OBVIOUS
<1>2. SubSeq(w, 1, 1) \in Seq(U) /\ Len(SubSeq(w, 1, 1)) = 1 /\ SubSeq(w, 1, 1)[1] = w[1]
  BY <1>1
<1>3. SubSeq(w, 1, n) \in Seq(U) /\ Len(SubSeq(w, 1, n)) = n /\ SubSeq(w, 1, n)[1] = w[1]
  BY <1>1
<1>4. SubSeq(w, 1, 1) = <<w[1]>>
  <2> DEFINE x == SubSeq(w, 1, 1)
             y == w[1]
  <2> HIDE DEF x, y
  <2>1. x \in Seq(U) /\ Len(x) = 1 /\ x[1] = y
    BY <1>2 DEF x, y
  <2>2. x = <<y>>
    BY <2>1
  <2> QED BY <2>2 DEF x, y
<1> QED BY <1>1, <1>3, <1>4

\* The buffer that a line leaves, and the one that it leaves when it is used again.
LEMMA SplitAgain ==
  ASSUME Apart, NEW l \in Seq(Char), l # <<>>
  PROVE  LET b == Reads!split(l \o <<nul>>).buffer
             w == Reads!Words(l)
         IN /\ Len(b) = Len(l) + 1 /\ Len(b) >= 2 /\ b[1] # Reads!newline
            /\ b \in Seq(Char \union {nul}) /\ b[Len(b)] = nul /\ b # <<nul>>
            /\ w \in Seq(Word)
            /\ Reads!split(b).buffer = b
            /\ Reads!split(b).words = SubSeq(w, 1, IF w = <<>> THEN 0 ELSE 1)
<1> DEFINE b == Reads!split(l \o <<nul>>).buffer
           w == Reads!Words(l)
           s == Reads!split(l \o <<nul>>).words
<1>1. /\ Holds(b, l)
      /\ \/ w = <<>> /\ s = <<>> /\ b = l \o <<nul>>
         \/ /\ w # <<>>
            /\ \E p \in 1 .. Len(l) : IsNext(l, 1, p) /\ Lead(b, l, p) /\ IsCut(b, l, p, w[1])
  BY SplitLine
<1>2. Len(l) \in Nat /\ Len(l) >= 1
  OBVIOUS
<1>3. w \in Seq(Word)
  <2>1. PICK f : IsFrom(f, l) /\ w = f[1]
    BY WordsFrom
  <2>2. 1 \in 1 .. Len(l) + 1
    BY <1>2
  <2> QED BY <2>1, <2>2, FromSeq
<1>4. Reads!split(b).buffer = b /\ Reads!split(b).words = SubSeq(w, 1, IF w = <<>> THEN 0 ELSE 1)
  <2>1. CASE w = <<>>
    <3>1. b = l \o <<nul>> /\ s = <<>>
      BY <1>1, <2>1
    <3>2. Reads!split(b).words = <<>>
      BY <3>1
    <3>3. Reads!split(b).buffer = b
      BY <3>1
    <3> HIDE DEF w, b
    <3>4. SubSeq(w, 1, 0) = <<>>
      BY <2>1
    <3> QED BY <2>1, <3>2, <3>3, <3>4
  <2>2. CASE w # <<>>
    <3> HIDE DEF w, b
    <3>1. PICK p \in 1 .. Len(l) : IsNext(l, 1, p) /\ Lead(b, l, p) /\ IsCut(b, l, p, w[1])
      BY <1>1, <2>2
    <3>2. Reads!split(b).buffer = b /\ Reads!split(b).words = <<w[1]>>
      BY <1>1, <3>1, Again
    <3>3. SubSeq(w, 1, 1) = <<w[1]>>
      <4>1. 1 \in 1 .. Len(w)
        BY <1>3, <2>2
      <4> QED BY <1>3, <2>2, <4>1, FirstOf
    <3> QED BY <2>2, <3>2, <3>3
  <2> QED BY <2>1, <2>2
<1> HIDE DEF b, w
<1>5. Len(b) = Len(l) + 1 /\ b \in Seq(Char \union {nul}) /\ b[Len(b)] = nul
  BY <1>1 DEF Holds
<1>6. b[1] # Reads!newline /\ b # <<nul>>
  <2>1. b[1] \in Char \union {nul}
    BY <1>2, <1>5
  <2>2. Reads!newline # nul
    BY DEF Reads!newline, nul, Reads!nul
  <2> QED BY <1>2, <1>5, <2>1, <2>2 DEF Apart
<1> QED BY <1>2, <1>3, <1>4, <1>5, <1>6 DEF b, w

LEMMA InitLine == Reads!Init => LineInv
BY DEF Reads!Init, LineInv, nul

LEMMA NextLine == ASSUME Reads!LinesOfChars, LineInv, [Reads!Next]_reading PROVE LineInv'
<1>1. Apart /\ Line \subseteq Seq(Char) /\ <<>> \in Line
  BY Lines
<1>2. CASE UNCHANGED reading
  <2>1. l_typed' = l_typed /\ l_ended' = l_ended /\ l_buffer' = l_buffer /\ l_cmd' = l_cmd
    BY <1>2 DEF reading
  <2> QED BY <2>1 DEF LineInv
<1>3. ASSUME NEW l \in Line, Reads!readLine(l) PROVE LineInv'
  <2>1. ~ l_ended /\ l_typed' = l /\ l_ended' = l_ended /\ l_ended \in BOOLEAN
    BY <1>3 DEF Reads!readLine, LineInv
  <2>2. CASE l = <<>>
    <3>1. l_buffer' = <<Reads!newline, nul>> /\ l_cmd' = <<>>
      BY <1>3, <2>2 DEF Reads!readLine, nul
    <3> QED BY <2>1, <2>2, <3>1 DEF LineInv
  <2>3. CASE l # <<>>
    <3>1. Reads!run_command(l \o <<nul>>)
      BY <1>3, <2>3 DEF Reads!readLine, nul
    <3>2. /\ l_buffer' = Reads!split(l \o <<nul>>).buffer
          /\ l_cmd' = Reads!split(l \o <<nul>>).words
      BY <3>1 DEF Reads!run_command
    <3> QED BY <2>1, <2>3, <3>2 DEF LineInv
  <2> QED BY <2>2, <2>3
<1>4. ASSUME Reads!end_of_input PROVE LineInv'
  <2>1. /\ l_buffer # <<nul>> /\ l_ended' = TRUE /\ l_typed' = l_typed
        /\ IF l_buffer[1] = Reads!newline THEN l_cmd' = <<>> /\ l_buffer' = l_buffer
           ELSE l_buffer' = Reads!split(l_buffer).buffer /\ l_cmd' = Reads!split(l_buffer).words
    BY <1>4 DEF Reads!end_of_input, Reads!run_command, nul
  <2>2. CASE l_typed = <<>> /\ l_buffer = <<Reads!newline, nul>>
    <3>1. l_buffer[1] = Reads!newline
      BY <2>2
    <3> QED BY <2>1, <2>2, <3>1 DEF LineInv
  <2>3. CASE l_typed \in Line /\ l_typed # <<>> /\ l_buffer = Reads!split(l_typed \o <<nul>>).buffer
    <3> DEFINE w == Reads!Words(l_typed)
    <3>1. /\ l_buffer[1] # Reads!newline /\ Reads!split(l_buffer).buffer = l_buffer
          /\ Reads!split(l_buffer).words = SubSeq(w, 1, IF w = <<>> THEN 0 ELSE 1)
      <4>1. l_typed \in Seq(Char)
        BY <1>1, <2>3
      <4> QED BY <1>1, <2>3, <4>1, SplitAgain
    <3>2. l_buffer' = l_buffer /\ l_cmd' = SubSeq(w, 1, IF w = <<>> THEN 0 ELSE 1)
      BY <2>1, <3>1
    <3> QED BY <2>1, <2>3, <3>2 DEF LineInv
  <2> QED BY <2>1, <2>2, <2>3 DEF LineInv
<1> QED BY <1>2, <1>3, <1>4 DEF Reads!Next

LEMMA LineMeans ==
  ASSUME Reads!LinesOfChars, LineInv PROVE Reads!TypeOK /\ CommandsAsTyped
<1> DEFINE w == Reads!Words(l_typed)
           m == IF w = <<>> THEN 0 ELSE 1
<1>1. Apart /\ l_typed \in Seq(Char) /\ l_typed \in Line
  BY Lines DEF LineInv
<1>2. CASE l_typed = <<>>
  <2>1. w = <<>>
    <3>1. PICK f : IsFrom(f, l_typed) /\ w = f[1]
      BY <1>1, WordsFrom
    <3>2. Len(l_typed) + 1 = 1
      BY <1>2
    <3> QED BY <3>1, <3>2 DEF IsFrom
  <2>2. /\ l_cmd = <<>> /\ l_buffer \in {<<nul>>, <<Reads!newline, nul>>} /\ l_ended \in BOOLEAN
    BY <1>2 DEF LineInv
  <2>3. SubSeq(w, 1, m) = <<>> /\ Reads!first_four(w) = <<>>
    <3> HIDE DEF w
    <3> QED BY <2>1 DEF Reads!first_four
  <2>4. CommandsAsTyped
    BY <2>2, <2>3 DEF CommandsAsTyped, Reads!CommandsAsTyped, Reads!LineCutIntoWords,
                      Reads!EndRepeatsCommand
  <2>5. l_buffer \in Seq(Char \union {nul, Reads!newline}) /\ l_buffer[Len(l_buffer)] = nul
    BY <2>2
  <2>6. Reads!TypeOK
    BY <1>1, <2>2, <2>5 DEF Reads!TypeOK, Reads!Last, nul
  <2> QED BY <2>4, <2>6
<1>3. CASE l_typed # <<>>
  <2> DEFINE s == Reads!split(l_typed \o <<nul>>).words
             b == Reads!split(l_typed \o <<nul>>).buffer
  <2>1. /\ s = Reads!first_four(w) /\ s \in Seq(Word) /\ Len(s) <= 4
        /\ \A k \in DOMAIN s : s[k] # <<>>
    BY <1>1, <1>3, SplitLine
  <2>2. /\ b \in Seq(Char \union {nul}) /\ b[Len(b)] = nul /\ w \in Seq(Word)
    BY <1>1, <1>3, SplitAgain
  <2>3. l_ended \in BOOLEAN /\ l_buffer = b /\ l_cmd = IF l_ended THEN SubSeq(w, 1, m) ELSE s
    BY <1>3 DEF LineInv
  <2>4. m \in 0 .. 1 /\ SubSeq(w, 1, m) \in Seq(Word) /\ Len(SubSeq(w, 1, m)) = m
        /\ \A k \in 1 .. m : SubSeq(w, 1, m)[k] = s[k] /\ k \in DOMAIN s
    <3> HIDE DEF w, s
    <3>1. CASE w = <<>>
      BY <3>1
    <3>2. CASE w # <<>>
      <4>1. Len(w) \in Nat /\ Len(w) >= 1 /\ m = 1
        BY <2>2, <3>2
      <4> DEFINE n == IF Len(w) < 4 THEN Len(w) ELSE 4
      <4>2. s = SubSeq(w, 1, n) /\ n \in 1 .. Len(w)
        BY <2>1, <4>1 DEF Reads!first_four
      <4> HIDE DEF n
      <4>3. /\ SubSeq(w, 1, 1) = <<w[1]>> /\ w[1] \in Word
            /\ SubSeq(w, 1, n)[1] = w[1] /\ 1 \in DOMAIN SubSeq(w, 1, n)
        BY <2>2, <3>2, <4>2, FirstOf
      <4>4. SubSeq(w, 1, 1)[1] = s[1] /\ 1 \in DOMAIN s
        BY <4>2, <4>3
      <4> QED BY <4>1, <4>3, <4>4
    <3> QED BY <3>1, <3>2
  <2>5. l_cmd \in Seq(Word) /\ Len(l_cmd) <= 4 /\ \A k \in DOMAIN l_cmd : l_cmd[k] # <<>>
    <3> HIDE DEF s, w, m
    <3>1. DOMAIN SubSeq(w, 1, m) = 1 .. m
      BY <2>4
    <3>2. CASE l_ended
      <4>1. l_cmd = SubSeq(w, 1, m)
        BY <2>3, <3>2
      <4>2. \A k \in 1 .. m : l_cmd[k] # <<>>
        BY <2>1, <2>4, <4>1
      <4>3. m <= 4
        BY <2>4
      <4> QED BY <2>4, <3>1, <4>1, <4>2, <4>3
    <3>3. CASE ~ l_ended
      BY <2>1, <2>3, <3>3
    <3> QED BY <3>2, <3>3
  <2>6. CommandsAsTyped
    <3> HIDE DEF s
    <3> QED BY <2>1, <2>3 DEF CommandsAsTyped, Reads!CommandsAsTyped, Reads!LineCutIntoWords,
                              Reads!EndRepeatsCommand
  <2>7. l_buffer \in Seq(Char \union {nul, Reads!newline}) /\ l_buffer[Len(l_buffer)] = nul
    <3> HIDE DEF b
    <3> QED BY <2>2, <2>3
  <2>8. Reads!TypeOK
    <3> HIDE DEF b, s, w
    <3> QED BY <1>1, <2>3, <2>5, <2>7 DEF Reads!TypeOK, Reads!Last, nul, Word
  <2> QED BY <2>6, <2>8
<1> QED BY <1>2, <1>3

-----------------------------------------------------------------------------
(* The command line: numbers.                                              *)

\* v is the first word of t, as far as its characters go.
Leads(v, t) ==
  /\ v \in Seq(Reads!NoSpaces) /\ t \in Seq(Char) /\ Len(v) <= Len(t)
  /\ \A k \in 1 .. Len(v) : t[k] = v[k]
  /\ Len(v) < Len(t) => t[Len(v) + 1] \in Space

\* The value of the first k digits of v, where they are in v.
Summed(S, v, base) ==
  \A k \in 1 .. Len(v) : S[k] = S[k-1] + Reads!digit[v[k]] * base^(Len(v) - k)

\* All of v is digits of the base, and there is one.
AllDigits(v, base) == v # <<>> /\ \A k \in 1 .. Len(v) : Reads!digit[v[k]] < base

M == 2^WIDTH
States == [state : {"reading", "end", "bad"}, ret : Nat, digits : Nat]

LEMMA DigitIs == ASSUME NEW c \in Char PROVE Reads!digit[c] \in 0 .. 16
BY DEF Reads!digit

LEMMA PowerIs ==
  ASSUME NEW base \in Nat, NEW n \in Nat, Reads!Powers(base, n)
  PROVE  /\ base^0 = 1
         /\ \A k \in 0 .. n : base^k \in Nat
         /\ \A k \in 1 .. n : base^(n - k + 1) = base * base^(n - k)
<1>1. base^0 = 1 /\ \A k \in 0 .. n - 1 : base^(k+1) = base * base^k
  BY DEF Reads!Powers
<1> DEFINE Bad == {k \in 0 .. n : base^k \notin Nat}
<1>2. Bad = {}
  <2> SUFFICES ASSUME Bad # {} PROVE FALSE
    OBVIOUS
  <2>1. PICK k \in Bad : \A j \in Bad : k <= j
    <3>1. Bad \subseteq Nat
      OBVIOUS
    <3> HIDE DEF Bad
    <3> QED BY <3>1, Least
  <2>2. k # 0 /\ k \in 0 .. n
    BY <1>1
  <2>3. k - 1 \in 0 .. n - 1 /\ k - 1 \in 0 .. n /\ (k - 1) + 1 = k /\ ~ (k <= k - 1)
    BY <2>2
  <2>4. base^(k-1) \in Nat
    BY <2>1, <2>3
  <2>5. base^k = base * base^(k-1)
    BY <1>1, <2>3
  <2>6. base * base^(k-1) \in Nat
    <3> DEFINE y == base^(k-1)
    <3> HIDE DEF y
    <3>1. y \in Nat
      BY <2>4 DEF y
    <3>2. base * y \in Nat
      BY <3>1
    <3> QED BY <3>2 DEF y
  <2> QED BY <2>1, <2>5, <2>6
<1>3. ASSUME NEW k \in 1 .. n PROVE base^(n - k + 1) = base * base^(n - k)
  <2>1. n - k \in 0 .. n - 1
    OBVIOUS
  <2> QED BY <1>1, <2>1
<1> QED BY <1>1, <1>2, <1>3

\* The turn over one character.
LEMMA ReadDigit ==
  ASSUME Reads!NumberWidth, NEW r \in States, NEW c \in Char, NEW base \in Nat
  PROVE  LET s == Reads!read_digit(r, c, base)
         IN /\ s \in States
            /\ r.state # "reading" => s = r
            /\ r.state = "reading" /\ c \in Space /\ r.digits # 0
                 => s.state = "end" /\ s.ret = r.ret /\ s.digits = r.digits
            /\ r.state = "reading" /\ c \in Space /\ r.digits = 0 => s.state = "bad"
            /\ r.state = "reading" /\ c \notin Space /\ Reads!digit[c] >= base => s.state = "bad"
            /\ r.state = "reading" /\ c \notin Space /\ Reads!digit[c] < base
                 => /\ s.state = "reading" /\ s.digits = r.digits + 1
                    /\ s.ret = (r.ret * base + Reads!digit[c]) % M
<1>1. M \in Nat \ {0}
  BY DEF Reads!NumberWidth, M
<1>2. Reads!digit[c] \in Nat
  BY DigitIs
<1>3. r.state \in {"reading", "end", "bad"} /\ r.ret \in Nat /\ r.digits \in Nat
  BY DEF States
<1> DEFINE s == Reads!read_digit(r, c, base)
           v == (r.ret * base + Reads!digit[c]) % M
<1>4. v \in Nat
  <2> DEFINE y == r.ret * base + Reads!digit[c]
  <2>1. y \in Int
    BY <1>2, <1>3
  <2> HIDE DEF y
  <2>2. y % M \in Nat
    BY <1>1, <2>1, DivMod
  <2> QED BY <2>2 DEF y
<1>5. r.state # "reading" => s = r
  BY DEF Reads!read_digit
<1>6. ASSUME r.state = "reading", c \in Space, r.digits # 0
      PROVE  s = [r EXCEPT !.state = "end"]
  BY <1>6 DEF Reads!read_digit, Reads!is_space, Space, Reads!Spaces
<1>7. ASSUME r.state = "reading", c \in Space, r.digits = 0
      PROVE  s = [r EXCEPT !.state = "bad"]
  BY <1>7 DEF Reads!read_digit, Reads!is_space, Space, Reads!Spaces
<1>8. ASSUME r.state = "reading", c \notin Space, Reads!digit[c] >= base
      PROVE  s = [r EXCEPT !.state = "bad"]
  BY <1>8 DEF Reads!read_digit, Reads!is_space, Space, Reads!Spaces
<1>9. ASSUME r.state = "reading", c \notin Space, Reads!digit[c] < base
      PROVE  s = [r EXCEPT !.ret = v, !.digits = r.digits + 1]
  <2>1. ~ (Reads!digit[c] >= base)
    BY <1>2, <1>9
  <2> QED BY <1>9, <2>1 DEF Reads!read_digit, Reads!is_space, Space, Reads!Spaces, M
<1> HIDE DEF s, v
<1>10. CASE r.state # "reading"
  BY <1>5, <1>10 DEF s
<1>11. CASE r.state = "reading" /\ c \in Space /\ r.digits # 0
  BY <1>6, <1>11, <1>3 DEF s, States
<1>12. CASE r.state = "reading" /\ c \in Space /\ r.digits = 0
  BY <1>7, <1>12, <1>3 DEF s, States
<1>13. CASE r.state = "reading" /\ c \notin Space /\ Reads!digit[c] >= base
  BY <1>2, <1>8, <1>13, <1>3 DEF s, States
<1>14. CASE r.state = "reading" /\ c \notin Space /\ Reads!digit[c] < base
  <2> DEFINE n == r.digits + 1
  <2>1. s = [r EXCEPT !.ret = v, !.digits = n] /\ n \in Nat
    BY <1>3, <1>9, <1>14
  <2> HIDE DEF n
  <2>2. s.state = r.state /\ s.digits = n /\ s.ret = v /\ s \in States
    BY <1>4, <2>1 DEF States
  <2>3. ~ (Reads!digit[c] >= base)
    BY <1>2, <1>14
  <2> QED BY <1>14, <2>3, <2>2 DEF s, v, n
<1>15. Reads!digit[c] >= base \/ Reads!digit[c] < base
  BY <1>2
<1> QED BY <1>10, <1>11, <1>12, <1>13, <1>14, <1>15

\* What the loop has when it has seen k of the digits of v: their value, which
\* counts for the digits that are to come; or an end, or that there is no number.
Reading(r, k, v, base, S) ==
  /\ r.state = "reading" /\ r.digits = k /\ \A j \in 1 .. k : Reads!digit[v[j]] < base
  /\ \E x \in Nat : r.ret = x % M /\ S[k] = x * base^(Len(v) - k)
Ended(r, v, base, S) ==
  r.state = "end" /\ AllDigits(v, base) /\ r.digits = Len(v) /\ r.ret = S[Len(v)] % M
Refused(r, v, base) == r.state = "bad" /\ ~ AllDigits(v, base)

ReadSoFar(r, k, v, base, S) ==
  \/ k <= Len(v) /\ Reading(r, k, v, base, S)
  \/ k > Len(v) /\ Ended(r, v, base, S)
  \/ Refused(r, v, base)

\* A digit is read: the value so far moves up one place.
LEMMA DigitRead ==
  ASSUME Reads!NumberWidth, NEW base \in Nat, NEW v, NEW t, Leads(v, t),
         Reads!Powers(base, Len(v)), NEW S, Summed(S, v, base),
         NEW k \in 1 .. Len(v), NEW r \in States, Reading(r, k - 1, v, base, S)
  PROVE  ReadSoFar(Reads!read_digit(r, t[k], base), k, v, base, S)
<1> DEFINE s == Reads!read_digit(r, t[k], base)
           c == Reads!digit[v[k]]
<1>1. Len(v) \in Nat /\ v[k] \in Char /\ v[k] \notin Space /\ t[k] = v[k]
  BY DEF Leads, Reads!NoSpaces, Space
<1>2. r.state = "reading" /\ r.digits = k - 1 /\ \A j \in 1 .. k - 1 : Reads!digit[v[j]] < base
  BY DEF Reading
<1>3. c \in Nat
  BY <1>1, DigitIs, SMTT(20)
<1>4. CASE c >= base
  <2>1. s.state = "bad"
    BY <1>1, <1>2, <1>4, ReadDigit
  <2>2. ~ AllDigits(v, base)
    BY <1>3, <1>4 DEF AllDigits
  <2> QED BY <2>1, <2>2 DEF ReadSoFar, Refused
<1>5. CASE c < base
  <2>1. s.state = "reading" /\ s.digits = k /\ s.ret = (r.ret * base + c) % M
    BY <1>1, <1>2, <1>5, ReadDigit
  <2>2. \A j \in 1 .. k : Reads!digit[v[j]] < base
    BY <1>2, <1>5
  <2>3. PICK x \in Nat : r.ret = x % M /\ S[k-1] = x * base^(Len(v) - (k - 1))
    BY DEF Reading
  <2> DEFINE p == base^(Len(v) - k)
  <2>4. p \in Nat /\ base^(Len(v) - (k - 1)) = base * p
    <3>1. Len(v) - (k - 1) = Len(v) - k + 1 /\ Len(v) - k \in 0 .. Len(v)
      BY <1>1
    <3> QED BY <1>1, <3>1, PowerIs, ZenonT(40)
  <2>5. S[k] = S[k-1] + c * p
    BY DEF Summed
  <2> HIDE DEF s, c, p
  <2>6. S[k] = (x * base + c) * p
    <3>1. S[k] = x * (base * p) + c * p
      BY <2>3, <2>4, <2>5
    <3> QED BY <1>3, <2>4, <3>1
  <2>7. x * base + c \in Nat
    BY <1>3
  <2>8. s.ret = (x * base + c) % M
    <3>1. M \in Nat \ {0}
      BY DEF Reads!NumberWidth, M
    <3>2. ((x % M) * base + c) % M = (x * base + c) % M
      BY <1>3, <3>1, ModHorner, ZenonT(40)
    <3>3. s.ret = ((x % M) * base + c) % M
      BY <2>1, <2>3
    <3> QED BY <3>2, <3>3
  <2>9. Reading(s, k, v, base, S)
    BY <2>1, <2>2, <2>6, <2>7, <2>8 DEF Reading, p
  <2> QED BY <2>9 DEF ReadSoFar, s
<1>6. c >= base \/ c < base
  BY <1>3
<1> QED BY <1>4, <1>5, <1>6

\* Behind the word is a space: the number ends, unless it has no digit.
LEMMA SpaceRead ==
  ASSUME Reads!NumberWidth, NEW base \in Nat, NEW v, NEW t, Leads(v, t),
         Reads!Powers(base, Len(v)), NEW S,
         Len(v) < Len(t), NEW r \in States, Reading(r, Len(v), v, base, S)
  PROVE  ReadSoFar(Reads!read_digit(r, t[Len(v) + 1], base), Len(v) + 1, v, base, S)
<1> DEFINE n == Len(v)
           s == Reads!read_digit(r, t[n+1], base)
<1>1. n \in Nat /\ t[n+1] \in Char /\ t[n+1] \in Space
  <2>1. n \in Nat /\ t \in Seq(Char) /\ n + 1 \in 1 .. Len(t)
    BY DEF Leads
  <2> QED BY <2>1 DEF Leads
<1>2. /\ r.state = "reading" /\ r.digits = n /\ \A j \in 1 .. n : Reads!digit[v[j]] < base
  BY DEF Reading
<1>3. PICK x \in Nat : r.ret = x % M /\ S[n] = x * base^(n - n)
  BY DEF Reading
<1>4. S[n] = x
  <2>1. n - n = 0 /\ base^0 = 1
    BY <1>1, PowerIs
  <2> QED BY <1>3, <2>1
<1>5. CASE n = 0
  <2>1. v = <<>>
    BY <1>5 DEF Leads
  <2>2. s.state = "bad"
    BY <1>1, <1>2, <1>5, ReadDigit
  <2> QED BY <2>1, <2>2 DEF ReadSoFar, Refused, AllDigits
<1>6. CASE n # 0
  <2>1. v # <<>>
    BY <1>6
  <2>2. s.state = "end" /\ s.ret = r.ret /\ s.digits = r.digits
    BY <1>1, <1>2, <1>6, ReadDigit
  <2> HIDE DEF s
  <2>3. Ended(s, v, base, S)
    BY <1>2, <1>3, <1>4, <2>1, <2>2 DEF Ended, AllDigits
  <2> QED BY <1>1, <2>3 DEF ReadSoFar, s
<1> QED BY <1>5, <1>6

\* What the loop over the characters of t comes to.
LEMMA DigitsRead ==
  ASSUME Reads!NumberWidth, NEW base \in Nat, NEW v, NEW t, Leads(v, t),
         Reads!Powers(base, Len(v)), NEW S, Summed(S, v, base), S[0] = 0
  PROVE  LET r == Reads!read_digits(t, base)
         IN IF AllDigits(v, base) THEN r.state # "bad" /\ r.digits # 0 /\ r.ret = S[Len(v)] % M
            ELSE r.state = "bad" \/ r.digits = 0
<1> DEFINE n == Len(t)
           turn(r, x) == Reads!read_digit(r, x, base)
           b == [state |-> "reading", ret |-> 0, digits |-> 0]
           Is(g) == g = [k \in 0 .. n |-> IF k = 0 THEN b ELSE turn(g[k-1], t[k])]
           turns == CHOOSE g : Is(g)
           h == [k \in 1 .. n |-> [r \in States |-> turn(r, t[k])]]
<1>1. Reads!read_digits(t, base) = turns[n]
  BY DEF Reads!read_digits
<1>2. /\ n \in Nat /\ Len(v) \in Nat /\ Len(v) <= n
      /\ \A k \in 1 .. n : t[k] \in Char
  BY DEF Leads
<1>3. b \in States
  BY DEF States
<1>4. \A r \in States, k \in 1 .. n : turn(r, t[k]) \in States
  BY <1>2, ReadDigit
<1> HIDE DEF n, turns, b
<1>5. \A k \in 1 .. n : \A r \in States : h[k][r] = turn(r, t[k]) /\ h[k][r] \in States
  <2> HIDE DEF turn
  <2> QED BY <1>4
<1>6. PICK g : Iterates(g, h, b, n)
  BY <1>2, IteratesExist
<1> HIDE DEF h, turn
<1>7. \A k \in 0 .. n : g[k] \in States
  BY <1>2, <1>3, <1>5, <1>6, IteratesIn
<1>8. Is(g)
  <2>1. \A k \in 0 .. n : g[k] = (IF k = 0 THEN b ELSE turn(g[k-1], t[k]))
    <3> TAKE k \in 0 .. n
    <3>1. CASE k = 0
      BY <1>2, <1>6, <3>1, IteratesAt
    <3>2. CASE k # 0
      <4>1. k \in 1 .. n /\ k - 1 \in 0 .. n
        BY <1>2, <3>2
      <4>2. g[k] = h[k][g[k-1]] /\ g[k-1] \in States
        BY <1>2, <1>6, <1>7, <4>1, IteratesAt
      <4> QED BY <1>5, <3>2, <4>1, <4>2
    <3> QED BY <3>1, <3>2
  <2>2. g = [k \in 0 .. n |-> g[k]]
    BY <1>6 DEF Iterates
  <2> QED BY <2>1, <2>2
<1>9. Is(turns)
  <2> HIDE DEF Is
  <2> QED BY <1>8 DEF turns
<1>10. \A k \in 0 .. n : turns[k] = (IF k = 0 THEN b ELSE turn(turns[k-1], t[k]))
  BY <1>9
<1> HIDE DEF Is
<1> DEFINE Good(k) == turns[k] \in States /\ ReadSoFar(turns[k], k, v, base, S)
           Bad == {k \in 0 .. n : ~ Good(k)}
<1>11. Good(0)
  <2>1. turns[0] = b
    BY <1>2, <1>10
  <2>2. b.state = "reading" /\ b.ret = 0 /\ b.digits = 0
    BY DEF b
  <2>3. 0 % M = 0
    <3>1. M \in Nat \ {0}
      BY DEF Reads!NumberWidth, M
    <3> QED BY <3>1, ModIs
  <2>4. base^(Len(v) - 0) \in Nat
    <3>1. Len(v) - 0 \in 0 .. Len(v)
      BY <1>2
    <3> QED BY <1>2, <3>1, PowerIs
  <2>5. S[0] = 0 * base^(Len(v) - 0)
    <3> DEFINE p == base^(Len(v) - 0)
    <3> HIDE DEF p
    <3>1. p \in Nat
      BY <2>4 DEF p
    <3>2. 0 * p = 0
      BY <3>1
    <3> QED BY <3>2 DEF p
  <2>6. Reading(b, 0, v, base, S)
    BY <2>2, <2>3, <2>5 DEF Reading
  <2> QED BY <1>2, <1>3, <2>1, <2>6 DEF ReadSoFar
<1>12. ASSUME NEW k \in 1 .. n, Good(k - 1) PROVE Good(k)
  <2>1. turns[k] = Reads!read_digit(turns[k-1], t[k], base) /\ turns[k-1] \in States
    BY <1>2, <1>10, <1>12 DEF turn
  <2>2. turns[k] \in States
    BY <1>2, <2>1, ReadDigit
  <2>3. CASE Reading(turns[k-1], k - 1, v, base, S) /\ k - 1 < Len(v)
    <3>1. k \in 1 .. Len(v)
      BY <1>2, <2>3
    <3>2. ReadSoFar(turns[k], k, v, base, S)
      BY <2>1, <2>3, <3>1, DigitRead
    <3> QED BY <2>2, <3>2
  <2>4. CASE Reading(turns[k-1], k - 1, v, base, S) /\ k - 1 = Len(v)
    <3>1. k = Len(v) + 1 /\ Len(v) < Len(t)
      BY <1>2, <2>4 DEF n
    <3>2. Reading(turns[k-1], Len(v), v, base, S)
      BY <2>4
    <3>3. ReadSoFar(Reads!read_digit(turns[k-1], t[Len(v) + 1], base), Len(v) + 1, v, base, S)
      BY <2>1, <3>1, <3>2, SpaceRead
    <3> QED BY <2>1, <2>2, <3>1, <3>3
  <2>5. CASE Ended(turns[k-1], v, base, S) /\ k - 1 > Len(v)
    <3>1. turns[k] = turns[k-1]
      <4>1. turns[k-1].state # "reading"
        BY <2>5 DEF Ended
      <4> QED BY <1>2, <2>1, <4>1, ReadDigit
    <3>2. k > Len(v)
      BY <1>2, <2>5
    <3> QED BY <2>2, <2>5, <3>1, <3>2 DEF ReadSoFar
  <2>6. CASE Refused(turns[k-1], v, base)
    <3>1. turns[k] = turns[k-1]
      <4>1. turns[k-1].state # "reading"
        BY <2>6 DEF Refused
      <4> QED BY <1>2, <2>1, <4>1, ReadDigit
    <3> QED BY <2>2, <2>6, <3>1 DEF ReadSoFar
  <2>7. k - 1 <= Len(v) => k - 1 < Len(v) \/ k - 1 = Len(v)
    BY <1>2
  <2> QED BY <1>12, <2>3, <2>4, <2>5, <2>6, <2>7 DEF ReadSoFar
<1>13. Bad = {}
  <2> SUFFICES ASSUME Bad # {} PROVE FALSE
    OBVIOUS
  <2>1. PICK k \in Bad : \A j \in Bad : k <= j
    <3>1. Bad \subseteq Nat
      OBVIOUS
    <3> HIDE DEF Bad
    <3> QED BY <3>1, Least
  <2>2. k \in 0 .. n /\ ~ Good(k)
    OBVIOUS
  <2> HIDE DEF Good
  <2>3. k # 0
    BY <1>11, <2>2
  <2>4. k \in 1 .. n /\ k - 1 \in 0 .. n /\ ~ (k <= k - 1)
    BY <1>2, <2>2, <2>3
  <2>5. Good(k - 1)
    BY <2>1, <2>4
  <2> QED BY <1>12, <2>2, <2>4, <2>5
<1>14. Good(n)
  <2>1. n \in 0 .. n
    BY <1>2
  <2> HIDE DEF Good
  <2> QED BY <1>13, <2>1
<1> DEFINE r == turns[n]
<1> HIDE DEF r
<1>15. r \in States /\ ReadSoFar(r, n, v, base, S)
  BY <1>14 DEF r
<1>16. IF AllDigits(v, base) THEN r.state # "bad" /\ r.digits # 0 /\ r.ret = S[Len(v)] % M
       ELSE r.state = "bad" \/ r.digits = 0
  <2>1. v # <<>> <=> Len(v) # 0
    BY DEF Leads
  <2>2. CASE n <= Len(v) /\ Reading(r, n, v, base, S)
    <3>1. n = Len(v)
      BY <1>2, <2>2
    <3>2. /\ r.state = "reading" /\ r.digits = Len(v)
          /\ \A j \in 1 .. Len(v) : Reads!digit[v[j]] < base
      BY <2>2, <3>1 DEF Reading
    <3>3. PICK x \in Nat : r.ret = x % M /\ S[n] = x * base^(n - n)
      BY <2>2, <3>1 DEF Reading
    <3>4. S[n] = x
      <4>1. n - n = 0 /\ base^0 = 1
        BY <1>2, PowerIs
      <4> QED BY <3>3, <4>1
    <3> QED BY <2>1, <3>1, <3>2, <3>3, <3>4 DEF AllDigits
  <2>3. CASE Ended(r, v, base, S)
    BY <2>1, <2>3 DEF Ended, AllDigits
  <2>4. CASE Refused(r, v, base)
    BY <2>4 DEF Refused
  <2> QED BY <1>15, <2>2, <2>3, <2>4 DEF ReadSoFar
<1> QED BY <1>1, <1>16 DEF r

LEMMA Behind ==
  ASSUME NEW U, NEW s \in Seq(U), Len(s) >= 2
  PROVE  LET c == SubSeq(s, 3, Len(s))
         IN c \in Seq(U) /\ Len(c) = Len(s) - 2 /\ \A k \in 1 .. Len(s) - 2 : c[k] = s[k+2]
<1> DEFINE n == Len(s)
           c == SubSeq(s, 3, n)
<1>1. n \in Nat /\ n >= 2 /\ \A k \in 1 .. n : s[k] \in U
  OBVIOUS
<1>2. c = [k \in 1 .. n - 2 |-> s[k+2]]
  <2>1. c = [k \in 1 .. n - 2 |-> s[3 + k - 1]]
    BY <1>1
  <2>2. \A k \in 1 .. n - 2 : 3 + k - 1 = k + 2
    BY <1>1
  <2> HIDE DEF c, n
  <2> QED BY <2>1, <2>2
<1>3. c \in [1 .. n - 2 -> U]
  <2>1. \A k \in 1 .. n - 2 : k + 2 \in 1 .. n
    BY <1>1
  <2> HIDE DEF c, n
  <2> QED BY <1>1, <1>2, <2>1
<1>4. n - 2 \in Nat
  BY <1>1
<1>5. c \in Seq(U) /\ Len(c) = n - 2
  <2> HIDE DEF c, n
  <2> QED BY <1>3, <1>4
<1> QED BY <1>2, <1>5

\* A prefix is one of the word, and behind it is the rest of the word.
LEMMA PrefixOfWord ==
  ASSUME NEW v, NEW t, Leads(v, t), v # <<>>
  PROVE  /\ Reads!is_hex(t) <=> Reads!is_hex(v)
         /\ Leads(Reads!after_prefix(v), Reads!after_prefix(t))
         /\ Len(Reads!after_prefix(v)) = IF Reads!is_hex(v) THEN Len(v) - 2 ELSE Len(v)
<1>1. Len(v) \in Nat /\ Len(t) \in Nat /\ Len(v) >= 1 /\ Len(v) <= Len(t)
  BY DEF Leads
<1>2. \A k \in 1 .. Len(v) : t[k] = v[k]
  BY DEF Leads
<1>3. t[1] = v[1]
  BY <1>1, <1>2
<1>4. ASSUME Len(v) >= 2 PROVE t[2] = v[2]
  BY <1>1, <1>2, <1>4
<1>5. ASSUME Len(v) = 1, Len(t) >= 2 PROVE t[2] \notin {"x", "X"}
  <2>1. t[2] \in Space
    BY <1>1, <1>5 DEF Leads
  <2> QED BY <2>1, SpaceIs
<1>6. Reads!is_hex(t) <=> Reads!is_hex(v)
  <2>1. CASE Len(v) = 1
    <3>1. ~ Reads!is_hex(v)
      BY <2>1 DEF Reads!is_hex
    <3>2. ~ Reads!is_hex(t)
      BY <1>5, <2>1 DEF Reads!is_hex
    <3> QED BY <3>1, <3>2
  <2>2. CASE Len(v) >= 2
    <3>1. Len(t) >= 2
      BY <1>1, <2>2
    <3> QED BY <1>3, <1>4, <2>2, <3>1 DEF Reads!is_hex
  <2>3. Len(v) = 1 \/ Len(v) >= 2
    <3>1. \A n \in Nat : n >= 1 => n = 1 \/ n >= 2
      OBVIOUS
    <3> QED BY <1>1, <3>1
  <2> QED BY <2>1, <2>2, <2>3
<1>7. CASE ~ Reads!is_hex(v)
  BY <1>6, <1>7 DEF Reads!after_prefix
<1>8. CASE Reads!is_hex(v)
  <2> DEFINE a == SubSeq(v, 3, Len(v))
             c == SubSeq(t, 3, Len(t))
  <2>1. Len(v) >= 2 /\ Reads!after_prefix(v) = a /\ Reads!after_prefix(t) = c
    BY <1>6, <1>8 DEF Reads!after_prefix, Reads!is_hex
  <2>2. v \in Seq(Reads!NoSpaces) /\ t \in Seq(Char)
    BY DEF Leads
  <2>3. a \in Seq(Reads!NoSpaces) /\ Len(a) = Len(v) - 2 /\ \A k \in 1 .. Len(v) - 2 : a[k] = v[k+2]
    BY <2>1, <2>2, Behind
  <2>4. c \in Seq(Char) /\ Len(c) = Len(t) - 2 /\ \A k \in 1 .. Len(t) - 2 : c[k] = t[k+2]
    <3>1. Len(t) >= 2
      BY <1>1, <2>1
    <3> QED BY <2>2, <3>1, Behind
  <2> HIDE DEF a, c
  <2>5. ASSUME NEW k \in 1 .. Len(a) PROVE c[k] = a[k]
    <3>1. k + 2 \in 1 .. Len(v) /\ k \in 1 .. Len(t) - 2 /\ k \in 1 .. Len(v) - 2
      BY <1>1, <2>1, <2>3
    <3>2. t[k+2] = v[k+2]
      BY <1>2, <3>1
    <3> QED BY <2>3, <2>4, <3>1, <3>2
  <2>6. ASSUME Len(a) < Len(c) PROVE c[Len(a) + 1] \in Space
    <3>1. Len(v) < Len(t) /\ Len(a) + 1 \in 1 .. Len(t) - 2 /\ (Len(a) + 1) + 2 = Len(v) + 1
      BY <1>1, <2>1, <2>3, <2>4, <2>6
    <3>2. t[Len(v) + 1] \in Space
      BY <3>1 DEF Leads
    <3> QED BY <2>4, <3>1, <3>2
  <2>7. Len(a) <= Len(c)
    BY <1>1, <2>3, <2>4
  <2>8. Leads(a, c)
    BY <2>3, <2>4, <2>5, <2>6, <2>7 DEF Leads
  <2> QED BY <1>6, <1>8, <2>1, <2>3, <2>8
<1> QED BY <1>7, <1>8

\* The value of a word is the sum of its digits.
LEMMA ValueIs ==
  ASSUME NEW v, Reads!after_prefix(v) \in Seq(Char),
         Reads!Powers(Reads!base_of(v), Len(Reads!after_prefix(v)))
  PROVE  \E S : /\ Summed(S, Reads!after_prefix(v), Reads!base_of(v)) /\ S[0] = 0
                /\ Reads!ValueOf(v) = S[Len(Reads!after_prefix(v))] % M
<1> DEFINE d == Reads!after_prefix(v)
           n == Len(d)
           base == Reads!base_of(v)
           add(k, x) == x + Reads!digit[d[k]] * base^(n - k)
           Is(g) == g = [k \in 0 .. n |-> IF k = 0 THEN 0 ELSE add(k, g[k-1])]
           S == CHOOSE g : Is(g)
           h == [k \in 1 .. n |-> [x \in Int |-> add(k, x)]]
<1>1. Reads!ValueOf(v) = S[n] % M
  BY DEF Reads!ValueOf, Reads!Digits, M
<1>2. n \in Nat /\ base \in Nat /\ \A k \in 1 .. n : d[k] \in Char
  BY DEF Reads!base_of
<1>3. \A x \in Int, k \in 1 .. n : add(k, x) \in Int
  <2> TAKE x \in Int, k \in 1 .. n
  <2> DEFINE y == Reads!digit[d[k]]
             p == base^(n - k)
  <2>1. y \in Int
    BY <1>2, DigitIs, SMTT(20)
  <2>2. p \in Int
    <3>1. n - k \in 0 .. n
      BY <1>2
    <3> QED BY <1>2, <3>1, PowerIs
  <2> HIDE DEF y, p
  <2>3. x + y * p \in Int
    BY <2>1, <2>2
  <2> QED BY <2>3 DEF y, p
<1> HIDE DEF d, n, base, S
<1>4. \A k \in 1 .. n : \A x \in Int : h[k][x] = add(k, x) /\ h[k][x] \in Int
  <2> HIDE DEF add
  <2> QED BY <1>3
<1>5. PICK g : Iterates(g, h, 0, n)
  BY <1>2, IteratesExist
<1> HIDE DEF h, add
<1>6. \A k \in 0 .. n : g[k] \in Int
  <2>1. 0 \in Int
    OBVIOUS
  <2> QED BY <1>2, <1>4, <1>5, <2>1, IteratesIn
<1>7. Is(g)
  <2>1. \A k \in 0 .. n : g[k] = (IF k = 0 THEN 0 ELSE add(k, g[k-1]))
    <3> TAKE k \in 0 .. n
    <3>1. CASE k = 0
      BY <1>2, <1>5, <3>1, IteratesAt
    <3>2. CASE k # 0
      <4>1. k \in 1 .. n /\ k - 1 \in 0 .. n
        BY <1>2, <3>2
      <4>2. g[k] = h[k][g[k-1]] /\ g[k-1] \in Int
        BY <1>2, <1>5, <1>6, <4>1, IteratesAt
      <4> QED BY <1>4, <3>2, <4>1, <4>2
    <3> QED BY <3>1, <3>2
  <2>2. g = [k \in 0 .. n |-> g[k]]
    BY <1>5 DEF Iterates
  <2> QED BY <2>1, <2>2
<1>8. Is(S)
  <2> HIDE DEF Is
  <2> QED BY <1>7 DEF S
<1>9. \A k \in 0 .. n : S[k] = (IF k = 0 THEN 0 ELSE add(k, S[k-1]))
  BY <1>8
<1> HIDE DEF Is
<1>10. S[0] = 0
  BY <1>2, <1>9
<1>11. \A k \in 1 .. n : S[k] = add(k, S[k-1])
  BY <1>2, <1>9
<1>12. Summed(S, d, base)
  BY <1>11 DEF Summed, add, n
<1> QED BY <1>1, <1>10, <1>12 DEF d, n, base

\* A line, and the word it starts with, if there is one.
LEMMA LineStarts ==
  ASSUME Reads!LinesOfChars, NEW l \in Line
  PROVE  LET t == Reads!unspaced(l)
             w == Reads!Words(l)
         IN \/ t = <<>> /\ w = <<>>
            \/ t # <<>> /\ w # <<>> /\ Leads(w[1], t) /\ w[1] # <<>> /\ Len(w[1]) <= Len(l)
<1> DEFINE t == Reads!unspaced(l)
           w == Reads!Words(l)
<1>1. Apart /\ l \in Seq(Char) /\ Len(l) \in Nat /\ 1 \in 1 .. Len(l) + 1
  BY Lines
<1>2. PICK f : IsFrom(f, l) /\ w = f[1]
  BY <1>1, WordsFrom
<1>3. PICK p : IsNext(l, 1, p)
  BY <1>1, SomeNext
<1>4. w = From(f, p)
  BY <1>1, <1>2, <1>3, FromNext
<1> DEFINE b == l \o <<nul>>
<1>5. Len(b) = Len(l) + 1 /\ b[Len(l) + 1] = nul /\ (\A k \in 1 .. Len(l) : b[k] = l[k])
      /\ nul \notin Space
  BY <1>1, NulIs
<1>6. t = SubSeq(l, Reads!skip(b, 1, Space), Len(l))
  BY DEF Reads!unspaced, nul, Space
<1> HIDE DEF b, t, w
<1>7. CASE p = 0
  <2>1. \A k \in 1 .. Len(l) : l[k] \in Space
    BY <1>1, <1>3, <1>7 DEF IsNext
  <2>2. Reads!skip(b, 1, Space) = Len(l) + 1
    <3> DEFINE q == Len(l) + 1
    <3>1. q \in 1 .. Len(b) /\ b[q] \notin Space /\ \A k \in 1 .. q - 1 : b[k] \in Space
      BY <1>1, <1>5, <2>1
    <3> HIDE DEF q
    <3>2. Reads!skip(b, 1, Space) = q
      BY <1>1, <1>5, <3>1, SkipIs
    <3> QED BY <3>2 DEF q
  <2>3. t = <<>>
    BY <1>1, <1>6, <2>2
  <2> QED BY <1>4, <1>7, <2>3 DEF From, t, w
<1>8. CASE p # 0
  <2>1. p \in 1 .. Len(l) /\ l[p] \notin Space /\ \A k \in 1 .. p - 1 : l[k] \in Space
    BY <1>3, <1>8 DEF IsNext
  <2>2. Reads!skip(b, 1, Space) = p
    <3>1. p \in 1 .. Len(b) /\ b[p] \notin Space /\ \A k \in 1 .. p - 1 : b[k] \in Space
      BY <1>1, <1>5, <2>1
    <3> QED BY <1>1, <1>5, <3>1, SkipIs
  <2>3. t = SubSeq(l, p, Len(l))
    BY <1>6, <2>2
  <2>4. Reads!begins(l, p)
    BY <1>1, <2>1 DEF Reads!begins, Space
  <2>5. PICK e : IsEnd(l, p, e)
    BY <1>1, <2>1, SomeEnd
  <2>6. e \in p + 1 .. Len(l) + 1 /\ e \in 1 .. Len(l) + 1
    BY <1>1, <2>1, <2>5 DEF IsEnd
  <2>7. PICK q : IsNext(l, e, q)
    BY <1>1, <2>6, SomeNext
  <2> DEFINE v == SubSeq(l, p, e - 1)
  <2>8. w = <<v>> \o From(f, q)
    BY <1>1, <1>2, <1>4, <1>8, <2>1, <2>4, <2>5, <2>7, FromWord DEF From
  <2>9. v \in Seq(Reads!NoSpaces) /\ v # <<>>
    <3>1. IsWord(l, p, v)
      BY <2>5 DEF IsWord
    <3> HIDE DEF v
    <3> QED BY <1>1, <2>1, <3>1, WordIs
  <2>10. Len(v) = e - p /\ \A k \in 1 .. e - p : v[k] = l[p + k - 1]
    BY <1>1, <2>1, <2>6
  <2>11. /\ t \in Seq(Char) /\ Len(t) = Len(l) - p + 1
         /\ \A k \in 1 .. Len(l) - p + 1 : t[k] = l[p + k - 1]
    BY <1>1, <2>1, <2>3
  <2> HIDE DEF v
  <2>12. Leads(v, t)
    <3>1. Len(v) <= Len(t) /\ \A k \in 1 .. Len(v) : t[k] = v[k]
      BY <1>1, <2>1, <2>6, <2>10, <2>11
    <3>2. ASSUME Len(v) < Len(t) PROVE t[Len(v) + 1] \in Space
      <4>1. Len(v) + 1 \in 1 .. Len(l) - p + 1 /\ p + (Len(v) + 1) - 1 = e /\ e # Len(l) + 1
        BY <1>1, <2>1, <2>6, <2>10, <2>11, <3>2
      <4>2. t[Len(v) + 1] = l[e]
        BY <2>11, <4>1
      <4> QED BY <2>5, <4>1, <4>2 DEF IsEnd
    <3> QED BY <2>9, <2>11, <3>1, <3>2 DEF Leads
  <2>13. t # <<>> /\ Len(v) <= Len(l)
    BY <1>1, <2>1, <2>6, <2>10, <2>11
  <2>14. w # <<>> /\ w[1] = v
    <3>1. From(f, q) \in Seq(Word)
      <4>1. q = 0 \/ q \in 1 .. Len(l) + 1
        BY <1>1, <2>6, <2>7 DEF IsNext
      <4> QED BY <1>1, <1>2, <4>1, FromSeq DEF From
    <3>2. v \in Word
      BY <2>9 DEF Word
    <3> QED BY <2>8, <3>1, <3>2, Cons
  <2> QED BY <2>9, <2>12, <2>13, <2>14 DEF t, w
<1> QED BY <1>7, <1>8

\* Whatever is typed is read as the number it starts with, if it is one.
LEMMA NumberIs ==
  ASSUME Reads!LinesOfChars, Reads!NumberWidth, NEW l \in Line
  PROVE  LET w == Reads!Words(l)
         IN Reads!getNumberFromString(l) =
              IF w # <<>> /\ Reads!IsNumber(w[1])
              THEN [ok |-> TRUE, value |-> Reads!ValueOf(w[1])] ELSE Reads!failed
<1> DEFINE t == Reads!unspaced(l)
           w == Reads!Words(l)
           v == w[1]
           base == Reads!base_of(t)
           r == Reads!read_digits(Reads!after_prefix(t), base)
           read == Reads!getNumberFromString(l)
           number == [ok |-> TRUE, value |-> Reads!ValueOf(v)]
<1>1. read = IF t = <<>> \/ r.state = "bad" \/ r.digits = 0
             THEN Reads!failed ELSE [ok |-> TRUE, value |-> r.ret]
  BY Zenon DEF Reads!getNumberFromString
<1>2. \/ t = <<>> /\ w = <<>>
      \/ t # <<>> /\ w # <<>> /\ Leads(v, t) /\ v # <<>> /\ Len(v) <= Len(l)
  BY LineStarts
<1>3. CASE t = <<>> /\ w = <<>>
  <2>1. read = Reads!failed
    BY <1>1, <1>3
  <2> QED BY <1>3, <2>1
<1>4. CASE t # <<>> /\ w # <<>> /\ Leads(v, t) /\ v # <<>> /\ Len(v) <= Len(l)
  <2> DEFINE d == Reads!after_prefix(v)
  <2> HIDE DEF read, r, t, w, v
  <2>1. /\ Reads!is_hex(t) <=> Reads!is_hex(v)
        /\ Leads(d, Reads!after_prefix(t))
        /\ Len(d) = IF Reads!is_hex(v) THEN Len(v) - 2 ELSE Len(v)
    BY <1>4, PrefixOfWord
  <2>2. base = Reads!base_of(v) /\ base \in Nat
    BY <2>1 DEF Reads!base_of
  <2>3. /\ d \in Seq(Char) /\ d \in Seq(Reads!NoSpaces)
    <3> HIDE DEF d
    <3>1. d \in Seq(Reads!NoSpaces)
      BY <2>1 DEF Leads
    <3>2. Reads!NoSpaces \subseteq Char
      BY DEF Reads!NoSpaces
    <3> QED BY <3>1, <3>2
  <2>4. Reads!Powers(base, Len(d))
    <3>1. Reads!Powers(10, Len(l)) /\ Reads!Powers(16, Len(l) - 2)
      BY DEF Reads!NumberWidth
    <3>2. Len(v) \in Nat /\ Len(l) \in Nat
      BY <1>4, Lines DEF Leads
    <3>3. CASE Reads!is_hex(v)
      <4>1. base = 16 /\ Len(d) = Len(v) - 2
        BY <2>1, <2>2, <3>3 DEF Reads!base_of
      <4>2. \A k \in 0 .. Len(d) - 1 : k \in 0 .. (Len(l) - 2) - 1
        BY <1>4, <3>2, <4>1
      <4> QED BY <3>1, <4>1, <4>2 DEF Reads!Powers
    <3>4. CASE ~ Reads!is_hex(v)
      <4>1. base = 10 /\ Len(d) = Len(v)
        BY <2>1, <2>2, <3>4 DEF Reads!base_of
      <4>2. \A k \in 0 .. Len(d) - 1 : k \in 0 .. Len(l) - 1
        BY <1>4, <3>2, <4>1
      <4> QED BY <3>1, <4>1, <4>2 DEF Reads!Powers
    <3> QED BY <3>3, <3>4
  <2>5. PICK S : Summed(S, d, base) /\ S[0] = 0 /\ Reads!ValueOf(v) = S[Len(d)] % M
    BY <2>2, <2>3, <2>4, ValueIs
  <2>6. IF AllDigits(d, base) THEN r.state # "bad" /\ r.digits # 0 /\ r.ret = Reads!ValueOf(v)
        ELSE r.state = "bad" \/ r.digits = 0
    <3> HIDE DEF d, base
    <3> QED BY <2>1, <2>2, <2>4, <2>5, DigitsRead DEF r
  <2>7. Reads!IsNumber(v) <=> AllDigits(d, base)
    <3>1. DOMAIN d = 1 .. Len(d)
      <4> HIDE DEF d
      <4> QED BY <2>3
    <3> QED BY <2>2, <3>1 DEF Reads!IsNumber, Reads!Digits, AllDigits
  <2> HIDE DEF d, base
  <2>8. CASE AllDigits(d, base)
    <3>1. read = [ok |-> TRUE, value |-> r.ret]
      BY <1>1, <1>4, <2>6, <2>8
    <3>2. read = [ok |-> TRUE, value |-> Reads!ValueOf(v)]
      BY <2>6, <2>8, <3>1
    <3> QED BY <1>4, <2>7, <2>8, <3>2 DEF read, w, v
  <2>9. CASE ~ AllDigits(d, base)
    <3>1. read = Reads!failed
      BY <1>1, <2>6, <2>9
    <3> QED BY <2>7, <2>9, <3>1 DEF read, w, v
  <2> QED BY <2>8, <2>9
<1> QED BY <1>2, <1>3, <1>4

LEMMA NumberMeans ==
  ASSUME Reads!LinesOfChars, Reads!NumberWidth, LineInv PROVE NumbersRead
<1>1. l_typed \in Line
  BY Lines DEF LineInv
<1> QED BY <1>1, NumberIs DEF NumbersRead, Reads!NumbersRead

\* A line is cut into its words wherever its spaces are, and at the end of input
\* the last command is repeated without its arguments: none is made up (readLine,
\* trimString, getNextString, the command loop).
THEOREM CommandsAsTypedCorrect ==
  ASSUME Reads!LinesOfChars PROVE SessionSpec => []CommandsAsTyped
<1>1. SessionInit => LineInv
  BY InitLine DEF SessionInit
<1>2. LineInv /\ [SessionNext]_<<vars, loading, looking, showing, reading>> => LineInv'
  BY NextLine, StepOfEach
<1>3. LineInv => CommandsAsTyped
  BY LineMeans
<1> QED BY <1>1, <1>2, <1>3, PTL DEF SessionSpec

\* The buffer always has an end, and a command has up to four words without
\* spaces, of which none is empty (getNextString's pointers, the command loop).
THEOREM CommandLineTypeCorrect ==
  ASSUME Reads!LinesOfChars PROVE SessionSpec => []Reads!TypeOK
<1>1. SessionInit => LineInv
  BY InitLine DEF SessionInit
<1>2. LineInv /\ [SessionNext]_<<vars, loading, looking, showing, reading>> => LineInv'
  BY NextLine, StepOfEach
<1>3. LineInv => Reads!TypeOK
  BY LineMeans
<1> QED BY <1>1, <1>2, <1>3, PTL DEF SessionSpec

\* Whatever is typed is read as the number it starts with, modulo the width of an
\* int, or refused if it does not start with one (getNumberFromString).
THEOREM NumbersReadCorrect ==
  ASSUME Reads!LinesOfChars, Reads!NumberWidth PROVE SessionSpec => []NumbersRead
<1>1. SessionInit => LineInv
  BY InitLine DEF SessionInit
<1>2. LineInv /\ [SessionNext]_<<vars, loading, looking, showing, reading>> => LineInv'
  BY NextLine, StepOfEach
<1>3. LineInv => NumbersRead
  BY NumberMeans
<1> QED BY <1>1, <1>2, <1>3, PTL DEF SessionSpec

-----------------------------------------------------------------------------
(* All parts.                                                              *)

\* The other commands leave what the commands that run the program work on as it
\* is: a session is one of the debugger, for which its theorems hold.
THEOREM SessionOfDebugger == SessionSpec => Spec
<1>1. SessionInit => Init
  BY DEF SessionInit
<1>2. [SessionNext]_<<vars, loading, looking, showing, reading>> => [Next]_vars
  BY DEF SessionNext, run_command, load_command, look_command, show_command, read_command, vars
<1> QED BY <1>1, <1>2, PTL DEF SessionSpec, Spec

\* In a session that gives the commands in any order all parts of the debugger keep
\* their types: the list's links, counts, chain of symbols, buffers and line.
THEOREM TypesCorrect ==
  ASSUME Looks!AddressSpace, Loads!FilesOfBytes, Loads!SymbolTables, Reads!LinesOfChars
  PROVE  SessionSpec => []TypesOK
<1>1. SessionSpec => []TypeOK
  BY SessionOfDebugger, TypeCorrect, PTL
<1>2. /\ SessionSpec => []Loads!TypeOK
      /\ SessionSpec => []Looks!TypeOK
      /\ SessionSpec => []Shows!TypeOK
      /\ SessionSpec => []Reads!TypeOK
  BY LoaderTypeCorrect, InspectTypeCorrect, RegistersTypeCorrect, CommandLineTypeCorrect
<1>3. TypeOK /\ Loads!TypeOK /\ Looks!TypeOK /\ Shows!TypeOK /\ Reads!TypeOK => TypesOK
  BY DEF TypesOK
<1> QED BY <1>1, <1>2, <1>3, PTL
=============================================================================
