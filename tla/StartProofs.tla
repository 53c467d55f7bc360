---------------------------- MODULE StartProofs ----------------------------
(***************************************************************************)
(* Theorems about Start.  Of memory_init, for any layout of memory and any *)
(* number of sections: what its loop leaves in the page table, and that it *)
(* keeps the guests apart.  Of the caches, for any geometry that a word    *)
(* has room for, any stores and any buffers: maintenance loses nothing,    *)
(* and each call does what it is for.                                      *)
(***************************************************************************)
EXTENDS Start, NumberFacts, TLAPS

-----------------------------------------------------------------------------
(* The page table.                                                         *)

\* The sections the loop has passed have their descriptors, and the MMU is only
\* enabled behind the last.
Filled == model = CM_ARMv7a => \A page \in Page : page < i => flpt[page] = section(page)
EnabledLast == mmu_on => i = Sections

IInv == TypeOK /\ Filled /\ EnabledLast

LEMMA PageType == Page \subseteq Nat /\ Sections \in Nat
BY MemoryInitAssumption

\* A type, from wherever it came, has attributes that fit their fields.
LEMMA Attributes ==
  ASSUME NEW mlt
  PROVE  /\ section_domain(mlt) \in 0 .. 2
         /\ section_ap(mlt) \in 0 .. 3
         /\ section_kind(mlt) \in {14, 18}
<1>1. section_domain(mlt) \in 0 .. 2
  BY DEF section_domain, MLT_HYPER_RAM, MLT_IO_REG, MLT_USER1_RAM
<1>2. section_ap(mlt) \in 0 .. 3
  BY DEF section_ap, MLT_HYPER_RAM, MLT_IO_REG, MLT_USER1_RAM, MLT_USER2_RAM
<1>3. section_kind(mlt) \in {14, 18}
  BY DEF section_kind
<1> QED BY <1>1, <1>2, <1>3

\* The word the loop writes for a section is the section's descriptor.
LEMMA WordOfSection ==
  ASSUME NEW page \in Nat
  PROVE  LET mlt == mem_padr_lookup(page)
         IN  /\ word(page, section_domain(mlt), section_ap(mlt), section_kind(mlt)) = section(page)
             /\ section(page) \in descriptor
<1> DEFINE mlt == mem_padr_lookup(page)
<1>1. /\ section_domain(mlt) \in 0 .. 2 /\ section_ap(mlt) \in 0 .. 3
      /\ section_kind(mlt) \in {14, 18}
  BY Attributes
<1> HIDE DEF mlt
<1>2. section_bits(mlt) \in Nat
  BY <1>1 DEF section_bits
<1>3. [base |-> page, bits |-> section_bits(mlt)] \in descriptor
  BY <1>2 DEF descriptor
<1> QED BY <1>3 DEF word, section, section_bits, mlt

LEMMA InitIInv == Init => IInv
<1> SUFFICES ASSUME Init PROVE IInv
  OBVIOUS
<1>1. zero_word \in descriptor
  BY DEF zero_word, descriptor
<1>2. TypeOK
  <2>1. i \in 0 .. Sections /\ domain \in 0 .. 2 /\ ap \in 0 .. 3
    BY PageType DEF Init
  <2>2. pt \in descriptor /\ flpt \in [Page -> descriptor]
    BY <1>1 DEF Init
  <2>3. dacr \in {0, ALL_CLIENT} /\ mmu_on \in BOOLEAN
    BY Zenon DEF Init
  <2> QED BY <2>1, <2>2, <2>3, Zenon DEF TypeOK
<1>3. Filled
  BY PageType DEF Init, Filled
<1>4. EnabledLast
  BY DEF Init, EnabledLast
<1> QED BY <1>2, <1>3, <1>4 DEF IInv

LEMMA MapSectionIInv == IInv /\ MapSection => IInv'
<1> SUFFICES ASSUME IInv, MapSection PROVE IInv'
  OBVIOUS
<1> DEFINE mlt == mem_padr_lookup(i)
<1>1. i \in Nat /\ i \in Page /\ i + 1 \in 0 .. Sections
  BY MemoryInitAssumption DEF IInv, TypeOK, MapSection
<1>2. /\ domain' = section_domain(mlt) /\ ap' = section_ap(mlt)
      /\ pt' = IF model = CM_ARMv7a THEN word(i, domain', ap', section_kind(mlt)) ELSE pt
      /\ flpt' = [flpt EXCEPT ![i] = pt'] /\ i' = i + 1
      /\ dacr' = dacr /\ mmu_on' = mmu_on
  BY DEF MapSection
<1>3. /\ word(i, section_domain(mlt), section_ap(mlt), section_kind(mlt)) = section(i)
      /\ section(i) \in descriptor
  BY <1>1, WordOfSection
<1>4. /\ section_domain(mlt) \in 0 .. 2 /\ section_ap(mlt) \in 0 .. 3
  BY Attributes
<1> HIDE DEF mlt
<1>5. pt' = IF model = CM_ARMv7a THEN section(i) ELSE pt
  BY <1>2, <1>3
<1>6. pt' \in descriptor /\ flpt' \in [Page -> descriptor]
  BY <1>1, <1>2, <1>3, <1>5 DEF IInv, TypeOK
<1>7. TypeOK'
  BY <1>1, <1>2, <1>4, <1>6 DEF IInv, TypeOK
<1>8. Filled'
  <2> SUFFICES ASSUME model = CM_ARMv7a, NEW page \in Page, page < i + 1
               PROVE  flpt'[page] = section(page)
    BY <1>2 DEF Filled
  <2>1. page \in Nat /\ flpt \in [Page -> descriptor]
    BY PageType DEF IInv, TypeOK
  <2>2. CASE page = i
    BY <1>1, <1>2, <1>5, <2>1, <2>2
  <2>3. CASE page # i
    <3>1. page < i
      BY <1>1, <2>1, <2>3
    <3>2. flpt[page] = section(page)
      BY <3>1 DEF IInv, Filled
    <3> QED BY <1>2, <2>1, <2>3, <3>2
  <2> QED BY <2>2, <2>3
<1>9. EnabledLast'
  BY <1>2, <1>1, PageType DEF IInv, EnabledLast, MapSection
<1> QED BY <1>7, <1>8, <1>9 DEF IInv

LEMMA EnableMMUIInv == IInv /\ EnableMMU => IInv'
<1> SUFFICES ASSUME IInv, EnableMMU PROVE IInv'
  OBVIOUS
<1>1. TypeOK'
  BY DEF IInv, TypeOK, EnableMMU
<1>2. Filled' /\ EnabledLast'
  BY DEF IInv, Filled, EnabledLast, EnableMMU
<1> QED BY <1>1, <1>2 DEF IInv

THEOREM IInvCorrect == Spec => []IInv
<1>1. IInv /\ [Next]_vars => IInv'
  <2> SUFFICES ASSUME IInv, [Next]_vars PROVE IInv'
    OBVIOUS
  <2>1. CASE MapSection
    BY <2>1, MapSectionIInv
  <2>2. CASE EnableMMU
    BY <2>2, EnableMMUIInv
  <2>3. CASE UNCHANGED vars
    BY <2>3 DEF IInv, TypeOK, Filled, EnabledLast, vars
  <2> QED BY <2>1, <2>2, <2>3 DEF Next
<1> QED BY <1>1, InitIInv, PTL DEF Spec

\* The descriptors memory_init computes and the attributes it keeps outside its
\* loop fit their fields, and the table has a word for each section.
THEOREM TypeCorrect == Spec => []TypeOK
BY IInvCorrect, PTL DEF IInv

LEMMA CompleteTable ==
  ASSUME IInv, model = CM_ARMv7a, mmu_on
  PROVE  \A page \in Page : flpt[page] = section(page)
BY MemoryInitAssumption DEF IInv, EnabledLast, Filled

\* Whatever the layout, no section keeps attributes of another: the table the
\* loop builds is the closed form the hypervisor is modelled with.
THEOREM TableIsClosedFormCorrect == Spec => []TableIsClosedForm
<1>1. IInv => TableIsClosedForm
  <2> SUFFICES ASSUME IInv, model = CM_ARMv7a
               PROVE  /\ i > 0 => flpt[i - 1] = section(i - 1)
                      /\ mmu_on => flpt = first_level_table
    BY DEF TableIsClosedForm
  <2>1. ASSUME i > 0 PROVE flpt[i - 1] = section(i - 1)
    <3>1. i - 1 \in Page /\ i - 1 < i
      BY <2>1, MemoryInitAssumption DEF IInv, TypeOK
    <3> QED BY <3>1 DEF IInv, Filled
  <2>2. ASSUME mmu_on PROVE flpt = first_level_table
    <3>1. \A page \in Page : flpt[page] = section(page)
      BY <2>2, CompleteTable
    <3>2. flpt \in [Page -> descriptor]
      BY DEF IInv, TypeOK
    <3> QED BY <3>1, <3>2 DEF first_level_table
  <2> QED BY <2>1, <2>2
<1> QED BY <1>1, IInvCorrect, PTL

-----------------------------------------------------------------------------
(* Separation of the guests.                                               *)

\* The fields do not run into each other, whatever is in them.
LEMMA Fields ==
  ASSUME NEW d \in {0, 1, 2}, NEW a \in {0, 1, 3}, NEW k \in {14, 18}
  PROVE  /\ ((d * 32 + a * 1024 + k) \div 32) % 16 = d
         /\ ((d * 32 + a * 1024 + k) \div 1024) % 4 = a
OBVIOUS

LEMMA Decode ==
  ASSUME NEW page \in Page, flpt[page] = section(page)
  PROVE  LET mlt == mem_padr_lookup(page)
         IN  /\ DomainOf(flpt[page]) = section_domain(mlt)
             /\ ApOf(flpt[page]) = section_ap(mlt)
<1> DEFINE mlt == mem_padr_lookup(page)
<1>1. flpt[page].bits = section_domain(mlt) * 32 + section_ap(mlt) * 1024 + section_kind(mlt)
  BY DEF section, section_bits
<1> HIDE DEF mlt
<1>2. section_domain(mlt) \in {0, 1, 2} /\ section_ap(mlt) \in {0, 1, 3} /\ section_kind(mlt) \in {14, 18}
  BY DEF section_domain, section_ap, section_kind
<1>3. DomainOf(flpt[page]) = section_domain(mlt) /\ ApOf(flpt[page]) = section_ap(mlt)
  BY <1>1, <1>2, Fields DEF DomainOf, ApOf
<1> QED BY <1>3 DEF mlt

\* Of which domains each access word makes a client.
LEMMA Clients ==
  ASSUME NEW d \in {0, 1, 2}
  PROVE  /\ Client(HC_DOMAC_GUEST_1, d) <=> d \in {0, 1}
         /\ Client(HC_DOMAC_GUEST_2, d) <=> d \in {0, 2}
         /\ Client(ALL_CLIENT, d)
<1>1. HC_DOMAC_GUEST_1 = 5 /\ HC_DOMAC_GUEST_2 = 17
  BY DEF HC_DOMAC_GUEST_1, HC_DOMAC_GUEST_2, client_of, HC_DOM_HYPER, HC_DOM_GUEST_1, HC_DOM_GUEST_2
<1>2. DomainWeight[d + 1] = CASE d = 0 -> 1 [] d = 1 -> 4 [] d = 2 -> 16
  BY DEF DomainWeight
<1>3. CASE d = 0
  BY <1>1, <1>2, <1>3 DEF Client, ALL_CLIENT
<1>4. CASE d = 1
  BY <1>1, <1>2, <1>4 DEF Client, ALL_CLIENT
<1>5. CASE d = 2
  BY <1>1, <1>2, <1>5 DEF Client, ALL_CLIENT
<1> QED BY <1>3, <1>4, <1>5

\* On any layout, with the access words of the configuration, a guest has its own
\* RAM and the registers of devices, and the hypervisor always has its own.
THEOREM GuestsSeparatedCorrect == Spec => []GuestsSeparated
<1>1. IInv => GuestsSeparated
  <2> SUFFICES ASSUME IInv, mmu_on, model = CM_ARMv7a, NEW page \in Page,
                      NEW mlt, mlt = mem_padr_lookup(page)
               PROVE  /\ OpenTo(HC_DOMAC_GUEST_1, page) <=> mlt \in {MLT_USER1_RAM, MLT_IO_REG}
                      /\ OpenTo(HC_DOMAC_GUEST_2, page) <=> mlt \in {MLT_USER2_RAM, MLT_IO_REG}
                      /\ mlt = MLT_HYPER_RAM =>
                           \A dac \in {HC_DOMAC_GUEST_1, HC_DOMAC_GUEST_2, ALL_CLIENT} :
                             PrivilegedMay(flpt, dac, page)
    BY Zenon DEF GuestsSeparated
  <2>1. flpt[page] = section(page)
    BY CompleteTable
  <2>2. DomainOf(flpt[page]) = section_domain(mlt) /\ ApOf(flpt[page]) = section_ap(mlt)
    BY <2>1, Decode
  <2>3. section_domain(mlt) \in {0, 1, 2}
    BY DEF section_domain
  <2>4. /\ Client(HC_DOMAC_GUEST_1, section_domain(mlt)) <=> section_domain(mlt) \in {0, 1}
        /\ Client(HC_DOMAC_GUEST_2, section_domain(mlt)) <=> section_domain(mlt) \in {0, 2}
        /\ Client(ALL_CLIENT, section_domain(mlt))
    BY <2>3, Clients
  <2>5. OpenTo(HC_DOMAC_GUEST_1, page) <=> mlt \in {MLT_USER1_RAM, MLT_IO_REG}
    BY <2>2, <2>4 DEF OpenTo, UserMay, section_domain, section_ap, MLT_HYPER_RAM, MLT_IO_REG,
       MLT_USER1_RAM, MLT_USER2_RAM
  <2>6. OpenTo(HC_DOMAC_GUEST_2, page) <=> mlt \in {MLT_USER2_RAM, MLT_IO_REG}
    BY <2>2, <2>4 DEF OpenTo, UserMay, section_domain, section_ap, MLT_HYPER_RAM, MLT_IO_REG,
       MLT_USER1_RAM, MLT_USER2_RAM
  <2>7. ASSUME mlt = MLT_HYPER_RAM,
               NEW dac \in {HC_DOMAC_GUEST_1, HC_DOMAC_GUEST_2, ALL_CLIENT}
        PROVE  PrivilegedMay(flpt, dac, page)
    <3>1. section_domain(mlt) = 0 /\ section_ap(mlt) = 1
      BY <2>7 DEF section_domain, section_ap, MLT_HYPER_RAM, MLT_IO_REG, MLT_USER1_RAM, MLT_USER2_RAM
    <3> QED BY <2>2, <2>4, <3>1 DEF PrivilegedMay
  <2> QED BY <2>5, <2>6, <2>7
<1> QED BY <1>1, IInvCorrect, PTL

-----------------------------------------------------------------------------
(* Numbers: powers of two, lines and slots.                                *)

LEMMA Constants ==
  /\ L \in Nat /\ WIDTH \in Nat /\ L < WIDTH
  /\ Len(Geometry) \in Nat \ {0} /\ Level \subseteq Nat \ {0} /\ 1 \in Level
  /\ \A l \in Level : Geometry[l].sets \in Nat \ {0} /\ Geometry[l].ways \in Nat \ {0}
<1> DEFINE G == [sets : Nat \ {0}, ways : Nat \ {0}]
<1>1. Geometry \in Seq(G) /\ Len(Geometry) \in 1 .. 8 /\ L \in Nat /\ WIDTH \in Nat /\ L < WIDTH
  BY CachesAssumption
<1>2. \A l \in Level : Geometry[l] \in G
  <2> HIDE DEF G
  <2>1. \A k \in 1 .. Len(Geometry) : Geometry[k] \in G
    BY <1>1
  <2> QED BY <2>1 DEF Level
<1>3. \A l \in Level : Geometry[l].sets \in Nat \ {0} /\ Geometry[l].ways \in Nat \ {0}
  BY <1>2
<1> HIDE DEF G
<1>4. Len(Geometry) \in Nat \ {0} /\ Level \subseteq Nat \ {0} /\ 1 \in Level
  <2> DEFINE n == Len(Geometry)
  <2>1. n \in 1 .. 8
    BY <1>1
  <2> HIDE DEF n
  <2>2. n \in Nat \ {0} /\ 1 .. n \subseteq Nat \ {0} /\ 1 \in 1 .. n
    BY <2>1
  <2> QED BY <2>2 DEF n, Level
<1> QED BY <1>1, <1>3, <1>4

LEMMA PowerType == PowerLaw(2, WIDTH) /\ \A k \in 0 .. WIDTH : 2^k \in Nat \ {0}
<1>1. PowerLaw(2, WIDTH)
  BY PowersOfTwo DEF PowerLaw
<1> QED BY <1>1, PowersPositive, Constants

-----------------------------------------------------------------------------
(* Lines and slots.                                                        *)

P == 2^L

LEMMA LineType == P \in Nat \ {0} /\ P = 2^L /\ 2^WIDTH \in Nat \ {0}
BY Constants, PowerType DEF P

LEMMA WholeLines == \E m \in Nat \ {0} : 2^WIDTH = m * P /\ m = 2^(WIDTH - L)
<1>1. WIDTH - L \in Nat /\ WIDTH - L \in 0 .. WIDTH /\ L \in 0 .. WIDTH - (WIDTH - L)
      /\ (WIDTH - L) + L = WIDTH /\ 2 \in Nat \ {0}
  BY Constants
<1>2. 2^((WIDTH - L) + L) = 2^(WIDTH - L) * 2^L
  BY <1>1, PowersOfSum, PowerType, Constants
<1>3. 2^WIDTH = 2^(WIDTH - L) * 2^L
  BY <1>1, <1>2
<1> QED BY <1>1, <1>3, PowerType DEF P

\* An address of a line is a multiple of its length, and the line is in memory.
LEMMA AddressIs ==
  ASSUME NEW a \in Address
  PROVE  a \in Nat /\ a % P = 0 /\ a = (a \div P) * P /\ a \div P \in Nat /\ a + P <= 2^WIDTH
         /\ a \in Byte
<1>1. a \in Nat /\ a % P = 0 /\ a < 2^WIDTH /\ a \in Byte
  BY LineType DEF Address, Byte, P
<1>2. a \div P \in Nat /\ a = (a \div P) * P
  <2>1. a \div P \in Nat /\ a = (a \div P) * P + (a % P)
    BY <1>1, LineType, DivNat
  <2>2. (a \div P) * P \in Int
    BY <2>1, LineType
  <2> QED BY <1>1, <2>1, <2>2
<1>3. PICK m \in Nat \ {0} : 2^WIDTH = m * P
  BY WholeLines
<1> DEFINE q == a \div P
<1>4. q \in Nat /\ q * P < m * P /\ P \in Nat \ {0}
  BY <1>1, <1>2, <1>3, LineType
<1> HIDE DEF q
<1>5. q + 1 <= m
  <2> SUFFICES ASSUME m <= q PROVE FALSE
    BY <1>4
  <2>1. m * P <= q * P
    BY <1>4
  <2> QED BY <1>4, <2>1
<1>6. (q + 1) * P <= m * P
  BY <1>4, <1>5
<1>7. (q + 1) * P = q * P + P
  BY <1>4
<1>8. a + P <= 2^WIDTH
  BY <1>1, <1>2, <1>3, <1>6, <1>7, LineType DEF q
<1> QED BY <1>1, <1>2, <1>8

LEMMA DataIs ==
  ASSUME NEW a \in Address
  PROVE  Data(a) = a .. a + P - 1 /\ Data(a) \subseteq Byte /\ a \in Data(a)
BY AddressIs, LineType DEF Data, P, Byte

\* Each byte is in one line.
LEMMA LineOf ==
  ASSUME NEW b \in Byte
  PROVE  line(b) \in Address /\ b \in Data(line(b))
         /\ \A a \in Address : b \in Data(a) => a = line(b)
<1>1. b \in Nat /\ b < 2^WIDTH
  BY LineType DEF Byte
<1> DEFINE q == b \div P
           r == b % P
<1>2. q \in Nat /\ r \in 0 .. P - 1 /\ b = q * P + r
  BY <1>1, LineType, DivNat
<1>3. line(b) = b - r
  BY DEF line, P
<1> HIDE DEF q, r
<1>4. q * P \in Nat
  BY <1>2, LineType
<1>5. line(b) = q * P
  BY <1>1, <1>2, <1>3, <1>4, LineType
<1>6. (q * P) % P = 0
  <2>1. 0 \in 0 .. P - 1 /\ q * P = q * P + 0 /\ q * P \in Int /\ q \in Int
    BY <1>2, <1>4, LineType
  <2> QED BY <2>1, LineType, ModIs
<1>7. line(b) \in Address
  BY <1>1, <1>2, <1>4, <1>5, <1>6, LineType DEF Address, Byte, P
<1>8. b \in Data(line(b))
  <2>1. Data(line(b)) = q * P .. q * P + P - 1
    BY <1>5, <1>7, DataIs
  <2> DEFINE z == q * P
  <2>2. z \in Nat /\ b = z + r
    BY <1>2, <1>4
  <2> HIDE DEF z
  <2>3. b \in z .. z + P - 1
    BY <1>2, <2>2, LineType
  <2> QED BY <2>1, <2>3 DEF z
<1>9. ASSUME NEW a \in Address, b \in Data(a) PROVE a = line(b)
  <2>1. a \in Nat /\ a \div P \in Nat /\ a = (a \div P) * P /\ b \in a .. a + P - 1
    BY <1>9, AddressIs, DataIs
  <2> DEFINE d == a \div P
  <2>2. d \in Int /\ b - a \in 0 .. P - 1 /\ d * P + (b - a) = q * P + r /\ q \in Int
    BY <1>1, <1>2, <2>1, LineType
  <2> HIDE DEF d
  <2>3. d = q
    BY <2>2, <1>2, LineType, Unique
  <2> QED BY <1>5, <2>1, <2>3 DEF d
<1> QED BY <1>7, <1>8, <1>9

LEMMA SetType ==
  ASSUME NEW l \in Level, NEW a \in Address
  PROVE  set_of(l, a) \in 0 .. Geometry[l].sets - 1
<1>1. a \div 2^L \in Nat
  BY AddressIs DEF P
<1> QED BY <1>1, Constants, DivNat DEF set_of

LEMMA SlotIs ==
  ASSUME NEW x \in Slot
  PROVE  /\ x[1] \in Level /\ x[2] \in 0 .. Geometry[x[1]].sets - 1
         /\ x[3] \in 0 .. Geometry[x[1]].ways - 1 /\ x = <<x[1], x[2], x[3]>>
BY DEF Slot

LEMMA SlotMade ==
  ASSUME NEW l \in Level, NEW s \in 0 .. Geometry[l].sets - 1, NEW w \in 0 .. Geometry[l].ways - 1
  PROVE  <<l, s, w>> \in Slot
BY DEF Slot

LEMMA WaysIs ==
  ASSUME NEW l \in Level, NEW a \in Address
  PROVE  ways(l, a) = {x \in Slot : x[1] = l /\ x[2] = set_of(l, a)}
<1>1. ASSUME NEW x \in ways(l, a) PROVE x \in Slot /\ x[1] = l /\ x[2] = set_of(l, a)
  BY <1>1, SetType, SlotMade DEF ways
<1>2. ASSUME NEW x \in Slot, x[1] = l, x[2] = set_of(l, a) PROVE x \in ways(l, a)
  BY <1>2, SlotIs DEF ways
<1> QED BY <1>1, <1>2

-----------------------------------------------------------------------------
(* The hardware: what is in a slot, and what is fetched.                   *)

HW == [cache : [Slot -> Line \union {none}], memory : [Byte -> Value]]

\* Slot x has line a.
Has(c, x, a) == c[x] # none /\ c[x].adr = a

\* Each line is in the set for it, and once in a level.
Placed(c) == \A x \in Slot : c[x] # none => x[2] = set_of(x[1], c[x].adr)
Once(c) == \A x, y \in Slot : \A a \in Address :
  Has(c, x, a) /\ Has(c, y, a) /\ x[1] = y[1] => x = y
Shaped(h) == h \in HW /\ Placed(h.cache) /\ Once(h.cache)

\* A line that is not dirty is the same behind.
CleanAgrees(h) ==
  \A x \in Slot : h.cache[x] # none /\ ~h.cache[x].dirty =>
    h.cache[x].data = fetched(h, x[1] + 1, h.cache[x].adr)

Good(h) == Shaped(h) /\ CleanAgrees(h)

LEMMA LineIs ==
  ASSUME NEW r \in Line
  PROVE  r.adr \in Address /\ r.dirty \in BOOLEAN /\ r.data \in [Data(r.adr) -> Value]
         /\ r = entry_of(r.adr, r.dirty, r.data) /\ r # none
<1>1. PICK a \in Address : r \in [adr : {a}, dirty : BOOLEAN, data : [Data(a) -> Value]]
  BY DEF Line
<1>2. r.adr = a
  BY <1>1
<1> QED BY <1>1, <1>2, CachesAssumption DEF entry_of

LEMMA LineMade ==
  ASSUME NEW a \in Address, NEW d \in BOOLEAN, NEW data \in [Data(a) -> Value]
  PROVE  entry_of(a, d, data) \in Line /\ entry_of(a, d, data) # none
         /\ entry_of(a, d, data).adr = a /\ entry_of(a, d, data).dirty = d
         /\ entry_of(a, d, data).data = data
<1>1. entry_of(a, d, data) \in [adr : {a}, dirty : BOOLEAN, data : [Data(a) -> Value]]
  BY DEF entry_of
<1>2. entry_of(a, d, data) \in Line
  BY <1>1 DEF Line
<1> QED BY <1>2, CachesAssumption DEF entry_of

LEMMA HardwareIs ==
  ASSUME NEW h \in HW
  PROVE  /\ h.cache \in [Slot -> Line \union {none}] /\ h.memory \in [Byte -> Value]
         /\ \A x \in Slot : h.cache[x] # none => h.cache[x] \in Line
BY DEF HW

LEMMA HasAddress ==
  ASSUME NEW h \in HW, NEW x \in Slot, NEW a, Has(h.cache, x, a)
  PROVE  a \in Address /\ h.cache[x] # none /\ h.cache[x] \in Line /\ h.cache[x].adr = a
         /\ h.cache[x].data \in [Data(a) -> Value] /\ h.cache[x].dirty \in BOOLEAN
BY HardwareIs, LineIs DEF Has

LEMMA HoldingIs ==
  ASSUME NEW h, Shaped(h), NEW l \in Level, NEW a \in Address
  PROVE  holding(h.cache, l, a) = {x \in Slot : x[1] = l /\ Has(h.cache, x, a)}
<1>1. ways(l, a) = {x \in Slot : x[1] = l /\ x[2] = set_of(l, a)}
  BY WaysIs
<1> QED BY <1>1 DEF holding, Has, Shaped, Placed

LEMMA OneHolds ==
  ASSUME NEW h, Shaped(h), NEW a \in Address, NEW x \in Slot, Has(h.cache, x, a)
  PROVE  holding(h.cache, x[1], a) = {x} /\ one(holding(h.cache, x[1], a)) = x
<1>1. x[1] \in Level
  BY SlotIs
<1>2. holding(h.cache, x[1], a) = {y \in Slot : y[1] = x[1] /\ Has(h.cache, y, a)}
  BY <1>1, HoldingIs
<1>3. holding(h.cache, x[1], a) = {x}
  BY <1>2 DEF Shaped, Once
<1> QED BY <1>3 DEF one

LEMMA NearestIs ==
  ASSUME NEW S, S \subseteq Nat, S # {}
  PROVE  nearest(S) \in S /\ \A j \in S : nearest(S) <= j
BY Least DEF nearest

\* If slot x is the nearest with line a, it has what is fetched.
LEMMA FetchedHit ==
  ASSUME NEW h, Shaped(h), NEW l \in Nat, NEW a \in Address,
         NEW x \in Slot, Has(h.cache, x, a), x[1] >= l,
         \A y \in Slot : y[1] >= l /\ y[1] < x[1] => ~Has(h.cache, y, a)
  PROVE  fetched(h, l, a) = h.cache[x].data
<1> DEFINE levels == {k \in Level : k >= l /\ holding(h.cache, k, a) # {}}
<1>1. x[1] \in levels
  BY SlotIs, OneHolds
<1>2. \A k \in levels : x[1] <= k
  <2> SUFFICES ASSUME NEW k \in levels PROVE ~(k < x[1])
    BY SlotIs, Constants
  <2>1. PICK y \in Slot : y[1] = k /\ Has(h.cache, y, a)
    BY HoldingIs
  <2> QED BY <2>1
<1>3. levels \subseteq Nat
  BY Constants
<1>4. fetched(h, l, a) = IF levels = {} THEN [b \in Data(a) |-> h.memory[b]]
                         ELSE h.cache[one(holding(h.cache, nearest(levels), a))].data
  BY DEF fetched
<1> HIDE DEF levels
<1>5. nearest(levels) = x[1]
  <2>1. nearest(levels) \in levels /\ nearest(levels) <= x[1]
    BY <1>1, <1>3, NearestIs
  <2>2. x[1] <= nearest(levels)
    BY <1>2, <2>1
  <2>3. nearest(levels) \in Nat /\ x[1] \in Nat
    BY <1>1, <1>3, <2>1
  <2> QED BY <2>1, <2>2, <2>3
<1> QED BY <1>1, <1>4, <1>5, OneHolds

LEMMA FetchedMiss ==
  ASSUME NEW h, Shaped(h), NEW l \in Nat, NEW a \in Address,
         \A y \in Slot : y[1] >= l => ~Has(h.cache, y, a)
  PROVE  fetched(h, l, a) = [b \in Data(a) |-> h.memory[b]]
<1>1. \A k \in Level : k >= l => holding(h.cache, k, a) = {}
  BY HoldingIs
<1> QED BY <1>1 DEF fetched

\* One or the other is the case.
LEMMA Nearest ==
  ASSUME NEW c, NEW l \in Nat, NEW a, NEW z \in Slot, z[1] >= l, Has(c, z, a)
  PROVE  \E x \in Slot : /\ Has(c, x, a) /\ x[1] >= l /\ x[1] <= z[1]
                         /\ \A y \in Slot : y[1] >= l /\ y[1] < x[1] => ~Has(c, y, a)
<1> DEFINE S == {k \in Level : k >= l /\ \E x \in Slot : x[1] = k /\ Has(c, x, a)}
<1>1. S \subseteq Nat /\ z[1] \in S
  BY Constants, SlotIs
<1>2. PICK k \in S : \A j \in S : k <= j
  <2> HIDE DEF S
  <2> QED BY <1>1, Least
<1>3. PICK x \in Slot : x[1] = k /\ Has(c, x, a)
  OBVIOUS
<1>4. ASSUME NEW y \in Slot, y[1] >= l, y[1] < x[1], Has(c, y, a) PROVE FALSE
  <2>1. y[1] \in S
    BY <1>4, SlotIs
  <2> QED BY <1>2, <1>3, <1>4, <2>1, <1>1
<1> QED BY <1>1, <1>2, <1>3, <1>4

LEMMA FetchedType ==
  ASSUME NEW h, Shaped(h), NEW l \in Nat, NEW a \in Address
  PROVE  fetched(h, l, a) \in [Data(a) -> Value]
<1>1. CASE \A y \in Slot : y[1] >= l => ~Has(h.cache, y, a)
  BY <1>1, FetchedMiss, DataIs, HardwareIs DEF Shaped
<1>2. CASE \E z \in Slot : z[1] >= l /\ Has(h.cache, z, a)
  <2>1. PICK x \in Slot : /\ Has(h.cache, x, a) /\ x[1] >= l
                          /\ \A y \in Slot : y[1] >= l /\ y[1] < x[1] => ~Has(h.cache, y, a)
    BY <1>2, Nearest
  <2> QED BY <2>1, FetchedHit, HasAddress DEF Shaped
<1> QED BY <1>1, <1>2

Fills(h, g, x, v) ==
  /\ g \in HW /\ g.memory = h.memory /\ g.cache[x] = v
  /\ \A z \in Slot : z # x => g.cache[z] = h.cache[z]

LEMMA FilledIs ==
  ASSUME NEW h \in HW, NEW x \in Slot, NEW v \in Line \union {none}
  PROVE  Fills(h, filled(h, x, v), x, v)
<1> DEFINE g == filled(h, x, v)
           c == [h.cache EXCEPT ![x] = v]
<1>1. g = [cache |-> c, memory |-> h.memory]
  BY DEF filled, HW
<1>2. c \in [Slot -> Line \union {none}] /\ h.memory \in [Byte -> Value]
  BY HardwareIs
<1>3. c[x] = v /\ \A z \in Slot : z # x => c[z] = h.cache[z]
  BY HardwareIs
<1> HIDE DEF g, c
<1>4. g \in HW /\ g.cache = c /\ g.memory = h.memory
  BY <1>1, <1>2 DEF HW
<1> QED BY <1>3, <1>4 DEF g, Fills

\* What is fetched depends on the slots that have the line, and the memory of it.
SameFor(g, h, l, a) ==
  /\ \A x \in Slot : x[1] >= l =>
       /\ Has(g.cache, x, a) <=> Has(h.cache, x, a)
       /\ Has(h.cache, x, a) => g.cache[x].data = h.cache[x].data
  /\ \A b \in Data(a) : g.memory[b] = h.memory[b]

LEMMA FetchedSame ==
  ASSUME NEW g, Shaped(g), NEW h, Shaped(h), NEW l \in Nat, NEW a \in Address, SameFor(g, h, l, a)
  PROVE  fetched(g, l, a) = fetched(h, l, a)
<1>1. CASE \A y \in Slot : y[1] >= l => ~Has(h.cache, y, a)
  <2>1. \A y \in Slot : y[1] >= l => ~Has(g.cache, y, a)
    BY <1>1 DEF SameFor
  <2>2. [b \in Data(a) |-> g.memory[b]] = [b \in Data(a) |-> h.memory[b]]
    BY DEF SameFor
  <2> QED BY <1>1, <2>1, <2>2, FetchedMiss
<1>2. CASE \E z \in Slot : z[1] >= l /\ Has(h.cache, z, a)
  <2>1. PICK x \in Slot : /\ Has(h.cache, x, a) /\ x[1] >= l
                          /\ \A y \in Slot : y[1] >= l /\ y[1] < x[1] => ~Has(h.cache, y, a)
    BY <1>2, Nearest
  <2>2. Has(g.cache, x, a) /\ \A y \in Slot : y[1] >= l /\ y[1] < x[1] => ~Has(g.cache, y, a)
    BY <2>1 DEF SameFor
  <2>3. fetched(h, l, a) = h.cache[x].data
    BY <2>1, FetchedHit
  <2>4. fetched(g, l, a) = g.cache[x].data
    BY <2>1, <2>2, FetchedHit
  <2> QED BY <2>1, <2>3, <2>4 DEF SameFor
<1> QED BY <1>1, <1>2

\* Levels that have not the line are passed.
LEMMA FetchedPast ==
  ASSUME NEW h, Shaped(h), NEW l \in Nat, NEW m \in Nat, l <= m, NEW a \in Address,
         \A y \in Slot : y[1] >= l /\ y[1] < m => ~Has(h.cache, y, a)
  PROVE  fetched(h, l, a) = fetched(h, m, a)
<1>0. \A y \in Slot : y[1] \in Nat
  BY Constants, SlotIs
<1>1. CASE \A y \in Slot : y[1] >= l => ~Has(h.cache, y, a)
  <2>1. \A y \in Slot : y[1] >= m => ~Has(h.cache, y, a)
    BY <1>0, <1>1
  <2> QED BY <1>1, <2>1, FetchedMiss
<1>2. CASE \E z \in Slot : z[1] >= l /\ Has(h.cache, z, a)
  <2>1. PICK x \in Slot : /\ Has(h.cache, x, a) /\ x[1] >= l
                          /\ \A y \in Slot : y[1] >= l /\ y[1] < x[1] => ~Has(h.cache, y, a)
    BY <1>2, Nearest
  <2>2. x[1] >= m
    BY <1>0, <2>1
  <2>3. fetched(h, l, a) = h.cache[x].data
    BY <2>1, FetchedHit
  <2>4. \A y \in Slot : y[1] >= m /\ y[1] < x[1] => ~Has(h.cache, y, a)
    BY <1>0, <2>1
  <2>5. fetched(h, m, a) = h.cache[x].data
    BY <2>1, <2>2, <2>4, FetchedHit
  <2> QED BY <2>3, <2>5
<1> QED BY <1>1, <1>2

-----------------------------------------------------------------------------
(* The operations on a slot.                                               *)

\* The dirty line of slot x is copied behind: to memory, or to the nearest slot y
\* that has the line or room for it.
ToMemory(h, g, x) ==
  LET a == h.cache[x].adr
      data == h.cache[x].data
  IN /\ \A z \in Slot : z[1] > x[1] => ~Has(h.cache, z, a)
     /\ \A z \in Slot : z # x => g.cache[z] = h.cache[z]
     /\ g.memory = [b \in Byte |-> IF b \in Data(a) THEN data[b] ELSE h.memory[b]]

ToSlot(h, g, x, y) ==
  LET a == h.cache[x].adr
      data == h.cache[x].data
  IN /\ y[1] > x[1] /\ y[2] = set_of(y[1], a)
     /\ \/ Has(h.cache, y, a)
        \/ h.cache[y] = none /\ \A z \in Slot : z[1] = y[1] => ~Has(h.cache, z, a)
     /\ \A z \in Slot : z[1] > x[1] /\ z[1] < y[1] => ~Has(h.cache, z, a)
     /\ g.cache[y] = entry_of(a, TRUE, data)
     /\ \A z \in Slot : z # x /\ z # y => g.cache[z] = h.cache[z]
     /\ g.memory = h.memory

Copied(h, g, x) ==
  /\ g \in HW
  /\ g.cache[x] = entry_of(h.cache[x].adr, FALSE, h.cache[x].data)
  /\ ToMemory(h, g, x) \/ \E y \in Slot : ToSlot(h, g, x, y)

LEMMA CleanedCopies ==
  ASSUME NEW h, Shaped(h), NEW x \in Slot, h.cache[x] # none, h.cache[x].dirty
  PROVE  Copied(h, cleaned(h, x), x)
<1> DEFINE c == h.cache
           a == c[x].adr
           data == c[x].data
           h1 == filled(h, x, entry_of(a, FALSE, data))
           g == written(h1, x[1] + 1, a, data)
<1>1. cleaned(h, x) = g
  BY DEF cleaned
<1>2. c \in [Slot -> Line \union {none}] /\ h.memory \in [Byte -> Value] /\ c[x] \in Line
      /\ a \in Address /\ data \in [Data(a) -> Value] /\ c[x] = entry_of(a, TRUE, data)
      /\ Has(c, x, a) /\ h \in HW
  BY HardwareIs, LineIs DEF Shaped, Has
<1>3. Fills(h, h1, x, entry_of(a, FALSE, data))
  <2>1. entry_of(a, FALSE, data) \in Line
    BY <1>2, LineMade
  <2> QED BY <1>2, <2>1, FilledIs
<1> DEFINE from == x[1] + 1
           levels == {k \in Level : k >= from /\ place(h1.cache, k, a) # {}}
           y == one(place(h1.cache, nearest(levels), a))
<1>4. g = IF levels = {}
          THEN [h1 EXCEPT !.memory = [b \in Byte |-> IF b \in Data(a) THEN data[b] ELSE @[b]]]
          ELSE filled(h1, y, entry_of(a, TRUE, data))
  BY DEF written
<1>5. x[1] \in Nat /\ \A k \in Level : k \in Nat
  BY Constants, SlotIs
<1>6. ASSUME NEW k \in Level, k >= from
      PROVE  /\ holding(h1.cache, k, a) = {z \in Slot : z[1] = k /\ Has(c, z, a)}
             /\ free(h1.cache, k, a) = {z \in Slot : z[1] = k /\ z[2] = set_of(k, a) /\ c[z] = none}
  <2>1. ways(k, a) = {z \in Slot : z[1] = k /\ z[2] = set_of(k, a)}
    BY <1>2, WaysIs
  <2>2. \A z \in ways(k, a) : h1.cache[z] = c[z]
    <3>1. \A z \in ways(k, a) : z # x /\ z \in Slot
      BY <1>5, <1>6, <2>1
    <3> QED BY <1>3, <3>1 DEF Fills
  <2>3. holding(h1.cache, k, a) = holding(c, k, a) /\ free(h1.cache, k, a) = free(c, k, a)
    BY <2>2 DEF holding, free
  <2>4. holding(c, k, a) = {z \in Slot : z[1] = k /\ Has(c, z, a)}
    BY <1>2, HoldingIs
  <2> QED BY <2>1, <2>3, <2>4 DEF free
<1> HIDE DEF h1
<1>7. CASE levels = {}
  <2>1. g = [h1 EXCEPT !.memory = [b \in Byte |-> IF b \in Data(a) THEN data[b] ELSE @[b]]]
    BY <1>4, <1>7
  <2> DEFINE m == [b \in Byte |-> IF b \in Data(a) THEN data[b] ELSE h.memory[b]]
  <2>2. h1 \in HW /\ h1.memory = h.memory
    BY <1>3 DEF Fills
  <2>3. m \in [Byte -> Value]
    BY <1>2
  <2>4. g = [cache |-> h1.cache, memory |-> m]
    BY <2>1, <2>2 DEF HW
  <2>5. g \in HW /\ g.cache = h1.cache /\ g.memory = m
    <3> HIDE DEF g, m
    <3> QED BY <2>2, <2>3, <2>4 DEF HW
  <2>6. \A z \in Slot : z[1] > x[1] => ~Has(c, z, a)
    <3> SUFFICES ASSUME NEW z \in Slot, z[1] > x[1], Has(c, z, a) PROVE FALSE
      OBVIOUS
    <3>1. z[1] \in Level /\ z[1] >= from
      BY <1>5, SlotIs
    <3>2. z \in holding(h1.cache, z[1], a)
      BY <1>6, <3>1
    <3> QED BY <1>7, <3>1, <3>2 DEF place
  <2>7. ToMemory(h, g, x)
    <3> HIDE DEF g
    <3> QED BY <1>3, <2>5, <2>6 DEF ToMemory, Fills
  <2> HIDE DEF g
  <2> QED BY <1>1, <1>3, <2>5, <2>7 DEF Copied, Fills
<1>8. CASE levels # {}
  <2> DEFINE l == nearest(levels)
  <2>1. l \in levels /\ \A k \in levels : l <= k
    <3>1. levels \subseteq Nat
      BY <1>5
    <3> HIDE DEF levels
    <3> QED BY <1>8, <3>1, NearestIs
  <2>2. l \in Level /\ l >= from /\ place(h1.cache, l, a) # {}
    BY <2>1
  <2>3. y \in place(h1.cache, l, a)
    BY <2>2 DEF one
  <2> HIDE DEF l, y
  <2>4. y \in Slot /\ y[1] = l
        /\ \/ Has(c, y, a)
           \/ y[2] = set_of(l, a) /\ c[y] = none /\ \A z \in Slot : z[1] = l => ~Has(c, z, a)
    BY <1>6, <2>2, <2>3 DEF place
  <2>5. y[1] > x[1] /\ y[2] = set_of(y[1], a) /\ y # x
    <3>1. y[2] = set_of(y[1], a)
      BY <2>4 DEF Shaped, Placed, Has
    <3> QED BY <1>5, <2>2, <2>4, <3>1
  <2>6. \A z \in Slot : z[1] > x[1] /\ z[1] < y[1] => ~Has(c, z, a)
    <3> SUFFICES ASSUME NEW z \in Slot, z[1] > x[1], z[1] < y[1], Has(c, z, a) PROVE FALSE
      OBVIOUS
    <3>1. z[1] \in Level /\ z[1] >= from
      BY <1>5, SlotIs
    <3>2. z \in holding(h1.cache, z[1], a)
      BY <1>6, <3>1
    <3>3. z[1] \in levels
      BY <3>1, <3>2 DEF place
    <3>4. l <= z[1]
      BY <2>1, <3>3
    <3> QED BY <1>5, <2>2, <2>4, <3>1, <3>4
  <2>7. Fills(h1, g, y, entry_of(a, TRUE, data))
    <3>1. g = filled(h1, y, entry_of(a, TRUE, data))
      BY <1>4, <1>8 DEF y
    <3>2. entry_of(a, TRUE, data) \in Line
      BY <1>2, LineMade
    <3>3. h1 \in HW
      BY <1>3 DEF Fills
    <3>4. Fills(h1, filled(h1, y, entry_of(a, TRUE, data)), y, entry_of(a, TRUE, data))
      BY <2>4, <3>2, <3>3, FilledIs
    <3> HIDE DEF g
    <3> QED BY <3>1, <3>4
  <2> HIDE DEF g
  <2>8. ToSlot(h, g, x, y)
    <3>1. g.memory = h.memory /\ g.cache[y] = entry_of(a, TRUE, data)
      BY <1>3, <2>7 DEF Fills
    <3>2. \A z \in Slot : z # x /\ z # y => g.cache[z] = c[z]
      BY <1>3, <2>7 DEF Fills
    <3> QED BY <2>4, <2>5, <2>6, <3>1, <3>2 DEF ToSlot
  <2>9. g \in HW /\ g.cache[x] = entry_of(a, FALSE, data)
    BY <1>3, <2>5, <2>7 DEF Fills
  <2> QED BY <1>1, <2>4, <2>8, <2>9 DEF Copied
<1> QED BY <1>7, <1>8

\* What a clean leaves: the same fetched from the first level on, line x no longer
\* dirty, the other lines as they were but for one further behind.
LEMMA CopiedKeeps ==
  ASSUME NEW h, Good(h), NEW x \in Slot, h.cache[x] # none, h.cache[x].dirty,
         NEW g, Copied(h, g, x)
  PROVE  Good(g) /\ \A b \in Address : fetched(g, 1, b) = fetched(h, 1, b)
<1> DEFINE c == h.cache
           a == c[x].adr
           data == c[x].data
           e == g.cache
<1>1. h \in HW /\ g \in HW /\ Shaped(h) /\ c[x] \in Line /\ a \in Address /\ Has(c, x, a)
      /\ data \in [Data(a) -> Value]
  BY HardwareIs, LineIs DEF Good, Shaped, Has, Copied
<1>0. ASSUME NEW d \in BOOLEAN
      PROVE  LET r == entry_of(a, d, data)
             IN r # none /\ r.adr = a /\ r.dirty = d /\ r.data = data
  <2> HIDE DEF a, data
  <2> QED BY <1>1, LineMade
<1>2. e[x] = entry_of(a, FALSE, data) /\ Has(e, x, a) /\ e[x].data = data
      /\ ~e[x].dirty /\ e[x] # none
  <2>1. e[x] = entry_of(a, FALSE, data)
    BY DEF Copied
  <2>2. /\ entry_of(a, FALSE, data) # none /\ entry_of(a, FALSE, data).adr = a
        /\ entry_of(a, FALSE, data).dirty = FALSE /\ entry_of(a, FALSE, data).data = data
    BY <1>0
  <2> HIDE DEF e, a, data
  <2> QED BY <2>1, <2>2 DEF Has
<1>3. \A z \in Slot : z[1] \in Nat /\ z[1] >= 1
  BY SlotIs, Constants
\* The other slots: as they were, or with line a further behind.
<1>4. ASSUME NEW z \in Slot, z # x
      PROVE  \/ e[z] = c[z]
             \/ /\ ToSlot(h, g, x, z) /\ z[1] > x[1] /\ z[2] = set_of(z[1], a)
                /\ Has(e, z, a) /\ e[z].data = data /\ e[z].dirty
                /\ Has(c, z, a) \/ c[z] = none
  <2>1. e[z] = c[z] \/ ToSlot(h, g, x, z)
    BY <1>4 DEF Copied, ToMemory, ToSlot
  <2>2. ASSUME ToSlot(h, g, x, z)
        PROVE  /\ z[1] > x[1] /\ z[2] = set_of(z[1], a)
               /\ Has(e, z, a) /\ e[z].data = data /\ e[z].dirty
               /\ Has(c, z, a) \/ c[z] = none
    <3>1. e[z] = entry_of(a, TRUE, data) /\ z[1] > x[1] /\ z[2] = set_of(z[1], a)
          /\ (Has(c, z, a) \/ c[z] = none)
      BY <2>2 DEF ToSlot
    <3>2. /\ entry_of(a, TRUE, data) # none /\ entry_of(a, TRUE, data).adr = a
          /\ entry_of(a, TRUE, data).dirty = TRUE /\ entry_of(a, TRUE, data).data = data
      BY <1>0
    <3> HIDE DEF e, a, data
    <3> QED BY <3>1, <3>2 DEF Has
  <2> QED BY <2>1, <2>2
<1>5. ASSUME NEW b \in Address, b # a, NEW l \in Nat PROVE SameFor(g, h, l, b)
  <2>1. ASSUME NEW z \in Slot
        PROVE  (Has(e, z, b) <=> Has(c, z, b)) /\ (Has(c, z, b) => e[z].data = c[z].data)
    <3>1. CASE z = x
      BY <1>1, <1>2, <1>5, <3>1 DEF Has
    <3>2. CASE z # x
      BY <1>4, <1>5, <3>2 DEF Has
    <3> QED BY <3>1, <3>2
  <2>2. ASSUME NEW t \in Data(b) PROVE g.memory[t] = h.memory[t]
    <3>1. t \in Byte /\ t \notin Data(a)
      BY <1>1, <1>5, DataIs, LineOf
    <3> QED BY <3>1, ZenonT(40) DEF Copied, ToMemory, ToSlot
  <2> QED BY <2>1, <2>2 DEF SameFor
<1>6. Shaped(g)
  <2>1. Placed(e)
    <3> SUFFICES ASSUME NEW z \in Slot, e[z] # none PROVE z[2] = set_of(z[1], e[z].adr)
      BY DEF Placed
    <3>1. CASE z = x
      BY <1>1, <1>2, <3>1 DEF Has, Shaped, Placed
    <3>2. CASE z # x
      BY <1>1, <1>4, <3>2 DEF Has, Shaped, Placed
    <3> QED BY <3>1, <3>2
  <2>2. ASSUME NEW z \in Slot, NEW w \in Slot, Has(e, z, a), Has(e, w, a), z[1] = w[1], w # x,
               ~Has(c, w, a)
        PROVE  z = w
    <3>1. ToSlot(h, g, x, w) /\ w[1] > x[1] /\ ~Has(c, w, a)
      BY <1>4, <2>2 DEF Has
    <3>2. \A v \in Slot : v[1] = w[1] => ~Has(c, v, a)
      BY <3>1 DEF ToSlot
    <3>3. z # x
      BY <1>1, <2>2, <3>2
    <3>4. SUFFICES ASSUME z # w PROVE FALSE
      OBVIOUS
    <3>5. e[z] = c[z]
      BY <3>1, <3>3, <3>4 DEF ToSlot
    <3> QED BY <2>2, <3>2, <3>5 DEF Has
  <2>3. Once(e)
    <3> SUFFICES ASSUME NEW z \in Slot, NEW w \in Slot, NEW b \in Address,
                        Has(e, z, b), Has(e, w, b), z[1] = w[1]
                 PROVE  z = w
      BY DEF Once
    <3>1. CASE b # a
      <4>1. SameFor(g, h, 0, b)
        BY <1>5, <3>1
      <4>2. Has(c, z, b) /\ Has(c, w, b)
        BY <1>3, <4>1 DEF SameFor
      <4> QED BY <1>1, <4>2 DEF Shaped, Once
    <3>2. CASE b = a
      <4>1. CASE Has(c, z, a) /\ Has(c, w, a)
        BY <1>1, <4>1 DEF Shaped, Once
      <4>2. CASE ~Has(c, w, a)
        BY <1>1, <2>2, <3>2, <4>2
      <4>3. CASE ~Has(c, z, a)
        BY <1>1, <2>2, <3>2, <4>3
      <4> QED BY <4>1, <4>2, <4>3
    <3> QED BY <3>1, <3>2
  <2> QED BY <1>1, <2>1, <2>3 DEF Shaped
<1>7. ASSUME NEW b \in Address, b # a, NEW l \in Nat PROVE fetched(g, l, b) = fetched(h, l, b)
  <2>1. SameFor(g, h, l, b)
    BY <1>5, <1>7
  <2> QED BY <1>1, <1>6, <2>1, FetchedSame
<1>8. ASSUME NEW l \in Nat, l <= x[1] PROVE fetched(g, l, a) = fetched(h, l, a)
  <2>1. PICK w \in Slot : /\ Has(c, w, a) /\ w[1] >= l /\ w[1] <= x[1]
                          /\ \A y \in Slot : y[1] >= l /\ y[1] < w[1] => ~Has(c, y, a)
    BY <1>1, <1>3, <1>8, Nearest
  <2>2. \A y \in Slot : y[1] <= x[1] /\ y # x => e[y] = c[y]
    BY <1>3, <1>4
  <2>3. \A y \in Slot : y[1] >= l /\ y[1] < w[1] => ~Has(e, y, a)
    BY <1>3, <2>1, <2>2 DEF Has
  <2>4. Has(e, w, a) /\ e[w].data = c[w].data
    BY <1>2, <2>1, <2>2 DEF Has
  <2>5. fetched(g, l, a) = e[w].data
    BY <1>1, <1>6, <2>1, <2>3, <2>4, FetchedHit
  <2>6. fetched(h, l, a) = c[w].data
    BY <1>1, <2>1, FetchedHit
  <2> QED BY <2>4, <2>5, <2>6
<1>9. fetched(g, x[1] + 1, a) = data
  <2>0. x[1] + 1 \in Nat
    BY <1>3
  <2>1. CASE ToMemory(h, g, x)
    <3>1. \A z \in Slot : z[1] >= x[1] + 1 => ~Has(e, z, a)
      <4> SUFFICES ASSUME NEW z \in Slot, z[1] >= x[1] + 1 PROVE ~Has(e, z, a)
        OBVIOUS
      <4>1. z[1] > x[1] /\ z # x
        BY <1>3
      <4> QED BY <2>1, <4>1 DEF ToMemory, Has
    <3>2. fetched(g, x[1] + 1, a) = [b \in Data(a) |-> g.memory[b]]
      BY <1>1, <1>6, <2>0, <3>1, FetchedMiss
    <3>3. \A b \in Data(a) : g.memory[b] = data[b]
      BY <1>1, <2>1, DataIs DEF ToMemory
    <3> QED BY <1>1, <3>2, <3>3
  <2>2. ASSUME NEW y \in Slot, ToSlot(h, g, x, y) PROVE fetched(g, x[1] + 1, a) = data
    <3>1. y[1] > x[1] /\ y[1] >= x[1] + 1 /\ y # x
      BY <1>3, <2>2 DEF ToSlot
    <3>2. Has(e, y, a) /\ e[y].data = data
      <4>1. e[y] = entry_of(a, TRUE, data)
        BY <2>2 DEF ToSlot
      <4>2. entry_of(a, TRUE, data) # none /\ entry_of(a, TRUE, data).adr = a
            /\ entry_of(a, TRUE, data).data = data
        BY <1>0
      <4> HIDE DEF e, a, data
      <4> QED BY <4>1, <4>2 DEF Has
    <3>3. \A z \in Slot : z[1] >= x[1] + 1 /\ z[1] < y[1] => ~Has(e, z, a)
      <4> SUFFICES ASSUME NEW z \in Slot, z[1] >= x[1] + 1, z[1] < y[1] PROVE ~Has(e, z, a)
        OBVIOUS
      <4>1. z[1] > x[1] /\ z # x /\ z # y
        BY <1>3
      <4> QED BY <2>2, <4>1 DEF ToSlot, Has
    <3> QED BY <1>1, <1>6, <2>0, <3>1, <3>2, <3>3, FetchedHit
  <2> QED BY <2>1, <2>2 DEF Copied
<1>10. CleanAgrees(g)
  <2> SUFFICES ASSUME NEW z \in Slot, e[z] # none, ~e[z].dirty
               PROVE  e[z].data = fetched(g, z[1] + 1, e[z].adr)
    BY DEF CleanAgrees
  <2>1. CASE z = x
    BY <1>2, <1>9, <2>1 DEF Has
  <2>2. CASE z # x
    <3>1. e[z] = c[z] /\ ~ToSlot(h, g, x, z)
      <4>1. ~ToSlot(h, g, x, z)
        <5> SUFFICES ASSUME ToSlot(h, g, x, z) PROVE FALSE
          OBVIOUS
        <5>1. e[z] = entry_of(a, TRUE, data)
          BY DEF ToSlot
        <5>2. entry_of(a, TRUE, data).dirty = TRUE
          BY <1>0
        <5> HIDE DEF e, a, data
        <5> QED BY <5>1, <5>2
      <4> QED BY <1>4, <2>2, <4>1
    <3> DEFINE b == c[z].adr
    <3>2. b \in Address /\ Has(c, z, b) /\ z[1] + 1 \in Nat /\ e[z].adr = b
      BY <1>1, <1>3, <3>1, HardwareIs, LineIs DEF Has
    <3>3. c[z].data = fetched(h, z[1] + 1, b)
      BY <3>1 DEF Good, CleanAgrees
    <3>4. SUFFICES fetched(g, z[1] + 1, b) = fetched(h, z[1] + 1, b)
      BY <3>1, <3>2, <3>3
    <3>5. CASE b # a
      BY <1>7, <3>2, <3>5
    <3>6. CASE b = a
      <4>1. z[1] # x[1]
        BY <1>1, <2>2, <3>2, <3>6 DEF Shaped, Once
      <4>2. CASE z[1] < x[1]
        <5>1. z[1] + 1 <= x[1]
          BY <1>3, <4>2
        <5> QED BY <1>8, <3>2, <3>6, <5>1
      <4>3. CASE z[1] > x[1]
        <5>1. PICK y \in Slot : ToSlot(h, g, x, y)
          BY <3>2, <3>6, <4>3 DEF Copied, ToMemory
        <5>2. y # z
          BY <3>1, <5>1
        <5>3. y[1] # z[1]
          BY <1>1, <3>2, <3>6, <5>1, <5>2 DEF ToSlot, Shaped, Once
        <5>4. ~(z[1] < y[1])
          BY <3>2, <3>6, <4>3, <5>1 DEF ToSlot
        <5>5. y[1] < z[1]
          BY <1>3, <5>3, <5>4
        <5>6. SameFor(g, h, z[1] + 1, a)
          <6>1. ASSUME NEW v \in Slot, v[1] >= z[1] + 1 PROVE e[v] = c[v]
            <7>1. v # x /\ v # y
              BY <1>3, <4>3, <5>5, <6>1
            <7> QED BY <5>1, <7>1 DEF ToSlot
          <6>2. g.memory = h.memory
            BY <5>1 DEF ToSlot
          <6> QED BY <6>1, <6>2 DEF SameFor, Has
        <5> QED BY <1>1, <1>6, <3>2, <3>6, <5>6, FetchedSame
      <4> QED BY <1>3, <4>1, <4>2, <4>3
    <3> QED BY <3>5, <3>6
  <2> QED BY <2>1, <2>2
<1>11. Good(g)
  BY <1>6, <1>10 DEF Good
<1>12. ASSUME NEW b \in Address PROVE fetched(g, 1, b) = fetched(h, 1, b)
  BY <1>3, <1>7, <1>8
<1> QED BY <1>11, <1>12

LEMMA InvalidatedIs ==
  ASSUME NEW h, Shaped(h), NEW x \in Slot
  PROVE  Shaped(invalidated(h, x)) /\ Fills(h, invalidated(h, x), x, none)
<1> DEFINE g == invalidated(h, x)
<1>1. Fills(h, g, x, none)
  BY FilledIs DEF Shaped, invalidated
<1> HIDE DEF g
<1>2. \A z \in Slot : g.cache[z] # none => z # x /\ g.cache[z] = h.cache[z]
  BY <1>1 DEF Fills
<1>3. Placed(g.cache) /\ Once(g.cache)
  BY <1>2 DEF Shaped, Placed, Once, Has
<1> QED BY <1>1, <1>3 DEF g, Shaped, Fills

\* What is not in the slot is not touched, nor what is behind it.
LEMMA InvalidatedSame ==
  ASSUME NEW h, Shaped(h), NEW x \in Slot, NEW b \in Address, NEW l \in Nat,
         ~Has(h.cache, x, b) \/ l > x[1]
  PROVE  fetched(invalidated(h, x), l, b) = fetched(h, l, b)
<1> DEFINE g == invalidated(h, x)
<1>1. Shaped(g) /\ Fills(h, g, x, none)
  BY InvalidatedIs
<1> HIDE DEF g
<1>2. SameFor(g, h, l, b)
  <2>1. ASSUME NEW z \in Slot, z[1] >= l
        PROVE  (Has(g.cache, z, b) <=> Has(h.cache, z, b))
               /\ (Has(h.cache, z, b) => g.cache[z].data = h.cache[z].data)
    <3>1. CASE z = x
      <4>1. ~Has(h.cache, x, b)
        BY <2>1, <3>1, SlotIs, Constants
      <4> QED BY <1>1, <3>1, <4>1 DEF Fills, Has
    <3>2. CASE z # x
      BY <1>1, <3>2 DEF Fills, Has
    <3> QED BY <3>1, <3>2
  <2> QED BY <1>1, <2>1 DEF SameFor, Fills
<1> QED BY <1>1, <1>2, FetchedSame DEF g

\* A line that is not dirty may go.
LEMMA InvalidateClean ==
  ASSUME NEW h, Good(h), NEW x \in Slot, h.cache[x] = none \/ ~h.cache[x].dirty
  PROVE  Good(invalidated(h, x))
         /\ \A b \in Address : fetched(invalidated(h, x), 1, b) = fetched(h, 1, b)
<1> DEFINE g == invalidated(h, x)
           c == h.cache
<1>1. Shaped(h) /\ Shaped(g) /\ Fills(h, g, x, none)
  BY InvalidatedIs DEF Good
<1>2. \A z \in Slot : z[1] \in Nat /\ z[1] >= 1 /\ z[1] + 1 \in Nat
  BY SlotIs, Constants
<1>3. ASSUME NEW b \in Address, NEW l \in Nat PROVE fetched(g, l, b) = fetched(h, l, b)
  <2>1. CASE ~Has(c, x, b) \/ l > x[1]
    BY <1>1, <2>1, InvalidatedSame
  <2>2. CASE Has(c, x, b) /\ l <= x[1]
    <3>1. PICK w \in Slot : /\ Has(c, w, b) /\ w[1] >= l /\ w[1] <= x[1]
                            /\ \A y \in Slot : y[1] >= l /\ y[1] < w[1] => ~Has(c, y, b)
      BY <1>2, <2>2, Nearest
    <3>2. fetched(h, l, b) = c[w].data
      BY <1>1, <3>1, FetchedHit
    <3> HIDE DEF g
    <3>3. \A y \in Slot : Has(g.cache, y, b) => Has(c, y, b) /\ y # x
      BY <1>1 DEF Fills, Has
    <3>4. CASE w # x
      <4>1. Has(g.cache, w, b) /\ g.cache[w].data = c[w].data
        BY <1>1, <3>1, <3>4 DEF Fills, Has
      <4>2. fetched(g, l, b) = g.cache[w].data
        BY <1>1, <3>1, <3>3, <4>1, FetchedHit
      <4> QED BY <3>2, <4>1, <4>2
    <3>5. CASE w = x
      <4>1. \A y \in Slot : y[1] >= l /\ y[1] < x[1] + 1 => ~Has(g.cache, y, b)
        <5> SUFFICES ASSUME NEW y \in Slot, y[1] >= l, y[1] < x[1] + 1, Has(g.cache, y, b)
                       PROVE  FALSE
          OBVIOUS
        <5>1. Has(c, y, b) /\ y # x
          BY <3>3
        <5>2. y[1] = x[1]
          BY <1>2, <3>1, <3>5, <5>1
        <5> QED BY <1>1, <2>2, <5>1, <5>2 DEF Shaped, Once
      <4>2. fetched(g, l, b) = fetched(g, x[1] + 1, b)
        BY <1>1, <1>2, <2>2, <4>1, FetchedPast
      <4>3. fetched(g, x[1] + 1, b) = fetched(h, x[1] + 1, b)
        BY <1>1, <1>2, InvalidatedSame DEF g
      <4>4. c[x].data = fetched(h, x[1] + 1, b)
        BY <2>2 DEF Good, CleanAgrees, Has
      <4> QED BY <3>2, <3>5, <4>2, <4>3, <4>4
    <3> QED BY <3>4, <3>5
  <2> QED BY <1>2, <2>1, <2>2
<1>4. CleanAgrees(g)
  <2> SUFFICES ASSUME NEW z \in Slot, g.cache[z] # none, ~g.cache[z].dirty
               PROVE  g.cache[z].data = fetched(g, z[1] + 1, g.cache[z].adr)
    BY DEF CleanAgrees
  <2> HIDE DEF g
  <2>1. g.cache[z] = c[z]
    BY <1>1 DEF Fills
  <2>2. c[z].adr \in Address
    BY <1>1, <2>1, HardwareIs, LineIs DEF Shaped
  <2>3. c[z].data = fetched(h, z[1] + 1, c[z].adr)
    BY <2>1 DEF Good, CleanAgrees
  <2> QED BY <1>2, <1>3, <2>1, <2>2, <2>3
<1> QED BY <1>1, <1>3, <1>4 DEF Good

\* So may one that no nearer level has, and then only that line is another.
LEMMA InvalidateNear ==
  ASSUME NEW h, Good(h), NEW x \in Slot,
         \A a \in Address : Has(h.cache, x, a) =>
           \A y \in Slot : y[1] < x[1] => ~Has(h.cache, y, a)
  PROVE  Good(invalidated(h, x))
         /\ \A b \in Address : ~Has(h.cache, x, b) =>
              fetched(invalidated(h, x), 1, b) = fetched(h, 1, b)
<1> DEFINE g == invalidated(h, x)
           c == h.cache
<1>1. Shaped(h) /\ Shaped(g) /\ Fills(h, g, x, none)
  BY InvalidatedIs DEF Good
<1>2. \A z \in Slot : z[1] \in Nat /\ z[1] + 1 \in Nat
  BY SlotIs, Constants
<1>3. CleanAgrees(g)
  <2> SUFFICES ASSUME NEW z \in Slot, g.cache[z] # none, ~g.cache[z].dirty
               PROVE  g.cache[z].data = fetched(g, z[1] + 1, g.cache[z].adr)
    BY DEF CleanAgrees
  <2> HIDE DEF g
  <2> DEFINE b == c[z].adr
  <2>1. g.cache[z] = c[z] /\ z # x
    BY <1>1 DEF Fills
  <2>2. b \in Address /\ Has(c, z, b)
    BY <1>1, <2>1, HardwareIs, LineIs DEF Shaped, Has
  <2>3. c[z].data = fetched(h, z[1] + 1, b)
    BY <2>1 DEF Good, CleanAgrees
  <2>4. ~Has(c, x, b) \/ z[1] + 1 > x[1]
    <3> SUFFICES ASSUME Has(c, x, b) PROVE z[1] > x[1]
      BY <1>2
    <3>1. ~(z[1] < x[1])
      BY <2>2
    <3>2. z[1] # x[1]
      BY <1>1, <2>1, <2>2 DEF Shaped, Once
    <3> QED BY <1>2, <3>1, <3>2
  <2>5. fetched(g, z[1] + 1, b) = fetched(h, z[1] + 1, b)
    BY <1>1, <1>2, <2>2, <2>4, InvalidatedSame DEF g
  <2> QED BY <2>1, <2>3, <2>5
<1>4. \A b \in Address : ~Has(c, x, b) => fetched(g, 1, b) = fetched(h, 1, b)
  BY <1>1, InvalidatedSame
<1> QED BY <1>1, <1>3, <1>4 DEF Good

\* What an operation on slot x is for, and what it does elsewhere.
Bare(c, x, what) == c[x] = none \/ (what = "clean" /\ ~c[x].dirty)

Elsewhere(h, g, x) ==
  \A z \in Slot : z # x =>
    \/ g.cache[z] = h.cache[z]
    \/ z[1] > x[1] /\ \E a \in Address : Has(h.cache, x, a) /\ Has(g.cache, z, a)

OpDone(h, g, x, what) ==
  /\ Good(g) /\ Bare(g.cache, x, what) /\ Elsewhere(h, g, x)
  /\ \A a \in Address : Has(g.cache, x, a) => Has(h.cache, x, a)
  /\ \A b \in Address : (what = "invalidate" => ~Has(h.cache, x, b)) =>
       fetched(g, 1, b) = fetched(h, 1, b)

What == {"clean", "invalidate", "clean invalidate"}

LEMMA CleanedIs ==
  ASSUME NEW h, Good(h), NEW x \in Slot
  PROVE  OpDone(h, cleaned(h, x), x, "clean")
<1> DEFINE g == cleaned(h, x)
<1>1. CASE h.cache[x] = none \/ ~h.cache[x].dirty
  <2>1. g = h
    BY <1>1 DEF cleaned
  <2> HIDE DEF g
  <2> QED BY <1>1, <2>1 DEF OpDone, Bare, Elsewhere, g
<1>2. CASE h.cache[x] # none /\ h.cache[x].dirty
  <2>1. Copied(h, g, x)
    BY <1>2, CleanedCopies DEF Good
  <2> HIDE DEF g
  <2>2. Good(g) /\ \A b \in Address : fetched(g, 1, b) = fetched(h, 1, b)
    BY <1>2, <2>1, CopiedKeeps
  <2> DEFINE a == h.cache[x].adr
             data == h.cache[x].data
  <2>3. a \in Address /\ data \in [Data(a) -> Value] /\ Has(h.cache, x, a)
    BY <1>2, HardwareIs, LineIs DEF Good, Shaped, Has
  <2>4. ASSUME NEW d \in BOOLEAN
        PROVE  entry_of(a, d, data) # none /\ entry_of(a, d, data).adr = a
               /\ entry_of(a, d, data).dirty = d
    <3> HIDE DEF a, data
    <3> QED BY <2>3, LineMade
  <2>5. g.cache[x] = entry_of(a, FALSE, data)
    BY <2>1 DEF Copied
  <2>6. Bare(g.cache, x, "clean") /\ \A b \in Address : Has(g.cache, x, b) => Has(h.cache, x, b)
    <3> HIDE DEF a, data
    <3> QED BY <2>3, <2>4, <2>5 DEF Bare, Has
  <2>7. Elsewhere(h, g, x)
    <3> SUFFICES ASSUME NEW z \in Slot, z # x, g.cache[z] # h.cache[z]
                 PROVE  z[1] > x[1] /\ Has(g.cache, z, a)
      BY <2>3 DEF Elsewhere
    <3>1. ToSlot(h, g, x, z)
      BY <2>1 DEF Copied, ToMemory, ToSlot
    <3>2. z[1] > x[1] /\ g.cache[z] = entry_of(a, TRUE, data)
      BY <3>1 DEF ToSlot
    <3> HIDE DEF a, data
    <3> QED BY <2>4, <3>2 DEF Has
  <2> QED BY <2>2, <2>6, <2>7 DEF OpDone, g
<1> QED BY <1>1, <1>2

LEMMA OpIs ==
  ASSUME NEW h, Good(h), NEW x \in Slot, NEW what \in What,
         what = "invalidate" =>
           \A a \in Address : Has(h.cache, x, a) =>
             \A y \in Slot : y[1] < x[1] => ~Has(h.cache, y, a)
  PROVE  OpDone(h, op(h, x, what), x, what)
<1>1. CASE what = "clean"
  <2>1. op(h, x, what) = cleaned(h, x)
    BY <1>1 DEF op
  <2> QED BY <1>1, <2>1, CleanedIs
<1>2. CASE what = "invalidate"
  <2> DEFINE g == invalidated(h, x)
  <2>1. op(h, x, what) = g
    BY <1>2 DEF op
  <2>2. Good(g) /\ \A b \in Address : ~Has(h.cache, x, b) => fetched(g, 1, b) = fetched(h, 1, b)
    BY <1>2, InvalidateNear
  <2>3. Fills(h, g, x, none)
    BY InvalidatedIs DEF Good
  <2> HIDE DEF g
  <2> QED BY <1>2, <2>1, <2>2, <2>3 DEF OpDone, Bare, Elsewhere, Fills, Has
<1>3. CASE what = "clean invalidate"
  <2> DEFINE f == cleaned(h, x)
             g == invalidated(f, x)
  <2>1. op(h, x, what) = g
    BY <1>3 DEF op
  <2>2. OpDone(h, f, x, "clean")
    BY CleanedIs
  <2> HIDE DEF f
  <2>3. Good(f) /\ (f.cache[x] = none \/ ~f.cache[x].dirty)
    BY <2>2 DEF OpDone, Bare
  <2>4. Good(g) /\ \A b \in Address : fetched(g, 1, b) = fetched(f, 1, b)
    BY <2>3, InvalidateClean
  <2>5. Fills(f, g, x, none)
    BY <2>3, InvalidatedIs DEF Good
  <2> HIDE DEF g
  <2>6. Elsewhere(h, g, x)
    <3> SUFFICES ASSUME NEW z \in Slot, z # x
                 PROVE  \/ g.cache[z] = h.cache[z]
                        \/ /\ z[1] > x[1]
                           /\ \E a \in Address : Has(h.cache, x, a) /\ Has(g.cache, z, a)
      BY DEF Elsewhere
    <3>1. g.cache[z] = f.cache[z]
      BY <2>5 DEF Fills
    <3> QED BY <2>2, <3>1 DEF OpDone, Elsewhere, Has
  <2>7. \A b \in Address : fetched(g, 1, b) = fetched(h, 1, b)
    BY <2>2, <2>4 DEF OpDone
  <2>8. g.cache[x] = none
    BY <2>5 DEF Fills
  <2> QED BY <2>1, <2>4, <2>6, <2>7, <2>8 DEF OpDone, Bare, Has
<1> QED BY <1>1, <1>2, <1>3 DEF What

words_done(h, s, what) == in_turn(h, s, LAMBDA g, v : op(g, slot_of(v), what))

WordsTurn(h, s, what) ==
  \E f : /\ f[0] = h /\ \A k \in 1 .. Len(s) : f[k] = op(f[k-1], slot_of(s[k]), what)
        /\ words_done(h, s, what) = f[Len(s)]

LEMMA WordsInTurn ==
  ASSUME NEW h, NEW s, Len(s) \in Nat, NEW what
  PROVE  WordsTurn(h, s, what)
<1> DEFINE n == Len(s)
           Is(f, j) == f = [k \in 0 .. j |-> IF k = 0 THEN h ELSE op(f[k-1], slot_of(s[k]), what)]
           Bad == {j \in Nat : ~ \E f : Is(f, j)}
<1>1. Bad = {}
  <2> SUFFICES ASSUME Bad # {} PROVE FALSE
    OBVIOUS
  <2>1. PICK j \in Bad : \A k \in Bad : j <= k
    <3>1. Bad \subseteq Nat
      OBVIOUS
    <3> HIDE DEF Bad
    <3> QED BY <3>1, Least
  <2>2. j # 0
    <3>1. Is([k \in 0 .. 0 |-> h], 0)
      OBVIOUS
    <3> QED BY <3>1
  <2>3. PICK f : Is(f, j - 1)
    <3>1. j - 1 \in Nat /\ ~(j <= j - 1)
      BY <2>1, <2>2
    <3>2. j - 1 \notin Bad
      BY <2>1, <3>1
    <3> HIDE DEF Is
    <3> QED BY <3>1, <3>2
  <2> DEFINE last == op(f[j-1], slot_of(s[j]), what)
             e == [k \in 0 .. j |-> IF k < j THEN f[k] ELSE last]
  <2>4. \A k \in 0 .. j : e[k] = (IF k = 0 THEN h ELSE op(e[k-1], slot_of(s[k]), what))
    <3> TAKE k \in 0 .. j
    <3>1. CASE k < j
      <4>1. k \in 0 .. j - 1 /\ (k # 0 => k - 1 \in 0 .. j /\ k - 1 < j)
        BY <2>1, <3>1
      <4>2. f[k] = (IF k = 0 THEN h ELSE op(f[k-1], slot_of(s[k]), what))
        BY <2>3, <4>1
      <4>3. e[k] = f[k] /\ (k # 0 => e[k-1] = f[k-1])
        BY <3>1, <4>1
      <4> HIDE DEF e
      <4> QED BY <4>2, <4>3
    <3>2. CASE k = j
      <4>1. j - 1 \in 0 .. j /\ j - 1 < j /\ j \in 0 .. j
        BY <2>1, <2>2
      <4>2. e[j-1] = f[j-1] /\ e[j] = last
        BY <4>1
      <4> HIDE DEF e
      <4> QED BY <2>2, <3>2, <4>2
    <3> QED BY <3>1, <3>2
  <2>5. e = [k \in 0 .. j |-> e[k]]
    OBVIOUS
  <2> HIDE DEF e
  <2>6. Is(e, j)
    BY <2>4, <2>5
  <2> QED BY <2>1, <2>6
<1>2. \E f : Is(f, n)
  BY <1>1
<1> DEFINE f == CHOOSE f : Is(f, n)
<1>3. Is(f, n)
  BY <1>2
<1>4. words_done(h, s, what) = f[n]
  BY DEF words_done, in_turn
<1> HIDE DEF f
<1>5. f[0] = h /\ \A k \in 1 .. n : f[k] = op(f[k-1], slot_of(s[k]), what)
  BY <1>3
<1> QED BY <1>4, <1>5 DEF WordsTurn

-----------------------------------------------------------------------------
(* Words that name a slot.                                                 *)

LEMMA LogIs ==
  ASSUME NEW n \in Nat \ {0}, NEW j \in 0 .. WIDTH, n <= 2^j
  PROVE  log_2_n_round_up(n) \in 0 .. j /\ n <= 2^log_2_n_round_up(n)
<1> DEFINE S == {k \in 0 .. WIDTH : 2^k >= n}
           T == {k \in 0 .. WIDTH : 2^k >= n /\ (k > 0 => 2^(k-1) < n)}
<1>1. PICK m \in S : \A k \in S : m <= k
  <2>1. S \subseteq Nat /\ j \in S
    BY PowerType, Constants
  <2> HIDE DEF S
  <2> QED BY <2>1, Least
<1>2. m \in T
  <2>1. ASSUME m > 0 PROVE 2^(m-1) < n
    <3>1. m - 1 \in 0 .. WIDTH /\ m - 1 \notin S
      BY <1>1, <2>1, Constants
    <3> QED BY <3>1, PowerType
  <2> QED BY <1>1, <2>1
<1>3. \A k \in T : k <= j
  <2> SUFFICES ASSUME NEW k \in T, k > j PROVE FALSE
    BY Constants
  <2>1. k - 1 \in 0 .. WIDTH /\ j \in 0 .. k - 1 /\ 2^(k-1) < n /\ WIDTH \in Nat
    BY Constants
  <2>2. 2^j <= 2^(k-1)
    BY <2>1, PowerType, PowersMonotone
  <2> QED BY <2>1, <2>2, PowerType
<1>4. log_2_n_round_up(n) = CHOOSE k \in T : TRUE
  BY DEF log_2_n_round_up
<1>5. log_2_n_round_up(n) \in T
  <2> HIDE DEF T
  <2> QED BY <1>2, <1>4
<1> QED BY <1>3, <1>5, Constants

\* Three numbers side by side.
Packed(v, z, s, w, p, j, q) == v % p = z /\ (v \div p) % j = s /\ v \div q = w

LEMMA PackedIs ==
  ASSUME NEW p \in Nat \ {0}, NEW j \in Nat \ {0}, NEW r \in Nat \ {0}, NEW q, q = (p * j) * r,
         NEW z \in 0 .. p - 1, NEW s \in 0 .. j - 1, NEW w \in Nat
  PROVE  Packed(z + s * p + w * q, z, s, w, p, j, q)
<1> DEFINE v == z + s * p + w * q
           u == s + (w * r) * j
<1>1. q \in Nat \ {0} /\ w * r \in Nat /\ (w * r) * j \in Nat /\ u \in Nat
      /\ s * p \in Nat /\ w * q \in Nat
  <2>1. p * j \in Nat \ {0}
    OBVIOUS
  <2> DEFINE m == p * j
  <2>2. m \in Nat \ {0} /\ q = m * r
    BY <2>1
  <2> HIDE DEF m
  <2>3. q \in Nat \ {0}
    BY <2>2
  <2>4. w * r \in Nat
    OBVIOUS
  <2> DEFINE x == w * r
  <2>5. x \in Nat
    BY <2>4
  <2> HIDE DEF x
  <2>6. x * j \in Nat
    BY <2>5
  <2>7. s * p \in Nat /\ w * q \in Nat /\ s + x * j \in Nat
    BY <2>3, <2>6
  <2> QED BY <2>3, <2>4, <2>6, <2>7 DEF x
<1>2. w * q = ((w * r) * j) * p
  <2>1. w * ((p * j) * r) = ((w * r) * j) * p
    OBVIOUS
  <2> QED BY <2>1
<1>3. v = u * p + z
  <2> DEFINE x == (w * r) * j
  <2>1. x \in Nat /\ w * q = x * p
    BY <1>1, <1>2
  <2> HIDE DEF x
  <2>2. (s + x) * p = s * p + x * p
    BY <2>1
  <2>3. s * p \in Nat /\ x * p \in Nat
    BY <2>1
  <2> QED BY <2>1, <2>2, <2>3 DEF x
<1>4. v \in Int
  BY <1>1
<1>5. z + s * p \in 0 .. q - 1
  <2>1. s * p <= (j - 1) * p
    OBVIOUS
  <2>2. (j - 1) * p = j * p - p /\ j * p \in Nat
    OBVIOUS
  <2>3. j * p <= q
    <3> DEFINE m == p * j
    <3>1. m \in Nat \ {0} /\ q = r * m /\ j * p = m
      <4>1. m \in Nat \ {0} /\ j * p = m
        OBVIOUS
      <4>2. q = m * r
        OBVIOUS
      <4> HIDE DEF m
      <4> QED BY <4>1, <4>2
    <3> HIDE DEF m
    <3>2. r * m >= m
      BY <3>1, Multiple
    <3> QED BY <3>1, <3>2
  <2> QED BY <1>1, <2>1, <2>2, <2>3
<1> HIDE DEF v, u
<1>6. v % p = z /\ v \div p = u
  BY <1>1, <1>3, <1>4, ModIs, DivIs
<1>7. u % j = s
  <2>1. u = (w * r) * j + s /\ u \in Int /\ w * r \in Int
    BY <1>1 DEF u
  <2> QED BY <2>1, ModIs
<1>8. v \div q = w
  <2> DEFINE y == z + s * p
             x == w * q
  <2>1. y \in 0 .. q - 1 /\ v = x + y /\ x \in Nat /\ x = w * q
    BY <1>1, <1>5 DEF v
  <2> HIDE DEF y, x
  <2>2. v = w * q + y
    BY <2>1
  <2> QED BY <1>1, <1>4, <2>1, <2>2, DivIs
<1> QED BY <1>6, <1>7, <1>8 DEF Packed, v

LEMMA SlotOfWord ==
  ASSUME NEW l \in Level, NEW s \in 0 .. Geometry[l].sets - 1, NEW w \in 0 .. Geometry[l].ways - 1
  PROVE  slot_of(setway_word(l, s, w)) = <<l, s, w>>
<1> DEFINE ks == log_2_n_round_up(Geometry[l].sets)
           kw == log_2_n_round_up(Geometry[l].ways)
           z == (l - 1) * 2
<1>1. Geometry[l].sets \in Nat \ {0} /\ Geometry[l].ways \in Nat \ {0} /\ WIDTH \in Nat /\ L \in Nat
      /\ l \in Nat /\ l >= 1 /\ l <= Len(Geometry) /\ 2 * Len(Geometry) <= P
      /\ Len(Geometry) \in Nat
  <2>1. l <= Len(Geometry)
    BY Constants DEF Level
  <2>2. 2 * Len(Geometry) <= P
    BY CachesAssumption DEF P
  <2> QED BY <2>1, <2>2, Constants
<1>2. PICK js \in 0 .. WIDTH, jw \in 0 .. WIDTH :
        L + js + jw <= WIDTH /\ Geometry[l].sets <= 2^js /\ Geometry[l].ways <= 2^jw
  BY CachesAssumption
<1>3. ks \in 0 .. js /\ Geometry[l].sets <= 2^ks /\ kw \in 0 .. jw
  BY <1>1, <1>2, LogIs
<1> HIDE DEF ks, kw
<1> DEFINE kr == WIDTH - kw - L - ks
<1>4. /\ kr \in 0 .. WIDTH - (L + ks) /\ (L + ks) + kr = WIDTH - kw /\ ks \in 0 .. WIDTH - L
      /\ L \in 0 .. WIDTH /\ L + ks \in 0 .. WIDTH /\ kr \in 0 .. WIDTH /\ ks \in 0 .. WIDTH
  BY <1>1, <1>2, <1>3
<1>5. 2^(WIDTH - kw) = (P * 2^ks) * 2^kr
  <2>1. 2^(L + ks) = 2^L * 2^ks
    BY <1>1, <1>4, PowerType, PowersOfSum
  <2> HIDE DEF kr
  <2>2. 2^((L + ks) + kr) = 2^(L + ks) * 2^kr
    BY <1>1, <1>4, PowerType, PowersOfSum
  <2> QED BY <1>4, <2>1, <2>2 DEF P
<1>6. z \in 0 .. P - 1 /\ z \div 2 = l - 1
  BY <1>1, LineType
<1>7. s \in 0 .. 2^ks - 1 /\ 2^ks \in Nat \ {0} /\ 2^kr \in Nat \ {0} /\ w \in Nat
  BY <1>1, <1>3, <1>4, PowerType
<1> DEFINE v == z + s * P + w * 2^(WIDTH - kw)
<1>8. Packed(v, z, s, w, P, 2^ks, 2^(WIDTH - kw))
  BY <1>5, <1>6, <1>7, LineType, PackedIs
<1>9. setway_word(l, s, w) = v
  BY DEF setway_word, P, kw
<1> HIDE DEF v, z
<1>10. ((v % P) \div 2) + 1 = l
  BY <1>1, <1>6, <1>8 DEF Packed
<1>11. slot_of(v) = <<l, (v \div P) % 2^ks, v \div 2^(WIDTH - kw)>>
  BY <1>10 DEF slot_of, P, ks, kw
<1> QED BY <1>8, <1>9, <1>11 DEF Packed

\* Two loops that count down, one in the other, as one.
Turned(major, minor, n) ==
  /\ n \in Nat
  /\ \A k \in 1 .. n : /\ major - 1 - ((k - 1) \div minor) \in 0 .. major - 1
                       /\ minor - 1 - ((k - 1) % minor) \in 0 .. minor - 1
  /\ \A q \in 0 .. major - 1, r \in 0 .. minor - 1 :
       \E k \in 1 .. n : /\ major - 1 - ((k - 1) \div minor) = q
                         /\ minor - 1 - ((k - 1) % minor) = r

LEMMA Turns ==
  ASSUME NEW major \in Nat \ {0}, NEW minor \in Nat \ {0}
  PROVE  Turned(major, minor, major * minor)
<1> DEFINE n == major * minor
<1>1. n \in Nat
  OBVIOUS
<1>2. ASSUME NEW k \in 1 .. n
      PROVE  /\ major - 1 - ((k - 1) \div minor) \in 0 .. major - 1
             /\ minor - 1 - ((k - 1) % minor) \in 0 .. minor - 1
  <2> DEFINE q == (k - 1) \div minor
             r == (k - 1) % minor
  <2>1. k - 1 \in Nat /\ k - 1 < n
    BY <1>1
  <2>2. q \in Nat /\ r \in 0 .. minor - 1 /\ k - 1 = q * minor + r
    BY <2>1, DivNat
  <2> HIDE DEF q, r
  <2>3. q < major
    <3> SUFFICES ASSUME q >= major PROVE FALSE
      BY <2>2
    <3>1. q * minor >= major * minor
      BY <2>2
    <3>2. q * minor \in Nat
      BY <2>2
    <3> QED BY <1>1, <2>1, <2>2, <3>1, <3>2
  <2>4. major - 1 - q \in 0 .. major - 1 /\ minor - 1 - r \in 0 .. minor - 1
    BY <2>2, <2>3
  <2> QED BY <2>4 DEF q, r
<1>3. ASSUME NEW x \in 0 .. major - 1, NEW y \in 0 .. minor - 1
      PROVE  \E k \in 1 .. n : /\ major - 1 - ((k - 1) \div minor) = x
                               /\ minor - 1 - ((k - 1) % minor) = y
  <2> DEFINE q == major - 1 - x
             r == minor - 1 - y
             k == q * minor + r + 1
  <2>1. q \in 0 .. major - 1 /\ r \in 0 .. minor - 1 /\ major - 1 - q = x /\ minor - 1 - r = y
    OBVIOUS
  <2> HIDE DEF q, r
  <2>2. q * minor \in Nat /\ q * minor <= n - minor
    <3>1. q * minor <= (major - 1) * minor /\ q * minor \in Nat
      BY <2>1
    <3>2. (major - 1) * minor = n - minor
      OBVIOUS
    <3> QED BY <3>1, <3>2
  <2> HIDE DEF n
  <2>3. k \in 1 .. n /\ k - 1 = q * minor + r /\ k - 1 \in Int
    BY <1>1, <2>1, <2>2
  <2> HIDE DEF k
  <2>4. (k - 1) % minor = r /\ (k - 1) \div minor = q
    BY <2>1, <2>3, ModIs, DivIs
  <2> QED BY <2>1, <2>3, <2>4
<1> HIDE DEF n
<1>4. Turned(major, minor, n)
  BY <1>1, <1>2, <1>3 DEF Turned
<1> QED BY <1>4 DEF n

\* Words for all lines of level l, and no others.
WordsOf(s, l) ==
  /\ Len(s) \in Nat
  /\ \A k \in 1 .. Len(s) : slot_of(s[k]) \in Slot /\ slot_of(s[k])[1] = l
  /\ \A x \in Slot : x[1] = l => \E k \in 1 .. Len(s) : slot_of(s[k]) = x

\* A sequence that names each set and each way is one.
LEMMA WordsMade ==
  ASSUME NEW l \in Level, NEW s, Len(s) \in Nat, NEW set, NEW way,
         \A k \in 1 .. Len(s) : /\ s[k] = setway_word(l, set[k], way[k])
                                /\ set[k] \in 0 .. Geometry[l].sets - 1
                                /\ way[k] \in 0 .. Geometry[l].ways - 1,
         \A j \in 0 .. Geometry[l].sets - 1, w \in 0 .. Geometry[l].ways - 1 :
           \E k \in 1 .. Len(s) : set[k] = j /\ way[k] = w
  PROVE  WordsOf(s, l)
<1>1. ASSUME NEW k \in 1 .. Len(s)
      PROVE  slot_of(s[k]) = <<l, set[k], way[k]>> /\ slot_of(s[k]) \in Slot
  BY SlotOfWord, SlotMade
<1>2. ASSUME NEW x \in Slot, x[1] = l PROVE \E k \in 1 .. Len(s) : slot_of(s[k]) = x
  <2>1. /\ x[2] \in 0 .. Geometry[l].sets - 1 /\ x[3] \in 0 .. Geometry[l].ways - 1
        /\ x = <<l, x[2], x[3]>>
    BY <1>2, SlotIs
  <2>2. PICK k \in 1 .. Len(s) : set[k] = x[2] /\ way[k] = x[3]
    BY <2>1
  <2> QED BY <1>1, <2>1, <2>2, ZenonT(40)
<1>3. \A k \in 1 .. Len(s) : slot_of(s[k]) \in Slot /\ slot_of(s[k])[1] = l
  BY <1>1
<1> QED BY <1>2, <1>3 DEF WordsOf

\* Way by way, as in cpu_mem.c.
LEMMA LevelWords == ASSUME NEW l \in Level PROVE WordsOf(level_words[l], l)
<1> DEFINE sets == Geometry[l].sets
           num == Geometry[l].ways
           n == num * sets
           set == [k \in 1 .. n |-> sets - 1 - ((k - 1) % sets)]
           way == [k \in 1 .. n |-> num - 1 - ((k - 1) \div sets)]
           s == level_words[l]
<1>1. sets \in Nat \ {0} /\ num \in Nat \ {0}
  BY Constants
<1>2. s = [k \in 1 .. n |->
             setway_word(l, sets - 1 - ((k - 1) % sets), num - 1 - ((k - 1) \div sets))]
  BY DEF level_words
<1> HIDE DEF sets, num, s
<1>3. /\ n \in Nat
      /\ \A k \in 1 .. n : set[k] \in 0 .. sets - 1 /\ way[k] \in 0 .. num - 1
      /\ \A j \in 0 .. sets - 1, w \in 0 .. num - 1 : \E k \in 1 .. n : set[k] = j /\ way[k] = w
  <2>1. Turned(num, sets, n)
    BY <1>1, Turns
  <2> HIDE DEF n
  <2>2. \A k \in 1 .. n : set[k] \in 0 .. sets - 1 /\ way[k] \in 0 .. num - 1
    BY <2>1 DEF Turned
  <2>3. ASSUME NEW j \in 0 .. sets - 1, NEW w \in 0 .. num - 1
        PROVE  \E k \in 1 .. n : set[k] = j /\ way[k] = w
    <3>1. PICK k \in 1 .. n : /\ num - 1 - ((k - 1) \div sets) = w
                              /\ sets - 1 - ((k - 1) % sets) = j
      BY <2>1 DEF Turned
    <3> QED BY <3>1
  <2> QED BY <2>1, <2>2, <2>3 DEF Turned
<1>4. Len(s) = n /\ \A k \in 1 .. n : s[k] = setway_word(l, set[k], way[k])
  <2>1. \A k \in 1 .. n : s[k] = setway_word(l, set[k], way[k])
    BY <1>2
  <2>2. s = [k \in 1 .. n |-> s[k]]
    BY <1>2
  <2> HIDE DEF n
  <2> QED BY <1>3, <2>1, <2>2
<1> HIDE DEF n, set, way
<1>5. /\ Len(s) \in Nat
      /\ \A k \in 1 .. Len(s) : /\ s[k] = setway_word(l, set[k], way[k])
                                /\ set[k] \in 0 .. sets - 1 /\ way[k] \in 0 .. num - 1
      /\ \A j \in 0 .. sets - 1, w \in 0 .. num - 1 :
           \E k \in 1 .. Len(s) : set[k] = j /\ way[k] = w
  BY <1>3, <1>4
<1> HIDE DEF s
<1>6. WordsOf(s, l)
  BY <1>5, WordsMade DEF sets, num
<1> QED BY <1>6 DEF s

\* Set by set, as in cp15.S: no set is beyond the mask.
LEMMA MaskedWords == ASSUME NEW l \in Level PROVE WordsOf(masked_words[l], l)
<1> DEFINE sets == Geometry[l].sets
           num == Geometry[l].ways
           m == FLD_MAX_IDX + 1
           masked == ((sets - 1) % m) + 1
           n == sets * num
           set == [k \in 1 .. n |-> sets - 1 - ((k - 1) \div num)]
           way == [k \in 1 .. n |-> num - 1 - ((k - 1) % num)]
           s == masked_words[l]
<1>1. sets \in Nat \ {0} /\ num \in Nat \ {0} /\ m \in Nat \ {0} /\ sets <= m
  BY Constants, CachesAssumption
<1>2. s = [k \in 1 .. masked * num |->
             setway_word(l, masked - 1 - ((k - 1) \div num), num - 1 - ((k - 1) % num))]
  BY DEF masked_words
<1> HIDE DEF sets, num, m, s
<1>3. masked = sets
  <2>1. sets - 1 \in 0 .. m - 1 /\ sets - 1 = 0 * m + (sets - 1) /\ sets - 1 \in Int
    BY <1>1
  <2>2. (sets - 1) % m = sets - 1
    BY <1>1, <2>1, ModIs
  <2> QED BY <1>1, <2>2
<1> HIDE DEF masked
<1>4. /\ n \in Nat
      /\ \A k \in 1 .. n : set[k] \in 0 .. sets - 1 /\ way[k] \in 0 .. num - 1
      /\ \A j \in 0 .. sets - 1, w \in 0 .. num - 1 : \E k \in 1 .. n : set[k] = j /\ way[k] = w
  <2>1. Turned(sets, num, n)
    BY <1>1, Turns
  <2> HIDE DEF n
  <2>2. \A k \in 1 .. n : set[k] \in 0 .. sets - 1 /\ way[k] \in 0 .. num - 1
    BY <2>1 DEF Turned
  <2>3. ASSUME NEW j \in 0 .. sets - 1, NEW w \in 0 .. num - 1
        PROVE  \E k \in 1 .. n : set[k] = j /\ way[k] = w
    <3>1. PICK k \in 1 .. n : /\ sets - 1 - ((k - 1) \div num) = j
                              /\ num - 1 - ((k - 1) % num) = w
      BY <2>1 DEF Turned
    <3> QED BY <3>1
  <2> QED BY <2>1, <2>2, <2>3 DEF Turned
<1>5. Len(s) = n /\ \A k \in 1 .. n : s[k] = setway_word(l, set[k], way[k])
  <2>1. \A k \in 1 .. n : s[k] = setway_word(l, set[k], way[k])
    BY <1>2, <1>3
  <2>2. s = [k \in 1 .. n |-> s[k]]
    BY <1>2, <1>3
  <2> HIDE DEF n
  <2> QED BY <1>4, <2>1, <2>2
<1> HIDE DEF n, set, way
<1>6. /\ Len(s) \in Nat
      /\ \A k \in 1 .. Len(s) : /\ s[k] = setway_word(l, set[k], way[k])
                                /\ set[k] \in 0 .. sets - 1 /\ way[k] \in 0 .. num - 1
      /\ \A j \in 0 .. sets - 1, w \in 0 .. num - 1 :
           \E k \in 1 .. Len(s) : set[k] = j /\ way[k] = w
  BY <1>4, <1>5
<1> HIDE DEF s
<1>7. WordsOf(s, l)
  BY <1>6, WordsMade DEF sets, num
<1> QED BY <1>7 DEF s

-----------------------------------------------------------------------------
(* The loops over levels.                                                  *)

LevelDone(h, g, l, what) ==
  /\ Good(g) /\ \A x \in Slot : x[1] <= l => Bare(g.cache, x, what)
  /\ what # "invalidate" => \A b \in Address : fetched(g, 1, b) = fetched(h, 1, b)

LEMMA SetwayIs ==
  ASSUME NEW h, Good(h), NEW l \in Level, NEW what \in What,
         NEW words, WordsOf(words[l], l), \A x \in Slot : x[1] < l => Bare(h.cache, x, what)
  PROVE  LevelDone(h, setway(h, l, words, what), l, what)
<1> DEFINE s == words[l]
           n == Len(s)
           r == setway(h, l, words, what)
<1>1. /\ n \in Nat
      /\ \A k \in 1 .. n : slot_of(s[k]) \in Slot /\ slot_of(s[k])[1] = l
      /\ \A x \in Slot : x[1] = l => \E k \in 1 .. n : slot_of(s[k]) = x
  BY DEF WordsOf
<1>2. r = words_done(h, s, what)
  BY DEF setway, words_done
<1> HIDE DEF s
<1>3. PICK f : /\ f[0] = h /\ \A k \in 1 .. n : f[k] = op(f[k-1], slot_of(s[k]), what)
               /\ words_done(h, s, what) = f[n]
  <2>1. Len(s) \in Nat
    BY <1>1
  <2>2. WordsTurn(h, s, what)
    BY <2>1, WordsInTurn
  <2> QED BY <2>2 DEF WordsTurn
<1> HIDE DEF r, n
<1> DEFINE Inv(k) == /\ Good(f[k])
                     /\ \A x \in Slot : x[1] < l => Bare(f[k].cache, x, what)
                     /\ \A m \in 1 .. k : Bare(f[k].cache, slot_of(s[m]), what)
                     /\ what # "invalidate" =>
                          \A b \in Address : fetched(f[k], 1, b) = fetched(h, 1, b)
           S == {k \in 0 .. n : Inv(k)}
<1>4. 0 \in S
  <2>1. \A m \in 1 .. 0 : FALSE
    OBVIOUS
  <2>2. Inv(0)
    BY <1>3, <2>1
  <2> HIDE DEF Inv
  <2> QED BY <1>1, <2>2
<1>5. ASSUME NEW k \in 1 .. n, Inv(k - 1) PROVE Inv(k)
  <2> DEFINE e == f[k-1]
             d == f[k]
             x == slot_of(s[k])
  <2>1. x \in Slot /\ x[1] = l /\ d = op(e, x, what)
    BY <1>1, <1>3
  <2>2. what = "invalidate" =>
          \A a \in Address : Has(e.cache, x, a) =>
            \A y \in Slot : y[1] < x[1] => ~Has(e.cache, y, a)
    BY <1>5, <2>1 DEF Bare, Has
  <2> HIDE DEF d, x
  <2>3. OpDone(e, d, x, what)
    BY <1>5, <2>1, <2>2, OpIs
  <2> HIDE DEF e
  <2>4. ASSUME NEW z \in Slot, z[1] <= l, z = x \/ Bare(e.cache, z, what)
        PROVE  Bare(d.cache, z, what)
    <3>1. CASE z = x
      BY <2>3, <3>1 DEF OpDone
    <3>2. CASE z # x
      <4>1. ~(z[1] > x[1])
        BY <2>1, <2>4, SlotIs, Constants
      <4>2. d.cache[z] = e.cache[z]
        BY <2>3, <2>4, <3>2, <4>1 DEF OpDone, Elsewhere
      <4> QED BY <2>4, <3>2, <4>2 DEF Bare
    <3> QED BY <3>1, <3>2
  <2>5. \A z \in Slot : z[1] < l => Bare(d.cache, z, what)
    <3> SUFFICES ASSUME NEW z \in Slot, z[1] < l PROVE Bare(d.cache, z, what)
      OBVIOUS
    <3>1. z[1] <= l
      BY SlotIs, Constants
    <3> QED BY <1>5, <2>4, <3>1 DEF e
  <2>6. ASSUME NEW m \in 1 .. k PROVE Bare(d.cache, slot_of(s[m]), what)
    <3>1. slot_of(s[m]) \in Slot /\ slot_of(s[m])[1] = l
      <4>1. m \in 1 .. n
        BY <1>1
      <4> QED BY <1>1, <4>1
    <3>2. slot_of(s[m]) = x \/ Bare(e.cache, slot_of(s[m]), what)
      <4>1. m = k \/ m \in 1 .. k - 1
        BY <1>1
      <4> QED BY <1>5, <4>1 DEF x, e
    <3>3. l <= l
      BY Constants
    <3> QED BY <2>4, <3>1, <3>2, <3>3
  <2>7. what # "invalidate" => \A b \in Address : fetched(d, 1, b) = fetched(h, 1, b)
    BY <1>5, <2>3 DEF OpDone, e
  <2> QED BY <2>3, <2>5, <2>6, <2>7 DEF OpDone, d
<1>6. \A k \in 1 .. n : k - 1 \in S => k \in S
  <2> HIDE DEF Inv
  <2> QED BY <1>1, <1>5
<1>7. n \in S
  <2>1. n \in 0 .. n
    BY <1>1
  <2> HIDE DEF S
  <2> QED BY <1>1, <1>4, <1>6, <2>1, Upto
<1>8. \A x \in Slot : x[1] <= l => Bare(r.cache, x, what)
  <2> SUFFICES ASSUME NEW x \in Slot, x[1] <= l PROVE Bare(r.cache, x, what)
    OBVIOUS
  <2>1. x[1] < l \/ x[1] = l
    BY SlotIs, Constants
  <2> QED BY <1>1, <1>2, <1>3, <1>7, <2>1
<1> QED BY <1>2, <1>3, <1>7, <1>8 DEF LevelDone, r

LevelsTurn(h, s, words, what) ==
  \E f : /\ f[0] = h /\ \A k \in 1 .. Len(s) : f[k] = setway(f[k-1], s[k], words, what)
        /\ each_level(h, s, words, what) = f[Len(s)]

LEMMA LevelsInTurn ==
  ASSUME NEW h, NEW s, Len(s) \in Nat, NEW words, NEW what
  PROVE  LevelsTurn(h, s, words, what)
<1> DEFINE n == Len(s)
           Is(f, j) == f = [k \in 0 .. j |->
             IF k = 0 THEN h ELSE setway(f[k-1], s[k], words, what)]
           Bad == {j \in Nat : ~ \E f : Is(f, j)}
<1>1. Bad = {}
  <2> SUFFICES ASSUME Bad # {} PROVE FALSE
    OBVIOUS
  <2>1. PICK j \in Bad : \A k \in Bad : j <= k
    <3>1. Bad \subseteq Nat
      OBVIOUS
    <3> HIDE DEF Bad
    <3> QED BY <3>1, Least
  <2>2. j # 0
    <3>1. Is([k \in 0 .. 0 |-> h], 0)
      OBVIOUS
    <3> QED BY <3>1
  <2>3. PICK f : Is(f, j - 1)
    <3>1. j - 1 \in Nat /\ ~(j <= j - 1)
      BY <2>1, <2>2
    <3>2. j - 1 \notin Bad
      BY <2>1, <3>1
    <3> HIDE DEF Is
    <3> QED BY <3>1, <3>2
  <2> DEFINE last == setway(f[j-1], s[j], words, what)
             e == [k \in 0 .. j |-> IF k < j THEN f[k] ELSE last]
  <2>4. \A k \in 0 .. j : e[k] = (IF k = 0 THEN h ELSE setway(e[k-1], s[k], words, what))
    <3> TAKE k \in 0 .. j
    <3>1. CASE k < j
      <4>1. k \in 0 .. j - 1 /\ (k # 0 => k - 1 \in 0 .. j /\ k - 1 < j)
        BY <2>1, <3>1
      <4>2. f[k] = (IF k = 0 THEN h ELSE setway(f[k-1], s[k], words, what))
        BY <2>3, <4>1
      <4>3. e[k] = f[k] /\ (k # 0 => e[k-1] = f[k-1])
        BY <3>1, <4>1
      <4> HIDE DEF e
      <4> QED BY <4>2, <4>3
    <3>2. CASE k = j
      <4>1. j - 1 \in 0 .. j /\ j - 1 < j /\ j \in 0 .. j
        BY <2>1, <2>2
      <4>2. e[j-1] = f[j-1] /\ e[j] = last
        BY <4>1
      <4> HIDE DEF e
      <4> QED BY <2>2, <3>2, <4>2
    <3> QED BY <3>1, <3>2
  <2>5. e = [k \in 0 .. j |-> e[k]]
    OBVIOUS
  <2> HIDE DEF e
  <2>6. Is(e, j)
    BY <2>4, <2>5
  <2> QED BY <2>1, <2>6
<1>2. \E f : Is(f, n)
  BY <1>1
<1> DEFINE f == CHOOSE f : Is(f, n)
<1>3. Is(f, n)
  BY <1>2
<1>4. each_level(h, s, words, what) = f[n]
  BY DEF each_level, in_turn
<1> HIDE DEF f
<1>5. f[0] = h /\ \A k \in 1 .. n : f[k] = setway(f[k-1], s[k], words, what)
  BY <1>3
<1> QED BY <1>4, <1>5 DEF LevelsTurn


\* The levels in their order, and no slot left out.
LEMMA EachLevelIs ==
  ASSUME NEW h, Good(h), NEW what \in What, NEW n \in Nat, n >= Len(Geometry),
         NEW words, \A l \in Level : WordsOf(words[l], l)
  PROVE  LevelDone(h, each_level(h, [k \in 1 .. n |-> k], words, what), n, what)
<1> DEFINE s == [k \in 1 .. n |-> k]
           g == each_level(h, s, words, what)
<1>1. Len(s) = n /\ \A k \in 1 .. n : s[k] = k
  OBVIOUS
<1> HIDE DEF s
<1>2. PICK f : /\ f[0] = h /\ \A k \in 1 .. n : f[k] = setway(f[k-1], s[k], words, what)
               /\ each_level(h, s, words, what) = f[n]
  <2>1. Len(s) \in Nat
    BY <1>1
  <2>2. LevelsTurn(h, s, words, what)
    BY <2>1, LevelsInTurn
  <2> QED BY <1>1, <2>2 DEF LevelsTurn
<1> DEFINE S == {k \in 0 .. n : LevelDone(h, f[k], k, what)}
<1>3. 0 \in S
  <2>1. \A x \in Slot : ~(x[1] <= 0)
    BY SlotIs, Constants
  <2> QED BY <1>2, <2>1 DEF LevelDone
<1>4. ASSUME NEW k \in 1 .. n, LevelDone(h, f[k-1], k - 1, what) PROVE LevelDone(h, f[k], k, what)
  <2> DEFINE e == f[k-1]
             d == f[k]
  <2>1. d = setway(e, k, words, what)
    BY <1>1, <1>2
  <2>2. LevelDone(h, e, k - 1, what)
    BY <1>4
  <2> HIDE DEF e, d
  <2>3. CASE k \in Level
    <3>1. WordsOf(words[k], k)
      BY <2>3
    <3>2. Good(e) /\ \A x \in Slot : x[1] < k => Bare(e.cache, x, what)
      <4>1. \A x \in Slot : x[1] < k => x[1] <= k - 1
        BY SlotIs, Constants
      <4> QED BY <2>2, <4>1 DEF LevelDone
    <3>3. LevelDone(e, d, k, what)
      BY <2>1, <2>3, <3>1, <3>2, SetwayIs
    <3> QED BY <2>2, <3>3 DEF LevelDone, d
  <2>4. CASE k \notin Level
    <3>1. d = e
      BY <2>1, <2>4 DEF setway
    <3>2. \A x \in Slot : x[1] <= k => x[1] <= k - 1
      <4> SUFFICES ASSUME NEW x \in Slot, x[1] <= k, ~(x[1] <= k - 1) PROVE FALSE
        OBVIOUS
      <4>1. x[1] = k
        BY SlotIs, Constants
      <4> QED BY <2>4, <4>1, SlotIs
    <3> QED BY <2>2, <3>1, <3>2 DEF LevelDone, d
  <2> QED BY <2>3, <2>4
<1>5. \A k \in 1 .. n : k - 1 \in S => k \in S
  BY <1>4
<1>6. n \in S
  <2>1. n \in 0 .. n
    OBVIOUS
  <2> HIDE DEF S
  <2> QED BY <1>3, <1>5, <2>1, Upto
<1> QED BY <1>2, <1>6 DEF s

-----------------------------------------------------------------------------
(* The operations on addresses.                                            *)

levels_done(h, s, a, what) == in_turn(h, s, LAMBDA g, l : op_level(g, l, a, what))

AddressTurn(h, s, a, what) ==
  \E f : /\ f[0] = h /\ \A k \in 1 .. Len(s) : f[k] = op_level(f[k-1], s[k], a, what)
        /\ levels_done(h, s, a, what) = f[Len(s)]

LEMMA AddressInTurn ==
  ASSUME NEW h, NEW s, Len(s) \in Nat, NEW a, NEW what
  PROVE  AddressTurn(h, s, a, what)
<1> DEFINE n == Len(s)
           Is(f, j) == f = [k \in 0 .. j |-> IF k = 0 THEN h ELSE op_level(f[k-1], s[k], a, what)]
           Bad == {j \in Nat : ~ \E f : Is(f, j)}
<1>1. Bad = {}
  <2> SUFFICES ASSUME Bad # {} PROVE FALSE
    OBVIOUS
  <2>1. PICK j \in Bad : \A k \in Bad : j <= k
    <3>1. Bad \subseteq Nat
      OBVIOUS
    <3> HIDE DEF Bad
    <3> QED BY <3>1, Least
  <2>2. j # 0
    <3>1. Is([k \in 0 .. 0 |-> h], 0)
      OBVIOUS
    <3> QED BY <3>1
  <2>3. PICK f : Is(f, j - 1)
    <3>1. j - 1 \in Nat /\ ~(j <= j - 1)
      BY <2>1, <2>2
    <3>2. j - 1 \notin Bad
      BY <2>1, <3>1
    <3> HIDE DEF Is
    <3> QED BY <3>1, <3>2
  <2> DEFINE last == op_level(f[j-1], s[j], a, what)
             e == [k \in 0 .. j |-> IF k < j THEN f[k] ELSE last]
  <2>4. \A k \in 0 .. j : e[k] = (IF k = 0 THEN h ELSE op_level(e[k-1], s[k], a, what))
    <3> TAKE k \in 0 .. j
    <3>1. CASE k < j
      <4>1. k \in 0 .. j - 1 /\ (k # 0 => k - 1 \in 0 .. j /\ k - 1 < j)
        BY <2>1, <3>1
      <4>2. f[k] = (IF k = 0 THEN h ELSE op_level(f[k-1], s[k], a, what))
        BY <2>3, <4>1
      <4>3. e[k] = f[k] /\ (k # 0 => e[k-1] = f[k-1])
        BY <3>1, <4>1
      <4> HIDE DEF e
      <4> QED BY <4>2, <4>3
    <3>2. CASE k = j
      <4>1. j - 1 \in 0 .. j /\ j - 1 < j /\ j \in 0 .. j
        BY <2>1, <2>2
      <4>2. e[j-1] = f[j-1] /\ e[j] = last
        BY <4>1
      <4> HIDE DEF e
      <4> QED BY <2>2, <3>2, <4>2
    <3> QED BY <3>1, <3>2
  <2>5. e = [k \in 0 .. j |-> e[k]]
    OBVIOUS
  <2> HIDE DEF e
  <2>6. Is(e, j)
    BY <2>4, <2>5
  <2> QED BY <2>1, <2>6
<1>2. \E f : Is(f, n)
  BY <1>1
<1> DEFINE f == CHOOSE f : Is(f, n)
<1>3. Is(f, n)
  BY <1>2
<1>4. levels_done(h, s, a, what) = f[n]
  BY DEF levels_done, in_turn
<1> HIDE DEF f
<1>5. f[0] = h /\ \A k \in 1 .. n : f[k] = op_level(f[k-1], s[k], a, what)
  BY <1>3
<1> QED BY <1>4, <1>5 DEF AddressTurn

\* No line of a, or only ones that are not dirty; the lines of no other address
\* touched, and nothing lost, except what is invalidated.
Cleared(c, a, what) == \A y \in Slot : Has(c, y, a) => what = "clean" /\ ~c[y].dirty
Kept(h, g, S, what) ==
  /\ \A y \in Slot : g.cache[y] # none /\ g.cache[y].adr \notin S => g.cache[y] = h.cache[y]
  /\ \A b \in Address : (what = "invalidate" => b \notin S) => fetched(g, 1, b) = fetched(h, 1, b)
LinesDone(h, g, S, what) ==
  Good(g) /\ Kept(h, g, S, what) /\ \A a \in S : Cleared(g.cache, a, what)

LEMMA AddressDone ==
  ASSUME NEW h, Good(h), NEW a \in Address, NEW what \in What
  PROVE  LinesDone(h, op_address(h, a, what), {a}, what)
<1> DEFINE n == Len(Geometry)
           s == [l \in Level |-> l]
<1>1. n \in Nat /\ Len(s) = n /\ \A k \in 1 .. n : s[k] = k /\ k \in Level
  BY Constants DEF Level
<1>2. op_address(h, a, what) = levels_done(h, s, a, what)
  BY DEF op_address, levels_done
<1>3. \A x \in Slot : x[1] \in Nat /\ x[1] >= 1 /\ x[1] <= n
  <2>1. \A l \in Level : l \in Nat /\ l >= 1 /\ l <= n
    BY <1>1 DEF Level
  <2> QED BY <2>1, SlotIs
<1> HIDE DEF s, n
<1>4. PICK f : /\ f[0] = h /\ \A k \in 1 .. n : f[k] = op_level(f[k-1], k, a, what)
               /\ levels_done(h, s, a, what) = f[n]
  <2>1. Len(s) \in Nat
    BY <1>1
  <2>2. AddressTurn(h, s, a, what)
    BY <2>1, AddressInTurn
  <2> QED BY <1>1, <2>2 DEF AddressTurn
<1> DEFINE Clear(c, k) == \A y \in Slot : y[1] <= k /\ Has(c, y, a) => what = "clean" /\ ~c[y].dirty
           Inv(k) == Good(f[k]) /\ Kept(h, f[k], {a}, what) /\ Clear(f[k].cache, k)
           S == {k \in 0 .. n : Inv(k)}
<1>5. 0 \in S
  <2>1. Kept(h, h, {a}, what)
    BY DEF Kept
  <2>2. Clear(h.cache, 0)
    BY <1>3
  <2>3. Inv(0)
    <3> HIDE DEF Clear
    <3> QED BY <1>4, <2>1, <2>2
  <2> HIDE DEF Inv
  <2> QED BY <1>1, <2>3
<1>6. ASSUME NEW k \in 1 .. n, Inv(k - 1) PROVE Inv(k)
  <2> DEFINE e == f[k-1]
             d == f[k]
  <2>1. k \in Level /\ d = op_level(e, k, a, what) /\ k \in Nat
    BY <1>1, <1>4
  <2>2. Good(e) /\ Kept(h, e, {a}, what) /\ Clear(e.cache, k - 1)
    BY <1>6
  <2> SUFFICES Good(d) /\ Kept(h, d, {a}, what) /\ Clear(d.cache, k)
    OBVIOUS
  <2> HIDE DEF d, e
  <2>3. holding(e.cache, k, a) = {x \in Slot : x[1] = k /\ Has(e.cache, x, a)}
    BY <2>1, <2>2, HoldingIs DEF Good
  <2>4. CASE holding(e.cache, k, a) = {}
    <3>1. d = e
      BY <2>1, <2>4 DEF op_level
    <3>2. Clear(e.cache, k)
      <4> SUFFICES ASSUME NEW y \in Slot, y[1] <= k, Has(e.cache, y, a)
                   PROVE  what = "clean" /\ ~e.cache[y].dirty
        OBVIOUS
      <4>1. y[1] <= k - 1
        <5>1. y[1] # k
          BY <2>3, <2>4
        <5> QED BY <1>3, <2>1, <5>1
      <4> QED BY <2>2, <4>1
    <3> QED BY <2>2, <3>1, <3>2
  <2>5. CASE holding(e.cache, k, a) # {}
    <3> DEFINE x == one(holding(e.cache, k, a))
    <3>1. PICK z \in Slot : z[1] = k /\ Has(e.cache, z, a)
      BY <2>3, <2>5
    <3>2. x = z
      BY <2>2, <3>1, OneHolds DEF Good
    <3>3. d = op(e, z, what)
      <4>1. d = op(e, x, what)
        BY <2>1, <2>5 DEF op_level
      <4> HIDE DEF x
      <4> QED BY <3>2, <4>1
    <3> HIDE DEF x
    <3>4. \A b \in Address : Has(e.cache, z, b) => b = a
      BY <3>1 DEF Has
    <3>5. what = "invalidate" =>
            \A b \in Address : Has(e.cache, z, b) =>
              \A y \in Slot : y[1] < z[1] => ~Has(e.cache, y, b)
      <4> SUFFICES ASSUME what = "invalidate", NEW y \in Slot, y[1] < z[1], Has(e.cache, y, a)
                   PROVE  FALSE
        BY <3>4
      <4>1. y[1] <= k - 1
        BY <1>3, <2>1, <3>1
      <4> QED BY <2>2, <4>1
    <3>6. OpDone(e, d, z, what)
      BY <2>2, <3>3, <3>5, OpIs
    <3>7. ASSUME NEW y \in Slot
          PROVE  \/ d.cache[y] = e.cache[y] /\ y # z
                 \/ d.cache[y] # none => Has(d.cache, y, a) /\ y[1] >= k
      <4>1. CASE y = z
        <5> SUFFICES ASSUME d.cache[z] # none PROVE Has(d.cache, z, a)
          BY <1>3, <3>1, <4>1
        <5> DEFINE b == d.cache[z].adr
        <5>1. Has(d.cache, z, b)
          BY DEF Has
        <5>2. b \in Address
          BY <3>6, HardwareIs, LineIs DEF OpDone, Good, Shaped
        <5>3. b = a
          <6> HIDE DEF b
          <6> QED BY <3>4, <3>6, <5>1, <5>2 DEF OpDone
        <5> QED BY <5>1, <5>3
      <4>2. CASE y # z
        BY <1>3, <3>1, <3>4, <3>6, <4>2 DEF OpDone, Elsewhere
      <4> QED BY <4>1, <4>2
    <3>8. Kept(h, d, {a}, what)
      <4>1. \A y \in Slot : d.cache[y] # none /\ d.cache[y].adr \notin {a} =>
              d.cache[y] = h.cache[y]
        BY <2>2, <3>7 DEF Kept, Has
      <4>2. ASSUME NEW b \in Address, what = "invalidate" => b \notin {a}
            PROVE  fetched(d, 1, b) = fetched(h, 1, b)
        <5>1. fetched(d, 1, b) = fetched(e, 1, b)
          BY <3>4, <3>6, <4>2 DEF OpDone
        <5> QED BY <2>2, <4>2, <5>1 DEF Kept
      <4> QED BY <4>1, <4>2 DEF Kept
    <3>9. Clear(d.cache, k)
      <4> SUFFICES ASSUME NEW y \in Slot, y[1] <= k, Has(d.cache, y, a)
                   PROVE  what = "clean" /\ ~d.cache[y].dirty
        OBVIOUS
      <4>1. CASE y = z
        BY <3>6, <4>1 DEF OpDone, Bare, Has
      <4>2. CASE y # z
        <5>1. d.cache[y] = e.cache[y]
          BY <1>3, <2>1, <3>1, <3>6, <4>2 DEF OpDone, Elsewhere
        <5>2. Has(e.cache, y, a)
          BY <5>1 DEF Has
        <5>3. y[1] # k
          BY <2>2, <3>1, <4>2, <5>2 DEF Good, Shaped, Once
        <5>4. y[1] <= k - 1
          BY <1>3, <2>1, <5>3
        <5> QED BY <2>2, <5>1, <5>2, <5>4
      <4> QED BY <4>1, <4>2
    <3> QED BY <3>6, <3>8, <3>9 DEF OpDone
  <2> QED BY <2>4, <2>5
<1>7. \A k \in 1 .. n : k - 1 \in S => k \in S
  <2> HIDE DEF Inv
  <2> QED BY <1>1, <1>6
<1>8. Inv(n)
  <2>1. n \in 0 .. n
    BY <1>1
  <2> HIDE DEF Inv
  <2>2. \A k \in 0 .. n : k \in S
    <3> HIDE DEF S
    <3> QED BY <1>1, <1>5, <1>7, Upto
  <2> QED BY <2>1, <2>2
<1>9. Cleared(f[n].cache, a, what)
  BY <1>3, <1>8 DEF Cleared
<1> QED BY <1>2, <1>4, <1>8, <1>9 DEF LinesDone

\* One set of lines after another.
BothDone(h, g, S, T, what, then) ==
  /\ Good(g) /\ \A a \in S \union T : Cleared(g.cache, a, then)
  /\ \A y \in Slot : g.cache[y] # none /\ g.cache[y].adr \notin S \union T =>
       g.cache[y] = h.cache[y]
  /\ \A b \in Address :
       (what = "invalidate" => b \notin S) /\ (then = "invalidate" => b \notin T) =>
         fetched(g, 1, b) = fetched(h, 1, b)

LEMMA LinesBoth ==
  ASSUME NEW h, NEW e, NEW d, NEW S, NEW T, NEW what, NEW then,
         LinesDone(h, e, S, what), LinesDone(e, d, T, then), (what = "clean") = (then = "clean")
  PROVE  BothDone(h, d, S, T, what, then)
<1>1. ASSUME NEW a \in S \union T PROVE Cleared(d.cache, a, then)
  <2>1. CASE a \in T
    BY <2>1 DEF LinesDone
  <2>2. CASE a \in S /\ a \notin T
    <3>1. Cleared(e.cache, a, what)
      BY <2>2 DEF LinesDone
    <3>2. ASSUME NEW y \in Slot, Has(d.cache, y, a) PROVE d.cache[y] = e.cache[y]
      BY <2>2, <3>2 DEF LinesDone, Kept, Has
    <3> QED BY <3>1, <3>2 DEF Cleared, Has
  <2> QED BY <2>1, <2>2
<1>2. \A y \in Slot : d.cache[y] # none /\ d.cache[y].adr \notin S \union T =>
        d.cache[y] = h.cache[y]
  BY DEF LinesDone, Kept
<1>3. \A b \in Address :
        (what = "invalidate" => b \notin S) /\ (then = "invalidate" => b \notin T) =>
          fetched(d, 1, b) = fetched(h, 1, b)
  BY DEF LinesDone, Kept
<1>4. Good(d)
  BY DEF LinesDone
<1> QED BY <1>1, <1>2, <1>3, <1>4 DEF BothDone

LEMMA LinesMore ==
  ASSUME NEW h, NEW e, NEW d, NEW S, NEW T, NEW what,
         LinesDone(h, e, S, what), LinesDone(e, d, T, what)
  PROVE  LinesDone(h, d, S \union T, what)
<1>1. BothDone(h, d, S, T, what, what)
  BY LinesBoth
<1> QED BY <1>1 DEF BothDone, LinesDone, Kept

LinesTurn(h, s, what) ==
  \E f : /\ f[0] = h /\ \A k \in 1 .. Len(s) : f[k] = op_address(f[k-1], s[k], what)
        /\ op_lines(h, s, what) = f[Len(s)]

LEMMA LinesInTurn ==
  ASSUME NEW h, NEW s, Len(s) \in Nat, NEW what
  PROVE  LinesTurn(h, s, what)
<1> DEFINE n == Len(s)
           Is(f, j) == f = [k \in 0 .. j |-> IF k = 0 THEN h ELSE op_address(f[k-1], s[k], what)]
           Bad == {j \in Nat : ~ \E f : Is(f, j)}
<1>1. Bad = {}
  <2> SUFFICES ASSUME Bad # {} PROVE FALSE
    OBVIOUS
  <2>1. PICK j \in Bad : \A k \in Bad : j <= k
    <3>1. Bad \subseteq Nat
      OBVIOUS
    <3> HIDE DEF Bad
    <3> QED BY <3>1, Least
  <2>2. j # 0
    <3>1. Is([k \in 0 .. 0 |-> h], 0)
      OBVIOUS
    <3> QED BY <3>1
  <2>3. PICK f : Is(f, j - 1)
    <3>1. j - 1 \in Nat /\ ~(j <= j - 1)
      BY <2>1, <2>2
    <3>2. j - 1 \notin Bad
      BY <2>1, <3>1
    <3> HIDE DEF Is
    <3> QED BY <3>1, <3>2
  <2> DEFINE last == op_address(f[j-1], s[j], what)
             e == [k \in 0 .. j |-> IF k < j THEN f[k] ELSE last]
  <2>4. \A k \in 0 .. j : e[k] = (IF k = 0 THEN h ELSE op_address(e[k-1], s[k], what))
    <3> TAKE k \in 0 .. j
    <3>1. CASE k < j
      <4>1. k \in 0 .. j - 1 /\ (k # 0 => k - 1 \in 0 .. j /\ k - 1 < j)
        BY <2>1, <3>1
      <4>2. f[k] = (IF k = 0 THEN h ELSE op_address(f[k-1], s[k], what))
        BY <2>3, <4>1
      <4>3. e[k] = f[k] /\ (k # 0 => e[k-1] = f[k-1])
        BY <3>1, <4>1
      <4> HIDE DEF e
      <4> QED BY <4>2, <4>3
    <3>2. CASE k = j
      <4>1. j - 1 \in 0 .. j /\ j - 1 < j /\ j \in 0 .. j
        BY <2>1, <2>2
      <4>2. e[j-1] = f[j-1] /\ e[j] = last
        BY <4>1
      <4> HIDE DEF e
      <4> QED BY <2>2, <3>2, <4>2
    <3> QED BY <3>1, <3>2
  <2>5. e = [k \in 0 .. j |-> e[k]]
    OBVIOUS
  <2> HIDE DEF e
  <2>6. Is(e, j)
    BY <2>4, <2>5
  <2> QED BY <2>1, <2>6
<1>2. \E f : Is(f, n)
  BY <1>1
<1> DEFINE f == CHOOSE f : Is(f, n)
<1>3. Is(f, n)
  BY <1>2
<1>4. op_lines(h, s, what) = f[n]
  BY DEF op_lines, in_turn
<1> HIDE DEF f
<1>5. f[0] = h /\ \A k \in 1 .. n : f[k] = op_address(f[k-1], s[k], what)
  BY <1>3
<1> QED BY <1>4, <1>5 DEF LinesTurn

Members(s) == {s[k] : k \in 1 .. Len(s)}

LEMMA LinesIs ==
  ASSUME NEW h, Good(h), NEW s, Len(s) \in Nat, \A k \in 1 .. Len(s) : s[k] \in Address,
         NEW what \in What
  PROVE  LinesDone(h, op_lines(h, s, what), Members(s), what)
<1> DEFINE n == Len(s)
<1>1. n \in Nat /\ \A k \in 1 .. n : s[k] \in Address
  OBVIOUS
<1>2. PICK f : /\ f[0] = h /\ \A k \in 1 .. n : f[k] = op_address(f[k-1], s[k], what)
               /\ op_lines(h, s, what) = f[n]
  <2>1. LinesTurn(h, s, what)
    BY LinesInTurn
  <2> QED BY <2>1 DEF LinesTurn
<1> HIDE DEF n
<1> DEFINE T(k) == {s[j] : j \in 1 .. k}
           S == {k \in 0 .. n : LinesDone(h, f[k], T(k), what)}
<1>3. 0 \in S
  <2>1. T(0) = {}
    OBVIOUS
  <2>2. LinesDone(h, h, {}, what)
    BY DEF LinesDone, Kept
  <2> HIDE DEF T
  <2> QED BY <1>1, <1>2, <2>1, <2>2
<1>4. ASSUME NEW k \in 1 .. n, LinesDone(h, f[k-1], T(k-1), what)
      PROVE  LinesDone(h, f[k], T(k), what)
  <2>1. Good(f[k-1]) /\ s[k] \in Address
    BY <1>1, <1>4 DEF LinesDone
  <2>2. LinesDone(f[k-1], op_address(f[k-1], s[k], what), {s[k]}, what)
    BY <2>1, AddressDone
  <2>3. LinesDone(f[k-1], f[k], {s[k]}, what)
    BY <1>2, <2>2
  <2>4. T(k) = T(k-1) \union {s[k]}
    <3>1. 1 .. k = (1 .. k - 1) \union {k}
      BY <1>1
    <3> QED BY <3>1
  <2> HIDE DEF T
  <2> QED BY <1>4, <2>3, <2>4, LinesMore
<1>5. \A k \in 1 .. n : k - 1 \in S => k \in S
  <2> HIDE DEF T
  <2> QED BY <1>1, <1>4
<1>6. \A k \in 0 .. n : k \in S
  <2> HIDE DEF S
  <2> QED BY <1>1, <1>3, <1>5, Upto
<1>7. LinesDone(h, f[n], T(n), what)
  <2> HIDE DEF T
  <2>1. n \in 0 .. n
    BY <1>1
  <2> QED BY <1>6, <2>1
<1> QED BY <1>2, <1>7 DEF n, Members

\* What is behind lines that are not dirty is in memory.
LEMMA BehindIs ==
  ASSUME NEW h, Good(h), NEW a \in Address, \A y \in Slot : Has(h.cache, y, a) => ~h.cache[y].dirty
  PROVE  fetched(h, 1, a) = [b \in Data(a) |-> h.memory[b]]
<1> DEFINE n == Len(Geometry)
           v == [b \in Data(a) |-> h.memory[b]]
           S == {k \in 0 .. n : fetched(h, n + 1 - k, a) = v}
<1>1. n \in Nat
  BY Constants
<1>2. \A x \in Slot : x[1] \in Nat /\ x[1] >= 1 /\ x[1] <= n
  <2>1. \A l \in Level : l \in Nat /\ l >= 1 /\ l <= n
    BY <1>1 DEF Level
  <2> QED BY <2>1, SlotIs
<1> HIDE DEF n
<1>3. 0 \in S
  <2>1. n + 1 \in Nat /\ n + 1 - 0 = n + 1 /\ \A y \in Slot : ~(y[1] >= n + 1)
    BY <1>1, <1>2
  <2>2. fetched(h, n + 1, a) = v
    BY <2>1, FetchedMiss DEF Good
  <2> HIDE DEF v
  <2> QED BY <1>1, <2>1, <2>2
<1>4. ASSUME NEW k \in 1 .. n, fetched(h, n + 1 - (k - 1), a) = v
      PROVE  fetched(h, n + 1 - k, a) = v
  <2> DEFINE l == n + 1 - k
  <2>1. l \in Nat /\ n + 1 - (k - 1) = l + 1 /\ l + 1 \in Nat /\ l <= l + 1
    BY <1>1
  <2> HIDE DEF l
  <2>2. fetched(h, l + 1, a) = v
    BY <1>4, <2>1
  <2> HIDE DEF v
  <2>3. CASE \E x \in Slot : x[1] = l /\ Has(h.cache, x, a)
    <3>1. PICK x \in Slot : x[1] = l /\ Has(h.cache, x, a)
      BY <2>3
    <3>2. \A y \in Slot : y[1] >= l /\ y[1] < x[1] => ~Has(h.cache, y, a)
      BY <1>2, <2>1, <3>1
    <3>3. fetched(h, l, a) = h.cache[x].data
      <4>1. x[1] >= l
        BY <2>1, <3>1
      <4> QED BY <2>1, <3>1, <3>2, <4>1, FetchedHit DEF Good
    <3>4. h.cache[x].data = fetched(h, l + 1, a)
      BY <3>1 DEF Good, CleanAgrees, Has
    <3> QED BY <2>2, <3>3, <3>4 DEF l
  <2>4. CASE \A x \in Slot : x[1] = l => ~Has(h.cache, x, a)
    <3>1. \A y \in Slot : y[1] >= l /\ y[1] < l + 1 => ~Has(h.cache, y, a)
      <4> SUFFICES ASSUME NEW y \in Slot, y[1] >= l, y[1] < l + 1 PROVE ~Has(h.cache, y, a)
        OBVIOUS
      <4>1. y[1] = l
        BY <1>2, <2>1
      <4> QED BY <2>4, <4>1
    <3>2. fetched(h, l, a) = fetched(h, l + 1, a)
      BY <2>1, <3>1, FetchedPast DEF Good
    <3> QED BY <2>2, <3>2 DEF l
  <2> QED BY <2>3, <2>4
<1>5. \A k \in 1 .. n : k - 1 \in S => k \in S
  <2> HIDE DEF v
  <2> QED BY <1>1, <1>4
<1>6. \A k \in 0 .. n : k \in S
  <2> HIDE DEF S
  <2> QED BY <1>1, <1>3, <1>5, Upto
<1>7. fetched(h, 1, a) = v
  <2> HIDE DEF v
  <2>1. n \in 0 .. n /\ n + 1 - n = 1
    BY <1>1
  <2>2. fetched(h, n + 1 - n, a) = v
    BY <1>6, <2>1
  <2> QED BY <2>1, <2>2
<1> QED BY <1>7

-----------------------------------------------------------------------------
(* Addresses as signed numbers, and the lines of a buffer.                 *)

Round == 2^WIDTH
Half == 2^(WIDTH - 1)

LEMMA Halves ==
  /\ Half \in Nat \ {0} /\ Round \in Nat \ {0} /\ Round = Half + Half
  /\ Half % P = 0 /\ Round % P = 0 /\ P <= Half
  /\ \E m \in Nat \ {0} : Round = m * P /\ m = 2^(WIDTH - L)
<1>1. WIDTH - 1 \in 0 .. WIDTH - 1 /\ (WIDTH - 1) + 1 = WIDTH /\ WIDTH - 1 \in 0 .. WIDTH
      /\ WIDTH \in 0 .. WIDTH
      /\ WIDTH - 1 - L \in 0 .. WIDTH /\ (WIDTH - 1 - L) + L = WIDTH - 1
      /\ WIDTH \in Nat /\ 2 \in Nat \ {0} /\ WIDTH - 1 - L \in Nat
      /\ L \in 0 .. WIDTH - (WIDTH - 1 - L)
  BY Constants
<1>2. Half \in Nat \ {0} /\ Round \in Nat \ {0} /\ 2^(WIDTH - 1 - L) \in Nat \ {0}
  BY <1>1, PowerType DEF Half, Round
<1>3. Round = 2 * Half
  <2>1. \A k \in 0 .. WIDTH - 1 : 2^(k + 1) = 2 * 2^k
    BY PowersOfTwo
  <2>2. 2^((WIDTH - 1) + 1) = 2 * 2^(WIDTH - 1)
    BY <1>1, <2>1
  <2> QED BY <1>1, <2>2 DEF Half, Round
<1>4. Half = 2^(WIDTH - 1 - L) * P
  <2>1. 2^((WIDTH - 1 - L) + L) = 2^(WIDTH - 1 - L) * 2^L
    BY <1>1, PowersOfSum, PowerType
  <2> QED BY <1>1, <2>1 DEF Half, P
<1> DEFINE k == 2^(WIDTH - 1 - L)
<1> HIDE DEF k
<1>5. Half % P = 0
  <2>1. Half = k * P + 0 /\ 0 \in 0 .. P - 1 /\ k \in Int /\ Half \in Int
    BY <1>2, <1>4, LineType DEF k
  <2> QED BY <2>1, LineType, ModIs
<1>6. P <= Half
  <2>1. k \in Int /\ k >= 1 /\ Half = k * P
    BY <1>2, <1>4 DEF k
  <2> QED BY <2>1, LineType, Multiple
<1>7. PICK m \in Nat \ {0} : Round = m * P /\ m = 2^(WIDTH - L)
  BY WholeLines DEF Round
<1>8. Round % P = 0
  <2>1. Round = m * P + 0 /\ 0 \in 0 .. P - 1 /\ m \in Int /\ Round \in Int
    BY <1>2, <1>7, LineType
  <2> QED BY <2>1, LineType, ModIs
<1> QED BY <1>2, <1>3, <1>5, <1>6, <1>7, <1>8

\* Multiples of the length of a line, which are at least that far apart.
LEMMA PartsIs ==
  ASSUME NEW x \in Int, x % P = 0
  PROVE  x = (x \div P) * P /\ x \div P \in Int
<1>1. x % P \in 0 .. P - 1 /\ x \div P \in Int /\ x = (x \div P) * P + (x % P)
  BY LineType, DivMod
<1> DEFINE y == (x \div P) * P
<1>2. y \in Int /\ x = y + (x % P)
  BY <1>1, LineType
<1> HIDE DEF y
<1>3. x = y
  BY <1>2
<1> QED BY <1>1, <1>3 DEF y

LEMMA PartsAre ==
  ASSUME NEW q \in Int
  PROVE  q * P \in Int /\ (q * P) % P = 0
<1> DEFINE x == q * P
<1>1. x \in Int /\ x = q * P + 0 /\ 0 \in 0 .. P - 1
  BY LineType
<1> HIDE DEF x
<1>2. x % P = 0
  BY <1>1, LineType, ModIs
<1> QED BY <1>1, <1>2 DEF x

LEMMA Parts ==
  ASSUME NEW x \in Int, x % P = 0, NEW y \in Int, y % P = 0
  PROVE  (x + y) % P = 0 /\ (x - y) % P = 0
<1> DEFINE q == x \div P
           r == y \div P
<1>1. q \in Int /\ r \in Int /\ x = q * P /\ y = r * P
  BY PartsIs
<1> HIDE DEF q, r
<1>2. x + y = (q + r) * P /\ x - y = (q - r) * P /\ q + r \in Int /\ q - r \in Int
  BY <1>1, LineType
<1>3. ((q + r) * P) % P = 0 /\ ((q - r) * P) % P = 0
  BY <1>2, PartsAre
<1> QED BY <1>2, <1>3

LEMMA Apart ==
  ASSUME NEW x \in Int, x % P = 0, NEW y \in Int, y % P = 0, x < y
  PROVE  x + P <= y
<1> DEFINE d == y - x
           q == d \div P
<1>1. d \in Int /\ d % P = 0 /\ d >= 1
  BY Parts
<1>2. q \in Int /\ d = q * P
  BY <1>1, PartsIs
<1> HIDE DEF q, d
<1>3. q >= 1
  <2> SUFFICES ASSUME q <= 0 PROVE FALSE
    BY <1>2
  <2>1. q * P <= 0
    BY <1>2, LineType
  <2> QED BY <1>1, <1>2, <2>1
<1>4. d >= P
  BY <1>2, <1>3, LineType, Multiple
<1> QED BY <1>1, <1>4, LineType DEF d

LEMMA SignedIs ==
  ASSUME NEW x \in Byte
  PROVE  /\ signed(x) \in -Half .. Half - 1 /\ signed(x) \in Int /\ x \in Nat
         /\ x = IF signed(x) >= 0 THEN signed(x) ELSE signed(x) + Round
         /\ signed(x) = IF x >= Half THEN x - Round ELSE x
BY Halves DEF signed, Byte, Half, Round

LEMMA SignedOnce ==
  ASSUME NEW x \in Byte, NEW y \in Byte, signed(x) = signed(y)
  PROVE  x = y
BY SignedIs, Halves

LEMMA InRound ==
  ASSUME NEW z \in 0 .. Round - 1
  PROVE  z % Round = z
<1>1. z \in Int /\ z = 0 * Round + z /\ 0 \in Int
  BY Halves
<1> QED BY <1>1, Halves, ModIs

\* Adding without leaving the signed numbers.
LEMMA SumSigned ==
  ASSUME NEW x \in Byte, NEW k \in Nat, signed(x) + k <= Half - 1
  PROVE  sum(x, k) \in Byte /\ signed(sum(x, k)) = signed(x) + k
<1>1. x \in Nat /\ x < Round /\ x + k \in Nat
  BY Halves DEF Byte, Round
<1>2. sum(x, k) = (x + k) % Round
  BY DEF sum, Round
<1>3. CASE x < Half
  <2>1. signed(x) = x /\ x + k <= Half - 1
    BY <1>3, SignedIs, Halves
  <2>2. x + k \in 0 .. Round - 1
    BY <1>1, <2>1, Halves
  <2>3. (x + k) % Round = x + k
    BY <2>2, InRound
  <2>4. sum(x, k) \in Byte /\ ~(sum(x, k) >= Half)
    BY <1>2, <2>1, <2>2, <2>3, Halves DEF Byte, Round
  <2>5. signed(sum(x, k)) = sum(x, k)
    BY <2>4, SignedIs
  <2> QED BY <1>2, <2>1, <2>3, <2>4, <2>5
<1>4. CASE x >= Half /\ x + k < Round
  <2>1. signed(x) = x - Round
    BY <1>4, SignedIs, Halves
  <2>2. x + k \in 0 .. Round - 1
    BY <1>1, <1>4, <2>1, Halves
  <2>3. (x + k) % Round = x + k
    BY <2>2, InRound
  <2>4. sum(x, k) \in Byte /\ sum(x, k) >= Half
    <3>1. sum(x, k) \in Byte /\ sum(x, k) = x + k
      BY <1>2, <2>2, <2>3 DEF Byte, Round
    <3> QED BY <1>1, <1>4, <3>1, Halves
  <2>5. signed(sum(x, k)) = sum(x, k) - Round
    BY <2>4, SignedIs
  <2> QED BY <1>1, <1>2, <2>1, <2>3, <2>4, <2>5, Halves
<1>5. CASE x >= Half /\ x + k >= Round
  <2>1. signed(x) = x - Round
    BY <1>5, SignedIs, Halves
  <2> DEFINE r == x + k - Round
  <2>2. x + k = 1 * Round + r /\ r \in 0 .. Round - 1 /\ r < Half /\ r = signed(x) + k
    BY <1>1, <1>5, <2>1, Halves
  <2> HIDE DEF r
  <2>3. (x + k) % Round = r
    BY <1>1, <2>2, Halves, ModIs
  <2>4. sum(x, k) \in Byte /\ ~(sum(x, k) >= Half)
    BY <1>2, <2>2, <2>3, Halves DEF Byte, Round
  <2>5. signed(sum(x, k)) = sum(x, k)
    BY <2>4, SignedIs
  <2> QED BY <1>2, <2>2, <2>3, <2>4, <2>5
<1> QED BY <1>1, <1>3, <1>4, <1>5, Halves

LEMMA LineSigned ==
  ASSUME NEW x \in Byte
  PROVE  /\ line(x) \in Address /\ line(x) \in Byte
         /\ signed(line(x)) \in Int /\ signed(line(x)) % P = 0
         /\ signed(line(x)) <= signed(x) /\ signed(x) < signed(line(x)) + P
<1> DEFINE y == line(x)
<1>1. y \in Address /\ x \in Data(y)
  BY LineOf
<1> HIDE DEF y
<1>2. y \in Byte /\ y \in Nat /\ y % P = 0 /\ y <= x /\ x < y + P
  <2>1. Data(y) = y .. y + P - 1
    BY <1>1, DataIs
  <2> QED BY <1>1, <2>1, AddressIs, LineType, SMTT(20)
<1>3. x \in Nat /\ signed(y) \in Int
  BY <1>2, SignedIs
<1>4. x >= Half => y >= Half
  <2> SUFFICES ASSUME x >= Half, y < Half PROVE FALSE
    BY <1>2, Halves
  <2>1. y + P <= Half
    BY <1>2, Halves, Apart
  <2> QED BY <1>2, <1>3, <2>1, Halves, LineType
<1>5. (y - Round) % P = 0
  BY <1>2, Halves, Parts
<1>6. signed(y) % P = 0
  BY <1>2, <1>5, SignedIs
<1>7. signed(y) <= signed(x) /\ signed(x) < signed(y) + P
  <2>1. CASE x >= Half
    BY <1>2, <1>3, <1>4, <2>1, SignedIs, Halves, LineType
  <2>2. CASE ~(x >= Half)
    <3>1. ~(y >= Half)
      BY <1>2, <1>3, <2>2, Halves
    <3> QED BY <1>2, <1>3, <2>2, <3>1, SignedIs, Halves, LineType
  <2> QED BY <2>1, <2>2
<1> QED BY <1>1, <1>2, <1>3, <1>6, <1>7 DEF y

LEMMA AddressSigned ==
  ASSUME NEW a \in Address
  PROVE  /\ a \in Byte /\ line(a) = a /\ signed(a) \in Int /\ signed(a) % P = 0
         /\ -Half <= signed(a) /\ signed(a) <= Half - P
<1>1. a \in Byte /\ a \in Data(a)
  BY AddressIs, DataIs
<1>2. line(a) = a
  BY <1>1, LineOf
<1>3. signed(a) \in Int /\ signed(a) % P = 0 /\ -Half <= signed(a) /\ signed(a) < Half
  BY <1>1, <1>2, LineSigned, SignedIs, Halves
<1>4. signed(a) + P <= Half
  BY <1>3, Halves, Apart
<1> QED BY <1>1, <1>2, <1>3, <1>4, Halves, LineType

\* A line is known by its place among the signed numbers too.
LEMMA LineAt ==
  ASSUME NEW a \in Address, NEW x \in Byte, signed(a) <= signed(x), signed(x) < signed(a) + P
  PROVE  line(x) = a
<1> DEFINE s == signed(a)
           t == signed(line(x))
           u == signed(x)
<1>1. s \in Int /\ s % P = 0 /\ t \in Int /\ t % P = 0 /\ u \in Int /\ t <= u /\ u < t + P
      /\ s <= u /\ u < s + P
  BY AddressSigned, LineSigned, SignedIs
<1> HIDE DEF s, t, u
<1>2. ~(s < t)
  <2> SUFFICES ASSUME s < t PROVE FALSE
    OBVIOUS
  <2>1. s + P <= t
    BY <1>1, Apart
  <2> QED BY <1>1, <2>1, LineType
<1>3. ~(t < s)
  <2> SUFFICES ASSUME t < s PROVE FALSE
    OBVIOUS
  <2>1. t + P <= s
    BY <1>1, Apart
  <2> QED BY <1>1, <2>1, LineType
<1>4. s = t
  BY <1>1, <1>2, <1>3
<1> QED BY <1>4, AddressSigned, LineSigned, SignedOnce DEF s, t

LEMMA SumLine ==
  ASSUME NEW a \in Address, NEW k \in Nat
  PROVE  sum(a, k * P) \in Address
<1> DEFINE x == a + k * P
           r == x % Round
           q == x \div Round
<1>1. k * P \in Int /\ (k * P) % P = 0 /\ a \in Int /\ a % P = 0
  BY PartsAre, AddressIs
<1>2. x \in Int /\ x % P = 0
  <2> DEFINE p == k * P
  <2>1. p \in Int /\ p % P = 0
    BY <1>1
  <2> HIDE DEF p
  <2>2. a + p \in Int /\ (a + p) % P = 0
    BY <1>1, <2>1, Parts
  <2> QED BY <2>2 DEF p
<1>3. sum(a, k * P) = r
  BY DEF sum, Round
<1> HIDE DEF x
<1>4. r \in 0 .. Round - 1 /\ q \in Int /\ x = q * Round + r
  BY <1>2, Halves, DivMod
<1> HIDE DEF r, q
<1>5. PICK m \in Nat \ {0} : Round = m * P
  BY Halves
<1> DEFINE z == q * Round
<1>6. z \in Int /\ z = (q * m) * P /\ q * m \in Int
  BY <1>4, <1>5, Halves, LineType
<1>7. z % P = 0
  BY <1>6, PartsAre
<1> HIDE DEF z
<1>8. r = x - z
  BY <1>2, <1>4, <1>6 DEF z
<1>9. r % P = 0
  BY <1>2, <1>6, <1>7, <1>8, Parts
<1> QED BY <1>3, <1>4, <1>9, Halves DEF Address, Byte, P, Round

\* The lines from one to another are visited, each time in memory.
Visits(s, from, to, least) ==
  /\ Len(s) \in Nat /\ \A k \in 1 .. Len(s) : s[k] \in Address
  /\ \A a \in Address : signed(from) <= signed(a) /\ signed(a) < signed(to) =>
       \E k \in 1 .. Len(s) : s[k] = a
  /\ least = 0 => \A k \in 1 .. Len(s) : signed(from) <= signed(s[k]) /\ signed(s[k]) < signed(to)

LEMMA VisitedIs ==
  ASSUME NEW f \in Address, NEW t \in Address, NEW least \in {0, 1}
  PROVE  Visits(visited(f, t, least), f, t, least)
<1> DEFINE u == signed(f)
           v == signed(t)
           m == 2^(WIDTH - L)
           at(k) == signed(sum(f, k * P))
           T == {k \in least .. m : at(k) >= v}
           n == nearest(T)
           s == visited(f, t, least)
<1>1. /\ u \in Int /\ v \in Int /\ u % P = 0 /\ v % P = 0
      /\ -Half <= u /\ u <= Half - P /\ v <= Half - P /\ f \in Byte
  BY AddressSigned
<1>2. m \in Nat \ {0} /\ Round = m * P
  BY Halves
<1>3. s = [k \in 1 .. n |-> sum(f, (k - 1) * P)]
  BY DEF visited, P
<1> HIDE DEF u, v, m
<1>4. ASSUME NEW k \in Nat, u + k * P <= v PROVE at(k) = u + k * P /\ k <= m
  <2> DEFINE p == k * P
  <2>1. p \in Nat /\ u + p <= Half - 1
    BY <1>1, <1>4, LineType, Halves
  <2> HIDE DEF p
  <2>2. signed(sum(f, p)) = u + p
    BY <1>1, <2>1, SumSigned DEF u
  <2>3. p <= Round
    BY <1>1, <2>1, Halves
  <2>4. k <= m
    <3> SUFFICES ASSUME k >= m + 1 PROVE FALSE
      BY <1>2
    <3>1. k * P >= (m + 1) * P /\ (m + 1) * P = m * P + P
      BY <1>2, LineType
    <3> QED BY <1>2, <2>1, <2>3, <3>1, LineType, Halves DEF p
  <2> QED BY <2>2, <2>4 DEF p
<1>5. ASSUME u < v PROVE \E k \in T : u + k * P <= v
  <2> DEFINE d == v - u
             k == d \div P
  <2>1. d \in Int /\ d % P = 0 /\ d >= 1
    BY <1>1, <1>5, Parts
  <2>2. k \in Int /\ d = k * P
    BY <2>1, PartsIs
  <2> HIDE DEF k
  <2>3. k >= 1
    <3> SUFFICES ASSUME k <= 0 PROVE FALSE
      BY <2>2
    <3>1. k * P <= 0
      BY <2>2, LineType
    <3> QED BY <2>1, <2>2, <3>1
  <2>4. u + k * P = v /\ k \in Nat
    BY <1>1, <2>2, <2>3
  <2>5. at(k) = v /\ k <= m
    <3> HIDE DEF at
    <3>1. u + k * P <= v
      BY <1>1, <2>4
    <3> QED BY <1>4, <2>4, <3>1
  <2>6. k \in T
    <3>1. k \in least .. m
      BY <1>2, <2>2, <2>3, <2>5
    <3> HIDE DEF at
    <3> QED BY <1>1, <2>5, <3>1
  <2> HIDE DEF T
  <2> QED BY <1>1, <2>4, <2>6
<1>6. ASSUME u >= v PROVE m \in T
  <2>1. sum(f, Round) = f
    <3> DEFINE x == f + Round
    <3>1. f \in 0 .. Round - 1 /\ x = 1 * Round + f /\ x \in Int /\ 1 \in Int
      BY <1>1, Halves DEF Byte, Round
    <3> HIDE DEF x
    <3>2. x % Round = f
      BY <3>1, Halves, ModIs
    <3> QED BY <3>2 DEF x, sum, Round
  <2>2. at(m) = u
    BY <1>2, <2>1 DEF u
  <2>3. m \in least .. m
    BY <1>2
  <2> HIDE DEF at
  <2> QED BY <1>6, <2>2, <2>3
<1>7. T \subseteq Nat /\ T # {}
  <2>1. T # {}
    <3> HIDE DEF T
    <3> QED BY <1>1, <1>5, <1>6
  <2> QED BY <1>2, <2>1
<1>8. n \in T /\ \A j \in T : n <= j
  <2> HIDE DEF T
  <2> QED BY <1>7, NearestIs
<1> HIDE DEF n, s
<1>9. n \in Nat /\ n <= m /\ at(n) >= v /\ n >= least
  <2> HIDE DEF at
  <2> QED BY <1>2, <1>8
<1>10. Len(s) = n /\ \A k \in 1 .. n : s[k] = sum(f, (k - 1) * P) /\ k - 1 \in Nat
  BY <1>3, <1>9
<1>11. \A k \in 1 .. n : s[k] \in Address
  BY <1>10, SumLine
<1>12. ASSUME NEW a \in Address, u <= signed(a), signed(a) < v PROVE \E k \in 1 .. n : s[k] = a
  <2> DEFINE w == signed(a)
             d == w - u
             j == d \div P
  <2>1. w \in Int /\ w % P = 0 /\ a \in Byte
    BY AddressSigned
  <2> HIDE DEF w
  <2>2. d \in Int /\ d % P = 0 /\ d >= 0
    <3>1. u <= w
      BY <1>12 DEF w
    <3>2. (w - u) % P = 0
      BY <1>1, <2>1, Parts
    <3> QED BY <1>1, <2>1, <3>1, <3>2
  <2>3. j \in Int /\ d = j * P
    BY <2>2, PartsIs
  <2> HIDE DEF j
  <2>4. j >= 0
    <3> SUFFICES ASSUME j <= -1 PROVE FALSE
      BY <2>3
    <3>1. j * P <= -P
      BY <2>3, LineType
    <3> QED BY <2>2, <2>3, <3>1, LineType
  <2>5. u + j * P = w /\ j \in Nat /\ w < v
    BY <1>1, <1>12, <2>1, <2>3, <2>4 DEF w
  <2>6. at(j) = w
    <3> HIDE DEF at
    <3>1. u + j * P <= v
      BY <1>1, <2>1, <2>5
    <3> QED BY <1>4, <2>5, <3>1
  <2>7. j < n
    <3> SUFFICES ASSUME n <= j PROVE FALSE
      BY <1>9, <2>5
    <3> DEFINE p == n * P
               q == j * P
    <3>1. p <= q /\ p \in Int /\ q \in Int
      BY <1>9, <2>5, LineType
    <3>2. u + p <= v /\ u + p < v
      <4> HIDE DEF p, q
      <4> QED BY <1>1, <2>1, <2>5, <3>1 DEF q
    <3> HIDE DEF at
    <3>3. at(n) = u + n * P
      BY <1>4, <1>9, <3>2
    <3> QED BY <1>1, <1>9, <3>1, <3>2, <3>3
  <2> DEFINE k == j + 1
  <2>8. k \in 1 .. n /\ k - 1 = j
    BY <1>9, <2>5, <2>7
  <2> HIDE DEF k
  <2>9. s[k] = sum(f, j * P) /\ s[k] \in Address
    BY <1>10, <1>11, <2>8
  <2>10. s[k] \in Byte /\ signed(s[k]) = signed(a)
    BY <2>6, <2>9, AddressIs DEF w
  <2>11. s[k] = a
    BY <2>1, <2>10, SignedOnce
  <2> QED BY <2>8, <2>11
<1>13. ASSUME least = 0, NEW k \in 1 .. n PROVE u <= signed(s[k]) /\ signed(s[k]) < v
  <2> DEFINE j == k - 1
  <2>1. j \in Nat /\ j < n /\ j \in least .. m
    BY <1>2, <1>9, <1>13
  <2>2. signed(s[k]) = at(j) /\ s[k] \in Address
    BY <1>10, <1>11
  <2> HIDE DEF j
  <2>3. signed(s[k]) \in Int
    BY <2>2, AddressSigned
  <2>4. at(j) < v
    <3>1. j \notin T
      <4> HIDE DEF T
      <4> QED BY <1>8, <1>9, <2>1
    <3>2. ~(at(j) >= v)
      <4> HIDE DEF at
      <4> QED BY <2>1, <3>1
    <3> HIDE DEF at
    <3> QED BY <1>1, <2>2, <2>3, <3>2
  <2>5. u < v
    <3> SUFFICES ASSUME u >= v PROVE FALSE
      BY <1>1
    <3>1. 0 * P = 0 /\ u + 0 * P = u
      BY <1>1, LineType
    <3>2. at(0) = u
      <4>1. f + 0 = f /\ f \in 0 .. Round - 1
        BY <1>1, Halves DEF Byte, Round
      <4>2. sum(f, 0) = f
        BY <4>1, InRound DEF sum, Round
      <4> QED BY <3>1, <4>2 DEF u
    <3>3. 0 \in T
      <4>1. 0 \in least .. m
        BY <1>2, <1>13
      <4> HIDE DEF at
      <4> QED BY <3>2, <4>1
    <3> HIDE DEF T
    <3> QED BY <1>8, <1>9, <2>1, <3>3
  <2>6. PICK i0 \in T : u + i0 * P <= v
    <3> HIDE DEF T
    <3> QED BY <1>5, <2>5
  <2>7. n <= i0 /\ i0 \in Nat
    <3> HIDE DEF T
    <3> QED BY <1>7, <1>8, <2>6
  <2> DEFINE p == j * P
             q == i0 * P
  <2>8. p \in Nat /\ q \in Nat /\ p <= q
    BY <1>9, <2>1, <2>7, LineType
  <2>9. u + p <= v
    <3> HIDE DEF p
    <3>1. u + q <= v
      BY <2>6
    <3> HIDE DEF q
    <3> QED BY <1>1, <2>8, <3>1
  <2>10. at(j) = u + p
    <3> HIDE DEF at
    <3> QED BY <1>4, <2>1, <2>9
  <2> HIDE DEF at, p
  <2> QED BY <1>1, <2>2, <2>3, <2>4, <2>8, <2>10
<1> QED BY <1>9, <1>10, <1>11, <1>12, <1>13 DEF Visits, u, v, s

LEMMA CoveredIs ==
  ASSUME NEW a \in Byte, NEW n \in Nat, signed(a) + n <= Half - P
  PROVE  covered(a, n) = {x \in Byte : signed(a) <= signed(x) /\ signed(x) < signed(a) + n}
<1>1. signed(a) \in Int /\ P \in Nat \ {0} /\ Half \in Int
  BY SignedIs, LineType, Halves
<1>2. ASSUME NEW x \in covered(a, n)
      PROVE  x \in Byte /\ signed(a) <= signed(x) /\ signed(x) < signed(a) + n
  <2>1. PICK k \in 0 .. n - 1 : x = sum(a, k)
    BY DEF covered
  <2>2. k \in Nat /\ signed(a) + k <= Half - 1 /\ k < n
    BY <1>1
  <2> QED BY <1>1, <2>1, <2>2, SumSigned
<1>3. ASSUME NEW x \in Byte, signed(a) <= signed(x), signed(x) < signed(a) + n
      PROVE  x \in covered(a, n)
  <2> DEFINE k == signed(x) - signed(a)
  <2>1. signed(x) \in Int
    BY SignedIs
  <2>2. k \in 0 .. n - 1 /\ signed(a) + k = signed(x) /\ k \in Nat /\ signed(a) + k <= Half - 1
    BY <1>1, <1>3, <2>1
  <2> HIDE DEF k
  <2>3. sum(a, k) \in Byte /\ signed(sum(a, k)) = signed(x)
    BY <2>2, SumSigned
  <2>4. x = sum(a, k)
    BY <2>3, SignedOnce
  <2> QED BY <2>2, <2>4 DEF covered
<1> QED BY <1>2, <1>3

LEMMA UnalignedIs ==
  ASSUME NEW x \in Byte
  PROVE  /\ Len(unaligned(x)) \in Nat /\ unaligned(x) \in Seq(Address)
         /\ \A k \in 1 .. Len(unaligned(x)) : unaligned(x)[k] \in Address
         /\ Members(unaligned(x)) = IF line(x) = x THEN {} ELSE {line(x)}
<1>1. x \in Nat /\ x % P \in 0 .. P - 1 /\ line(x) = x - (x % P)
  <2>1. x \in Int /\ x \in Nat
    BY SignedIs
  <2>2. line(x) = x - (x % P)
    BY DEF line, P
  <2> QED BY <2>1, <2>2, LineType, DivMod
<1>2. CASE x % P = 0
  <2>1. unaligned(x) = <<>> /\ line(x) = x
    BY <1>1, <1>2 DEF unaligned, P
  <2> QED BY <2>1 DEF Members
<1>3. CASE x % P # 0
  <2>1. unaligned(x) = <<line(x)>> /\ line(x) # x
    <3>1. unaligned(x) = <<line(x)>>
      BY <1>3 DEF unaligned, P
    <3>2. line(x) # x
      <4> DEFINE y == x % P
      <4> HIDE DEF y
      <4>1. x \in Nat /\ y \in 0 .. P - 1 /\ line(x) = x - y /\ y # 0
        BY <1>1, <1>3 DEF y
      <4> QED BY <4>1, LineType
    <3> QED BY <3>1, <3>2
  <2>2. line(x) \in Address
    BY LineOf
  <2> DEFINE y == line(x)
  <2> HIDE DEF y
  <2>3. Len(<<y>>) = 1 /\ <<y>>[1] = y /\ 1 .. 1 = {1}
    OBVIOUS
  <2>4. Members(<<y>>) = {y}
    BY <2>3 DEF Members
  <2> QED BY <2>1, <2>2, <2>3, <2>4 DEF y
<1> QED BY <1>2, <1>3

LEMMA LinesOfTwo ==
  ASSUME NEW s, NEW t, Len(s) \in Nat, Len(t) \in Nat, s \in Seq(Address), t \in Seq(Address)
  PROVE  /\ Len(s \o t) \in Nat /\ \A k \in 1 .. Len(s \o t) : (s \o t)[k] \in Address
         /\ Members(s \o t) = Members(s) \union Members(t)
<1>1. /\ s \o t \in Seq(Address) /\ Len(s \o t) = Len(s) + Len(t)
      /\ \A k \in 1 .. Len(s) + Len(t) : (s \o t)[k] = IF k <= Len(s) THEN s[k] ELSE t[k - Len(s)]
  OBVIOUS
<1>2. \A k \in 1 .. Len(s) : s[k] \in Address
  OBVIOUS
<1>3. \A k \in 1 .. Len(t) : t[k] \in Address
  OBVIOUS
<1> DEFINE m == Len(s)
           n == Len(t)
           r == s \o t
<1>4. Len(r) = m + n /\ m \in Nat /\ n \in Nat
      /\ \A k \in 1 .. m + n : r[k] = IF k <= m THEN s[k] ELSE t[k - m]
  BY <1>1
<1>5. (\A k \in 1 .. m : s[k] \in Address) /\ (\A k \in 1 .. n : t[k] \in Address)
  BY <1>2, <1>3
<1>6. Members(r) = {r[k] : k \in 1 .. Len(r)} /\ Members(s) = {s[k] : k \in 1 .. m}
      /\ Members(t) = {t[k] : k \in 1 .. n}
  BY DEF Members
<1> HIDE DEF m, n, r
<1>7. \A k \in 1 .. m : k \in 1 .. m + n /\ r[k] = s[k]
  BY <1>4
<1>8. \A k \in 1 .. n : m + k \in 1 .. m + n /\ r[m + k] = t[k]
  <2> SUFFICES ASSUME NEW k \in 1 .. n PROVE m + k \in 1 .. m + n /\ r[m + k] = t[k]
    OBVIOUS
  <2>1. m + k \in 1 .. m + n /\ ~(m + k <= m) /\ (m + k) - m = k
    BY <1>4
  <2> QED BY <1>4, <2>1
<1>9. \A k \in 1 .. m + n : (k \in 1 .. m /\ r[k] = s[k]) \/ (k - m \in 1 .. n /\ r[k] = t[k - m])
  BY <1>4
<1>10. \A k \in 1 .. Len(r) : r[k] \in Address
  BY <1>4, <1>5, <1>9
<1>11. Members(r) = Members(s) \union Members(t)
  <2>1. \A z \in Members(r) : z \in Members(s) \union Members(t)
    BY <1>4, <1>6, <1>9
  <2>2. \A z \in Members(s) \union Members(t) : z \in Members(r)
    BY <1>4, <1>6, <1>7, <1>8
  <2> QED BY <2>1, <2>2
<1> QED BY <1>4, <1>10, <1>11 DEF r

\* What a call for the bytes in S does.
BufferDone(h, g, S, what) ==
  /\ Good(g) /\ \A x \in S : Cleared(g.cache, line(x), what)
  /\ \A b \in Address : (what = "invalidate" => ~(Data(b) \subseteq S)) =>
       fetched(g, 1, b) = fetched(h, 1, b)

\* Lines are in the order of what is in them.
LEMMA LinesOrder ==
  ASSUME NEW x \in Byte, NEW y \in Byte, signed(x) <= signed(y)
  PROVE  signed(line(x)) <= signed(line(y))
<1> DEFINE u == signed(line(x))
           v == signed(line(y))
           s == signed(x)
           t == signed(y)
<1>1. u \in Int /\ u % P = 0 /\ u <= s /\ s \in Int
  BY LineSigned, SignedIs
<1>2. v \in Int /\ v % P = 0 /\ t < v + P /\ t \in Int
  BY LineSigned, SignedIs
<1>3. s <= t
  OBVIOUS
<1> HIDE DEF u, v, s, t
<1>4. ~(v < u)
  <2> SUFFICES ASSUME v < u PROVE FALSE
    OBVIOUS
  <2>1. v + P <= u
    BY <1>1, <1>2, Apart
  <2> QED BY <1>1, <1>2, <1>3, <2>1, LineType
<1>5. u <= v
  BY <1>1, <1>2, <1>4
<1> QED BY <1>5 DEF u, v

LEMMA EndIs ==
  ASSUME NEW a \in Byte, NEW n \in Nat, signed(a) + n <= Half - P
  PROVE  sum(a, n) \in Byte /\ signed(sum(a, n)) = signed(a) + n /\ signed(a) \in Int
<1> DEFINE s == signed(a)
<1>1. s \in Int /\ Half \in Int /\ P \in Nat \ {0} /\ s + n <= Half - P
  BY SignedIs, LineType, Halves
<1> HIDE DEF s
<1>2. s + n <= Half - 1
  BY <1>1
<1> QED BY <1>1, <1>2, SumSigned DEF s

\* The end of a buffer, the lines there, and the lines between.
LEMMA EndsAre ==
  ASSUME NEW a \in Byte, NEW n \in Nat, signed(a) + n <= Half - P, NEW x \in covered(a, n)
  PROVE  /\ sum(a, n) \in Byte /\ x \in Byte /\ signed(sum(a, n)) = signed(a) + n
         /\ \/ line(x) = line(sum(a, n)) /\ line(sum(a, n)) # sum(a, n)
            \/ signed(line(x)) < signed(line(sum(a, n)))
<1> DEFINE z == sum(a, n)
           u == signed(x)
           v == signed(z)
           lu == signed(line(x))
           lv == signed(line(z))
<1>1. x \in Byte /\ z \in Byte /\ v = signed(a) + n /\ u < v
  BY EndIs, CoveredIs
<1>2. /\ u \in Int /\ v \in Int /\ lu \in Int /\ lv \in Int /\ lu % P = 0 /\ lv % P = 0
      /\ lu <= u /\ u < lu + P /\ lv <= v /\ v < lv + P
  BY <1>1, SignedIs, LineSigned
<1>3. line(x) \in Address /\ line(x) \in Byte /\ line(z) \in Byte
  BY <1>1, LineSigned
<1>4. lu = lv => line(x) = line(z)
  BY <1>3, SignedOnce
<1>5. line(z) = z => lv = v
  OBVIOUS
<1> HIDE DEF z, u, v, lu, lv
<1>6. ~(lv < lu)
  <2> SUFFICES ASSUME lv < lu PROVE FALSE
    OBVIOUS
  <2>1. lv + P <= lu
    BY <1>2, Apart
  <2> QED BY <1>1, <1>2, <2>1, LineType
<1>7. lu = lv => line(z) # z
  BY <1>1, <1>2, <1>5
<1> QED BY <1>1, <1>2, <1>4, <1>6, <1>7 DEF z, u, v, lu, lv

\* CP15DCacheCleanBuff and CP15DCacheCleanFlushBuff do what they are for.
LEMMA CleanBufferIs ==
  ASSUME NEW h, Good(h), NEW a \in Byte, NEW n \in Nat, signed(a) + n <= Half - P,
         NEW what \in {"clean", "clean invalidate"}
  PROVE  BufferDone(h, clean_buffer(h, a, n, what), covered(a, n), what)
<1> DEFINE z == sum(a, n)
           s == unaligned(z)
           t == visited(line(a), line(z), 1)
           e == op_lines(h, s, what)
           g == op_lines(e, t, what)
<1>1. g = clean_buffer(h, a, n, what)
  BY DEF clean_buffer
<1>2. z \in Byte
  BY EndIs
<1>3. line(a) \in Address /\ line(z) \in Address /\ what \in What /\ what # "invalidate"
  BY <1>2, LineSigned DEF What
<1>4. /\ Len(s) \in Nat /\ \A k \in 1 .. Len(s) : s[k] \in Address
      /\ Members(s) = IF line(z) = z THEN {} ELSE {line(z)}
  BY <1>2, UnalignedIs
<1>5. Visits(t, line(a), line(z), 1)
  BY <1>3, VisitedIs
<1> HIDE DEF z, s, t
<1>6. LinesDone(h, e, Members(s), what)
  BY <1>3, <1>4, LinesIs
<1> HIDE DEF e
<1>7. Good(e) /\ Len(t) \in Nat /\ \A k \in 1 .. Len(t) : t[k] \in Address
  BY <1>5, <1>6 DEF LinesDone, Visits
<1>8. LinesDone(e, g, Members(t), what)
  BY <1>3, <1>7, LinesIs
<1> HIDE DEF g
<1>9. LinesDone(h, g, Members(s) \union Members(t), what)
  BY <1>6, <1>8, LinesMore
<1>10. ASSUME NEW x \in covered(a, n) PROVE line(x) \in Members(s) \union Members(t)
  <2>1. /\ x \in Byte /\ \/ line(x) = line(z) /\ line(z) # z
                         \/ signed(line(x)) < signed(line(z))
    BY EndsAre DEF z
  <2>2. CASE line(x) = line(z) /\ line(z) # z
    BY <1>4, <2>2
  <2>3. CASE signed(line(x)) < signed(line(z))
    <3>1. signed(line(a)) <= signed(line(x))
      BY <2>1, CoveredIs, LinesOrder
    <3>2. line(x) \in Address
      BY <2>1, LineSigned
    <3>3. \E k \in 1 .. Len(t) : t[k] = line(x)
      BY <1>5, <2>3, <3>1, <3>2 DEF Visits
    <3> QED BY <3>3 DEF Members
  <2> QED BY <2>1, <2>2, <2>3
<1>11. Good(g) /\ \A x \in covered(a, n) : Cleared(g.cache, line(x), what)
  BY <1>9, <1>10 DEF LinesDone
<1>12. \A b \in Address : fetched(g, 1, b) = fetched(h, 1, b)
  BY <1>3, <1>9 DEF LinesDone, Kept
<1> QED BY <1>1, <1>11, <1>12 DEF BufferDone

\* CP15DCacheFlushBuff does, and throws away nothing else.
LEMMA FlushBufferIs ==
  ASSUME NEW h, Good(h), NEW a \in Byte, NEW n \in Nat, signed(a) + n <= Half - P
  PROVE  BufferDone(h, flush_buffer(h, a, n), covered(a, n), "invalidate")
<1> DEFINE z == sum(a, n)
           s == unaligned(a) \o unaligned(z)
           f == IF a % 2^L # 0 THEN sum(line(a), 2^L) ELSE a
           t == visited(f, line(z), 0)
           e == op_lines(h, s, "clean invalidate")
           g == op_lines(e, t, "invalidate")
<1>1. g = flush_buffer(h, a, n)
  BY DEF flush_buffer
<1>2. z \in Byte /\ signed(z) = signed(a) + n /\ signed(a) \in Int
  BY EndIs
<1>3. line(a) \in Address /\ line(z) \in Address /\ a % P \in 0 .. P - 1 /\ line(a) = a - (a % P)
  <2>1. a \in Int
    BY SignedIs
  <2> QED BY <1>2, <2>1, LineSigned, LineType, DivMod DEF line, P
<1>4. /\ Len(s) \in Nat /\ \A k \in 1 .. Len(s) : s[k] \in Address
      /\ Members(s) = (IF line(a) = a THEN {} ELSE {line(a)})
                   \union (IF line(z) = z THEN {} ELSE {line(z)})
  <2>1. Len(unaligned(a)) \in Nat /\ unaligned(a) \in Seq(Address)
        /\ Len(unaligned(z)) \in Nat /\ unaligned(z) \in Seq(Address)
        /\ Members(unaligned(a)) = (IF line(a) = a THEN {} ELSE {line(a)})
        /\ Members(unaligned(z)) = (IF line(z) = z THEN {} ELSE {line(z)})
    BY <1>2, UnalignedIs
  <2> HIDE DEF z
  <2> QED BY <2>1, LinesOfTwo
<1>5. /\ f \in Address /\ signed(a) <= signed(f) /\ signed(f) \in Int
      /\ \/ line(a) = a /\ f = a
         \/ line(a) # a /\ signed(f) = signed(line(a)) + P
  <2>1. CASE a % P = 0
    <3>1. line(a) = a
      BY <1>3, <2>1, SignedIs
    <3>2. f = a
      BY <2>1 DEF P
    <3> HIDE DEF f
    <3> QED BY <1>2, <1>3, <3>1, <3>2
  <2>2. CASE a % P # 0
    <3>1. line(a) # a /\ line(a) < a
      <4> DEFINE y == a % P
      <4> HIDE DEF y
      <4>1. a \in Nat /\ y \in 0 .. P - 1 /\ line(a) = a - y /\ y # 0
        BY <1>3, <2>2, SignedIs DEF y
      <4> QED BY <4>1, LineType
    <3>2. f = sum(line(a), P)
      BY <2>2 DEF P
    <3> HIDE DEF f
    <3> DEFINE u == signed(line(a))
               v == signed(a)
    <3>3. u \in Int /\ v \in Int /\ u <= v /\ v < u + P /\ line(a) \in Byte
      BY LineSigned, SignedIs
    <3>4. u # v
      BY <3>1, <3>3, SignedOnce
    <3> HIDE DEF u, v
    <3>5. u + P <= Half - 1
      <4>1. v + n <= Half - P /\ Half \in Int
        BY Halves DEF v
      <4>2. v \in Int /\ u < v
        BY <3>3, <3>4 DEF v
      <4> QED BY <3>3, <4>1, <4>2, LineType
    <3>6. signed(f) = u + P
      BY <3>2, <3>3, <3>5, LineType, SumSigned DEF u
    <3>7. f \in Address
      <4>1. sum(line(a), 1 * P) \in Address
        BY <1>3, SumLine
      <4>2. 1 * P = P
        BY LineType
      <4> QED BY <3>2, <4>1, <4>2
    <3> QED BY <3>1, <3>3, <3>6, <3>7, LineType DEF u, v
  <2> QED BY <2>1, <2>2
<1> HIDE DEF f
<1>6. Visits(t, f, line(z), 0)
  BY <1>3, <1>5, VisitedIs
<1> HIDE DEF z, s, t
<1>7. "clean invalidate" \in What /\ "invalidate" \in What
  BY DEF What
<1>8. LinesDone(h, e, Members(s), "clean invalidate")
  BY <1>4, <1>7, LinesIs
<1> HIDE DEF e
<1>9. Good(e) /\ Len(t) \in Nat /\ \A k \in 1 .. Len(t) : t[k] \in Address
  BY <1>6, <1>8 DEF LinesDone, Visits
<1>10. LinesDone(e, g, Members(t), "invalidate")
  BY <1>7, <1>9, LinesIs
<1> HIDE DEF g
<1>11. BothDone(h, g, Members(s), Members(t), "clean invalidate", "invalidate")
  <2>1. ("clean invalidate" = "clean") = ("invalidate" = "clean")
    OBVIOUS
  <2> QED BY <1>8, <1>10, <2>1, LinesBoth
<1>12. ASSUME NEW x \in covered(a, n) PROVE line(x) \in Members(s) \union Members(t)
  <2>1. /\ x \in Byte /\ \/ line(x) = line(z) /\ line(z) # z
                         \/ signed(line(x)) < signed(line(z))
    BY EndsAre DEF z
  <2>2. CASE line(x) = line(z) /\ line(z) # z
    BY <1>4, <2>2
  <2>3. CASE line(x) = line(a) /\ line(a) # a
    BY <1>4, <2>3
  <2>4. CASE signed(line(x)) < signed(line(z)) /\ ~(line(x) = line(a) /\ line(a) # a)
    <3>1. signed(f) <= signed(line(x))
      <4> DEFINE u == signed(line(a))
                 v == signed(line(x))
      <4>1. u \in Int /\ u % P = 0 /\ v \in Int /\ v % P = 0
        BY <2>1, LineSigned
      <4>2. u = v => line(x) = line(a)
        BY <2>1, LineSigned, SignedOnce
      <4>3. u <= v
        BY <2>1, CoveredIs, LinesOrder
      <4>4. CASE line(a) = a
        <5>1. signed(f) = u
          BY <1>5, <4>4
        <5> HIDE DEF u
        <5> QED BY <4>3, <5>1
      <4>5. CASE line(a) # a
        <5>1. signed(f) = u + P
          BY <1>5, <4>5
        <5>2. u # v
          BY <2>4, <4>2, <4>5
        <5> HIDE DEF u, v
        <5>3. u < v
          BY <4>1, <4>3, <5>2
        <5>4. u + P <= v
          BY <4>1, <5>3, Apart
        <5> QED BY <5>1, <5>4 DEF v
      <4> QED BY <4>4, <4>5
    <3>2. line(x) \in Address
      BY <2>1, LineSigned
    <3>3. \E k \in 1 .. Len(t) : t[k] = line(x)
      BY <1>6, <2>4, <3>1, <3>2 DEF Visits
    <3> QED BY <3>3 DEF Members
  <2> QED BY <2>1, <2>2, <2>3, <2>4
<1>13. ASSUME NEW b \in Address, b \in Members(t) PROVE Data(b) \subseteq covered(a, n)
  <2>1. signed(f) <= signed(b) /\ signed(b) < signed(line(z))
    BY <1>6, <1>13 DEF Visits, Members
  <2> SUFFICES ASSUME NEW x \in Data(b) PROVE x \in covered(a, n)
    OBVIOUS
  <2>2. x \in Byte /\ line(x) = b
    BY DataIs, LineOf
  <2> DEFINE u == signed(b)
             v == signed(line(z))
             w == signed(x)
  <2>3. /\ u \in Int /\ u % P = 0 /\ v \in Int /\ v % P = 0 /\ w \in Int
        /\ u <= w /\ w < u + P /\ v <= signed(z)
    BY <1>2, <2>2, LineSigned, SignedIs
  <2>4. u < v /\ signed(f) <= u
    BY <2>1
  <2> HIDE DEF u, v, w
  <2>5. u + P <= v
    BY <2>3, <2>4, Apart
  <2>6. signed(a) <= w /\ w < signed(a) + n
    BY <1>2, <1>5, <2>3, <2>4, <2>5, LineType
  <2> QED BY <2>2, <2>6, CoveredIs DEF w
<1>14. \A x \in covered(a, n) : Cleared(g.cache, line(x), "invalidate")
  BY <1>11, <1>12 DEF BothDone
<1>15. \A b \in Address : ~(Data(b) \subseteq covered(a, n)) => fetched(g, 1, b) = fetched(h, 1, b)
  BY <1>11, <1>13 DEF BothDone
<1>16. Good(g)
  BY <1>11 DEF BothDone
<1> QED BY <1>1, <1>14, <1>15, <1>16 DEF BufferDone

-----------------------------------------------------------------------------
(* The program.                                                            *)

Keeps(h, lat) == \A a \in Address : \A b \in Data(a) : fetched(h, 1, a)[b] = lat[b]

\* A store to level 1: line a is where it was, or where nothing is.
StoreDone(h, g, a, data) ==
  /\ Good(g) /\ fetched(g, 1, a) = data
  /\ \A b \in Address : b # a => fetched(g, 1, b) = fetched(h, 1, b)

LEMMA StoreIs ==
  ASSUME NEW h, Good(h), NEW a \in Address, NEW data \in [Data(a) -> Value],
         NEW x \in Slot, x[1] = 1, x[2] = set_of(1, a),
         Has(h.cache, x, a)
         \/ (h.cache[x] = none /\ \A y \in Slot : y[1] = 1 => ~Has(h.cache, y, a))
  PROVE  StoreDone(h, filled(h, x, entry_of(a, TRUE, data)), a, data)
<1> DEFINE v == entry_of(a, TRUE, data)
           g == filled(h, x, v)
<1>1. v \in Line /\ v # none /\ v.adr = a /\ v.dirty = TRUE /\ v.data = data
  <2>1. ASSUME NEW d \in BOOLEAN
        PROVE  /\ entry_of(a, d, data) \in Line /\ entry_of(a, d, data) # none
               /\ entry_of(a, d, data).adr = a /\ entry_of(a, d, data).data = data
    BY LineMade
  <2>2. v.dirty = TRUE
    BY DEF entry_of
  <2> QED BY <2>1, <2>2
<1> HIDE DEF v
<1>2. Shaped(h) /\ h \in HW /\ Fills(h, g, x, v)
  BY <1>1, FilledIs DEF Good, Shaped
<1> HIDE DEF g
<1>3. \A y \in Slot : y # x => g.cache[y] = h.cache[y]
  BY <1>2 DEF Fills
<1>4. g \in HW /\ g.cache[x] = v /\ g.memory = h.memory
  BY <1>2 DEF Fills
<1>5. \A y \in Slot : y[1] = 1 /\ Has(h.cache, y, a) => y = x
  BY <1>2 DEF Shaped, Once
<1>6. \A y \in Slot : \A b \in Address : Has(g.cache, y, b) =>
        IF y = x THEN b = a ELSE Has(h.cache, y, b)
  BY <1>1, <1>3, <1>4 DEF Has
<1>7. Shaped(g)
  <2>1. Placed(g.cache)
    BY <1>1, <1>2, <1>3, <1>4 DEF Shaped, Placed
  <2>2. Once(g.cache)
    <3> SUFFICES ASSUME NEW y \in Slot, NEW z \in Slot, NEW b \in Address,
                        Has(g.cache, y, b), Has(g.cache, z, b), y[1] = z[1]
                 PROVE  y = z
      BY DEF Once
    <3>1. CASE y # x /\ z # x
      BY <1>2, <1>6, <3>1 DEF Shaped, Once
    <3>2. CASE y = x
      BY <1>5, <1>6, <3>2
    <3>3. CASE z = x
      BY <1>5, <1>6, <3>3
    <3> QED BY <3>1, <3>2, <3>3
  <2> QED BY <1>4, <2>1, <2>2 DEF Shaped
<1>8. \A y \in Slot : y[1] \in Nat /\ y[1] >= 1 /\ y[1] + 1 \in Nat /\ y[1] + 1 >= 2
  BY SlotIs, Constants
<1>9. ASSUME NEW b \in Address, NEW l \in Nat, b # a \/ l >= 2
      PROVE  fetched(g, l, b) = fetched(h, l, b)
  <2>1. ASSUME NEW y \in Slot, y[1] >= l
        PROVE  (Has(g.cache, y, b) <=> Has(h.cache, y, b))
               /\ (Has(h.cache, y, b) => g.cache[y].data = h.cache[y].data)
    <3>1. CASE y # x
      BY <1>3, <3>1 DEF Has
    <3>2. CASE y = x
      <4>1. b # a
        BY <1>9, <2>1, <3>2
      <4>2. ~Has(h.cache, x, b)
        BY <4>1 DEF Has
      <4>3. ~Has(g.cache, x, b)
        BY <1>1, <1>4, <4>1 DEF Has
      <4> QED BY <3>2, <4>2, <4>3
    <3> QED BY <3>1, <3>2
  <2>2. SameFor(g, h, l, b)
    BY <1>4, <2>1 DEF SameFor
  <2> QED BY <1>2, <1>7, <2>2, FetchedSame
<1>10. CleanAgrees(g)
  <2> SUFFICES ASSUME NEW y \in Slot, g.cache[y] # none, ~g.cache[y].dirty
               PROVE  g.cache[y].data = fetched(g, y[1] + 1, g.cache[y].adr)
    BY DEF CleanAgrees
  <2>1. y # x
    BY <1>1, <1>4
  <2>2. g.cache[y] = h.cache[y]
    BY <1>3, <2>1
  <2>3. h.cache[y].adr \in Address
    BY <1>2, <2>2, HardwareIs, LineIs
  <2>4. h.cache[y].data = fetched(h, y[1] + 1, h.cache[y].adr)
    BY <2>2 DEF Good, CleanAgrees
  <2> QED BY <1>8, <1>9, <2>2, <2>3, <2>4
<1>11. fetched(g, 1, a) = data
  <2>1. Has(g.cache, x, a) /\ g.cache[x].data = data
    BY <1>1, <1>4 DEF Has
  <2>2. x[1] >= 1 /\ \A y \in Slot : y[1] >= 1 /\ y[1] < x[1] => ~Has(g.cache, y, a)
    BY <1>8
  <2> QED BY <1>7, <2>1, <2>2, FetchedHit
<1> QED BY <1>7, <1>9, <1>10, <1>11 DEF StoreDone, Good, g, v

LEMMA HardwareMade ==
  ASSUME NEW g \in HW
  PROVE  g = [cache |-> g.cache, memory |-> g.memory]
BY DEF HW

LEMMA Becomes ==
  ASSUME NEW g \in HW, becomes(g)
  PROVE  hardware' = g /\ [cache |-> cache', memory |-> memory'] = g
BY HardwareMade DEF becomes, hardware

\* What is thrown away is not wanted, the rest is as it was.
GivenUp(g, lat, S) == [b \in Byte |-> IF b \in S THEN fetched(g, 1, line(b))[b] ELSE lat[b]]

LEMMA GivenKeeps ==
  ASSUME NEW h, NEW g, Shaped(g), NEW lat \in [Byte -> Value], Keeps(h, lat), NEW S,
         \A a \in Address : ~(Data(a) \subseteq S) => fetched(g, 1, a) = fetched(h, 1, a)
  PROVE  GivenUp(g, lat, S) \in [Byte -> Value] /\ Keeps(g, GivenUp(g, lat, S))
<1> DEFINE new == GivenUp(g, lat, S)
<1>1. \A b \in Byte : new[b] = IF b \in S THEN fetched(g, 1, line(b))[b] ELSE lat[b]
  BY DEF GivenUp
<1>2. \A b \in Byte : fetched(g, 1, line(b))[b] \in Value
  <2> SUFFICES ASSUME NEW b \in Byte PROVE fetched(g, 1, line(b))[b] \in Value
    OBVIOUS
  <2>1. line(b) \in Address /\ b \in Data(line(b))
    BY LineOf
  <2>2. fetched(g, 1, line(b)) \in [Data(line(b)) -> Value]
    BY <2>1, FetchedType
  <2> QED BY <2>1, <2>2
<1>3. new \in [Byte -> Value]
  BY <1>2 DEF GivenUp
<1> HIDE DEF new
<1>4. ASSUME NEW a \in Address, NEW b \in Data(a) PROVE fetched(g, 1, a)[b] = new[b]
  <2>1. b \in Byte /\ line(b) = a
    BY DataIs, LineOf
  <2>2. CASE b \in S
    BY <1>1, <2>1, <2>2
  <2>3. CASE b \notin S
    <3>1. fetched(g, 1, a) = fetched(h, 1, a)
      BY <2>3
    <3>2. fetched(h, 1, a)[b] = lat[b]
      BY DEF Keeps
    <3> QED BY <1>1, <2>1, <2>3, <3>1, <3>2
  <2> QED BY <2>2, <2>3
<1> QED BY <1>3, <1>4 DEF Keeps, new

CoversDone(g, lat, S, what) ==
  /\ \A b \in S : g.memory[b] = lat[b]
  /\ what # "clean" => \A x \in Slot : g.cache[x] # none => Data(g.cache[x].adr) \intersect S = {}

LEMMA CoversIs ==
  ASSUME NEW g, Good(g), NEW lat, Keeps(g, lat), NEW S, S \subseteq Byte, NEW what,
         \A b \in S : Cleared(g.cache, line(b), what)
  PROVE  CoversDone(g, lat, S, what)
<1>1. ASSUME NEW b \in S PROVE g.memory[b] = lat[b]
  <2>1. line(b) \in Address /\ b \in Data(line(b))
    BY LineOf
  <2>2. \A y \in Slot : Has(g.cache, y, line(b)) => ~g.cache[y].dirty
    BY DEF Cleared
  <2>3. fetched(g, 1, line(b)) = [c \in Data(line(b)) |-> g.memory[c]]
    BY <2>1, <2>2, BehindIs
  <2>4. fetched(g, 1, line(b))[b] = lat[b]
    BY <2>1 DEF Keeps
  <2> QED BY <2>1, <2>3, <2>4
<1>2. ASSUME what # "clean", NEW x \in Slot, g.cache[x] # none, NEW b \in Data(g.cache[x].adr),
             b \in S
      PROVE  FALSE
  <2>1. g.cache[x].adr \in Address
    BY <1>2, HardwareIs, LineIs DEF Good, Shaped
  <2>2. line(b) = g.cache[x].adr
    BY <1>2, <2>1, LineOf
  <2>3. Has(g.cache, x, line(b))
    BY <1>2, <2>2 DEF Has
  <2> QED BY <1>2, <2>3 DEF Cleared
<1> QED BY <1>1, <1>2 DEF CoversDone

\* The invariant: what the caches hold agrees with what is behind them.
CachesInv == Good(hardware) /\ latest \in [Byte -> Value] /\ NothingLost /\ CallCovers

LEMMA CachesInvInit == CacheInit => CachesInv
<1> SUFFICES ASSUME CacheInit PROVE CachesInv
  OBVIOUS
<1>1. hardware.cache = [x \in Slot |-> none] /\ hardware.memory = [b \in Byte |-> "old"]
      /\ latest = [b \in Byte |-> "old"]
  BY DEF CacheInit, hardware
<1>2. hardware \in HW /\ latest \in [Byte -> Value]
  BY <1>1 DEF HW, hardware, Value
<1>3. \A x \in Slot : hardware.cache[x] = none
  BY <1>1
<1>4. Shaped(hardware) /\ CleanAgrees(hardware)
  BY <1>2, <1>3 DEF Shaped, Placed, Once, Has, CleanAgrees
<1>5. NothingLost
  <2> SUFFICES ASSUME NEW a \in Address, NEW b \in Data(a)
               PROVE  fetched(hardware, 1, a)[b] = latest[b]
    BY DEF NothingLost
  <2>1. \A y \in Slot : y[1] >= 1 => ~Has(hardware.cache, y, a)
    BY <1>3 DEF Has
  <2>2. fetched(hardware, 1, a) = [c \in Data(a) |-> hardware.memory[c]]
    BY <1>4, <2>1, FetchedMiss
  <2>3. b \in Byte
    BY DataIs
  <2> QED BY <1>1, <2>2, <2>3
<1>6. CallCovers
  BY DEF CacheInit, CallCovers
<1> QED BY <1>2, <1>4, <1>5, <1>6 DEF CachesInv, Good

\* What a call leaves, whether it is for a buffer or for all there is.
LEMMA CallKeeps ==
  ASSUME CachesInv, NEW g, becomes(g), NEW S, S \subseteq Byte, NEW what,
         BufferDone(hardware, g, S, what),
         latest' = GivenUp(g, latest, IF what = "invalidate" THEN S ELSE {}),
         done'.bytes = S, what = "clean" => done'.cached
  PROVE  CachesInv'
<1>1. Good(g) /\ g \in HW /\ Good(hardware)
  BY DEF BufferDone, Good, Shaped, CachesInv
<1>2. hardware' = g
  BY <1>1, Becomes
<1> DEFINE T == IF what = "invalidate" THEN S ELSE {}
<1>3. \A a \in Address : ~(Data(a) \subseteq T) => fetched(g, 1, a) = fetched(hardware, 1, a)
  <2> SUFFICES ASSUME NEW a \in Address, ~(Data(a) \subseteq T)
               PROVE  fetched(g, 1, a) = fetched(hardware, 1, a)
    OBVIOUS
  <2>1. what = "invalidate" => ~(Data(a) \subseteq S)
    OBVIOUS
  <2> QED BY <2>1 DEF BufferDone
<1>4. latest' \in [Byte -> Value] /\ Keeps(g, latest')
  <2>1. latest \in [Byte -> Value] /\ Keeps(hardware, latest) /\ latest' = GivenUp(g, latest, T)
    BY DEF CachesInv, NothingLost, Keeps
  <2> HIDE DEF T
  <2>2. GivenUp(g, latest, T) \in [Byte -> Value] /\ Keeps(g, GivenUp(g, latest, T))
    BY <1>1, <1>3, <2>1, GivenKeeps DEF Good
  <2> QED BY <2>1, <2>2
<1>5. CoversDone(g, latest', S, what)
  <2> DEFINE lat == latest'
  <2>1. Keeps(g, lat) /\ \A b \in S : Cleared(g.cache, line(b), what)
    BY <1>4 DEF BufferDone
  <2> HIDE DEF lat
  <2>2. CoversDone(g, lat, S, what)
    BY <1>1, <2>1, CoversIs
  <2> QED BY <2>2 DEF lat
<1>6. NothingLost'
  BY <1>2, <1>4 DEF NothingLost, Keeps
<1>7. CallCovers'
  <2>1. memory' = g.memory /\ cache' = g.cache
    BY DEF becomes
  <2>2. \A b \in done'.bytes : memory'[b] = latest'[b]
    BY <1>5, <2>1 DEF CoversDone
  <2>3. ~done'.cached =>
          \A x \in Slot : cache'[x] # none => Data(cache'[x].adr) \intersect done'.bytes = {}
    BY <1>5, <2>1 DEF CoversDone
  <2> QED BY <2>2, <2>3 DEF CallCovers
<1> QED BY <1>1, <1>2, <1>4, <1>6, <1>7 DEF CachesInv

LEMMA GivenUpIs ==
  ASSUME NEW g \in HW, becomes(g), NEW S, given_up(S)
  PROVE  latest' = GivenUp(g, latest, S)
<1>1. [cache |-> cache', memory |-> memory'] = g
  BY Becomes
<1> QED BY <1>1 DEF given_up, GivenUp

LEMMA NoneGivenUp ==
  ASSUME NEW g, latest \in [Byte -> Value]
  PROVE  GivenUp(g, latest, {}) = latest
BY DEF GivenUp

\* A call for every slot.
LEMMA AllDone ==
  ASSUME NEW h, NEW g, NEW n \in Nat, n >= Len(Geometry), NEW what, LevelDone(h, g, n, what)
  PROVE  BufferDone(h, g, Byte, what)
<1>1. \A x \in Slot : x[1] <= n
  <2>1. \A l \in Level : l <= n
    BY Constants DEF Level
  <2> QED BY <2>1, SlotIs
<1>2. \A x \in Byte : Cleared(g.cache, line(x), what)
  BY <1>1 DEF LevelDone, Cleared, Bare, Has
<1>3. \A b \in Address : Data(b) \subseteq Byte
  BY DataIs
<1> QED BY <1>2, <1>3 DEF BufferDone, LevelDone

LEMMA StoreKeeps ==
  ASSUME CachesInv, NEW b \in Stored, store(b)
  PROVE  CachesInv'
<1> DEFINE a == line(b)
           in == holding(cache, 1, a)
<1>1. b \in Byte /\ Good(hardware) /\ latest \in [Byte -> Value] /\ Keeps(hardware, latest)
  BY CachesAssumption DEF CachesInv, NothingLost, Keeps
<1>2. a \in Address /\ b \in Data(a) /\ \A c \in Address : b \in Data(c) => c = a
  BY <1>1, LineOf
<1>3. 1 \in Level /\ hardware.cache = cache
  BY Constants DEF hardware
<1>4. PICK x \in IF in # {} THEN in ELSE ways(1, a) :
        LET h == IF in # {} THEN hardware ELSE op(hardware, x, "clean invalidate")
        IN becomes(filled(h, x, entry_of(a, TRUE, [fetched(h, 1, a) EXCEPT ![b] = "new"])))
  BY DEF store
<1> DEFINE h == IF in # {} THEN hardware ELSE op(hardware, x, "clean invalidate")
           data == [fetched(h, 1, a) EXCEPT ![b] = "new"]
           g == filled(h, x, entry_of(a, TRUE, data))
<1>5. becomes(g) /\ latest' = [latest EXCEPT ![b] = "new"] /\ done' = [call |-> "none"]
  BY <1>4 DEF store
<1> HIDE DEF a, g
<1>6. in = {y \in Slot : y[1] = 1 /\ Has(cache, y, a)}
  BY <1>1, <1>2, <1>3, HoldingIs DEF Good
<1>7. ways(1, a) = {y \in Slot : y[1] = 1 /\ y[2] = set_of(1, a)}
  BY <1>2, <1>3, WaysIs
<1> HIDE DEF in
<1>8. x \in Slot /\ x[1] = 1
  BY <1>4, <1>6, <1>7
<1>9. Good(h) /\ x[2] = set_of(1, a)
      /\ (\A c \in Address : fetched(h, 1, c) = fetched(hardware, 1, c))
      /\ (Has(h.cache, x, a)
          \/ (h.cache[x] = none /\ \A y \in Slot : y[1] = 1 => ~Has(h.cache, y, a)))
  <2>1. CASE in # {}
    <3>1. h = hardware /\ Has(cache, x, a)
      BY <1>4, <1>6, <2>1
    <3>2. x[2] = set_of(1, a)
      BY <1>1, <1>3, <1>8, <3>1 DEF Good, Shaped, Placed, Has
    <3> HIDE DEF h
    <3> QED BY <1>1, <1>3, <3>1, <3>2
  <2>2. CASE in = {}
    <3>1. h = op(hardware, x, "clean invalidate") /\ x[2] = set_of(1, a)
      BY <1>4, <1>7, <2>2
    <3>2. OpDone(hardware, h, x, "clean invalidate")
      <4>1. "clean invalidate" \in What /\ "clean invalidate" # "invalidate"
        BY DEF What
      <4>2. OpDone(hardware, op(hardware, x, "clean invalidate"), x, "clean invalidate")
        BY <1>1, <1>8, <4>1, OpIs
      <4> HIDE DEF h
      <4> QED BY <3>1, <4>2
    <3> HIDE DEF h
    <3>3. h.cache[x] = none
      BY <3>2 DEF OpDone, Bare
    <3>4. ASSUME NEW y \in Slot, y[1] = 1, Has(h.cache, y, a) PROVE FALSE
      <4>1. y # x
        BY <3>3, <3>4 DEF Has
      <4>2. ~(y[1] > x[1])
        BY <1>8, <3>4
      <4>3. h.cache[y] = cache[y]
        BY <1>3, <3>2, <4>1, <4>2 DEF OpDone, Elsewhere
      <4> QED BY <1>6, <2>2, <3>4, <4>3 DEF Has
    <3> QED BY <3>1, <3>2, <3>3, <3>4 DEF OpDone
  <2> QED BY <2>1, <2>2
<1> HIDE DEF h
<1>10. fetched(h, 1, a) \in [Data(a) -> Value]
  BY <1>2, <1>9, FetchedType DEF Good
<1>11. data \in [Data(a) -> Value] /\ data[b] = "new"
       /\ \A c \in Data(a) : c # b => data[c] = fetched(h, 1, a)[c]
  BY <1>2, <1>10 DEF Value
<1> HIDE DEF data
<1>12. StoreDone(h, g, a, data)
  BY <1>2, <1>8, <1>9, <1>11, StoreIs DEF g
<1>13. Good(g) /\ g \in HW /\ hardware' = g
  BY <1>5, <1>12, Becomes DEF StoreDone, Good, Shaped
<1>14. latest' \in [Byte -> Value]
  BY <1>1, <1>5 DEF Value
<1>15. NothingLost'
  <2>1. ASSUME NEW c \in Address, NEW d \in Data(c) PROVE fetched(g, 1, c)[d] = latest'[d]
    <3>1. d \in Byte /\ fetched(hardware, 1, c)[d] = latest[d]
      BY <1>1, DataIs DEF Keeps
    <3>2. latest'[d] = IF d = b THEN "new" ELSE latest[d]
      BY <1>1, <1>5, <3>1
    <3>3. fetched(h, 1, c) = fetched(hardware, 1, c)
      BY <1>9
    <3>4. CASE c = a
      BY <1>11, <1>12, <3>1, <3>2, <3>3, <3>4 DEF StoreDone
    <3>5. CASE c # a
      <4>1. d # b
        BY <1>2, <3>5
      <4>2. fetched(g, 1, c) = fetched(h, 1, c)
        BY <1>12, <3>5 DEF StoreDone
      <4> QED BY <3>1, <3>2, <3>3, <4>1, <4>2
    <3> QED BY <3>4, <3>5
  <2> QED BY <1>13, <2>1 DEF NothingLost
<1>16. CallCovers'
  BY <1>5 DEF CallCovers
<1> QED BY <1>13, <1>14, <1>15, <1>16 DEF CachesInv

LEMMA CacheInvalidateKeeps ==
  ASSUME CachesInv, NEW w \in BOOLEAN, mem_cache_invalidate(w)
  PROVE  CachesInv'
<1> DEFINE what == line_op(w)
           g == mem_icache_invalidate(hardware, w)
<1>1. what \in What /\ what # "invalidate" /\ (what = "clean" => ~w)
      /\ Good(hardware) /\ latest \in [Byte -> Value]
  BY DEF What, line_op, CachesInv
<1>2. 8 \in Nat /\ 8 >= Len(Geometry)
  <2> DEFINE n == Len(Geometry)
  <2>1. n \in 1 .. 8
    BY CachesAssumption
  <2> HIDE DEF n
  <2>2. 8 >= n
    BY <2>1
  <2> QED BY <2>2 DEF n
<1>3. LevelDone(hardware, g, 8, what)
  <2>1. g = each_level(hardware, [k \in 1 .. 8 |-> k], level_words, what)
    BY DEF mem_icache_invalidate
  <2> HIDE DEF what, g
  <2>2. \A l \in Level : WordsOf(level_words[l], l)
    BY LevelWords
  <2> QED BY <1>1, <1>2, <2>1, <2>2, EachLevelIs
<1>4. BufferDone(hardware, g, Byte, what)
  <2> HIDE DEF what, g
  <2> QED BY <1>2, <1>3, AllDone
<1>5. becomes(g) /\ latest' = latest
      /\ done' = [call |-> "mem_cache_invalidate", cached |-> ~w, bytes |-> Byte, sound |-> TRUE]
  BY DEF mem_cache_invalidate
<1> HIDE DEF g, what
<1>6. latest' = GivenUp(g, latest, IF what = "invalidate" THEN Byte ELSE {})
  <2>1. GivenUp(g, latest, {}) = latest
    BY <1>1, NoneGivenUp
  <2> QED BY <1>1, <1>5, <2>1
<1>7. done'.bytes = Byte /\ (what = "clean" => done'.cached)
  BY <1>1, <1>5
<1> QED BY <1>4, <1>5, <1>6, <1>7, CallKeeps

LEMMA CP15DCacheKeeps ==
  ASSUME CachesInv, NEW what \in What, NEW zero \in BOOLEAN, CP15DCache(what, zero)
  PROVE  CachesInv'
<1> DEFINE g == by_levels(hardware, what, zero)
           S == IF what = "invalidate" THEN Byte ELSE {}
<1>1. Good(hardware) /\ hardware \in HW /\ latest \in [Byte -> Value] /\ Keeps(hardware, latest)
  BY DEF CachesInv, Good, Shaped, NothingLost, Keeps
<1>2. becomes(g) /\ given_up(S)
      /\ done' = [call |-> what, cached |-> what = "clean", bytes |-> Byte, sound |-> ~zero]
  BY DEF CP15DCache
<1>3. CASE ~zero
  <2>1. g = each_level(hardware, [k \in 1 .. Len(Geometry) |-> k], masked_words, what)
    BY <1>3 DEF by_levels, Level
  <2>2. \A l \in Level : WordsOf(masked_words[l], l)
    BY MaskedWords
  <2> HIDE DEF g
  <2>3. Len(Geometry) \in Nat /\ Len(Geometry) >= Len(Geometry)
    BY Constants
  <2>4. LevelDone(hardware, g, Len(Geometry), what)
    BY <1>1, <2>1, <2>2, <2>3, EachLevelIs
  <2>5. BufferDone(hardware, g, Byte, what)
    BY <2>3, <2>4, AllDone
  <2>6. g \in HW
    BY <2>5 DEF BufferDone, Good, Shaped
  <2>7. latest' = GivenUp(g, latest, S)
    <3> HIDE DEF S
    <3> QED BY <1>2, <2>6, GivenUpIs
  <2>8. done'.bytes = Byte /\ (what = "clean" => done'.cached)
    BY <1>2
  <2> QED BY <1>2, <2>5, <2>7, <2>8, CallKeeps
<1>4. CASE zero
  <2>1. g = hardware
    BY <1>4 DEF by_levels
  <2> HIDE DEF g
  <2>2. becomes(hardware) /\ hardware' = hardware
    BY <1>1, <1>2, <2>1, Becomes
  <2>3. latest' = GivenUp(hardware, latest, S)
    <3> HIDE DEF S
    <3> QED BY <1>1, <1>2, <2>2, GivenUpIs
  <2>4. latest' \in [Byte -> Value] /\ Keeps(hardware, latest')
    <3> HIDE DEF S
    <3>1. GivenUp(hardware, latest, S) \in [Byte -> Value]
          /\ Keeps(hardware, GivenUp(hardware, latest, S))
      BY <1>1, GivenKeeps DEF Good
    <3> QED BY <2>3, <3>1
  <2>5. NothingLost'
    BY <2>2, <2>4 DEF NothingLost, Keeps
  <2>6. CallCovers'
    <3>1. done'.sound = ~zero
      BY <1>2
    <3> QED BY <1>4, <3>1 DEF CallCovers
  <2> QED BY <1>1, <2>2, <2>4, <2>5, <2>6 DEF CachesInv
<1> QED BY <1>3, <1>4

LEMMA BufferType ==
  ASSUME NEW b \in Buffer
  PROVE  b[1] \in Byte /\ b[2] \in Nat /\ signed(b[1]) + b[2] <= Half - P
         /\ covered(b[1], b[2]) \subseteq Byte
<1>1. b \in Byte \X Byte /\ signed(b[1]) + b[2] <= Half - P
  BY CachesAssumption DEF Buffer, Half, P
<1>2. b[1] \in Byte /\ b[2] \in Nat
  BY <1>1, SignedIs
<1> QED BY <1>1, <1>2, CoveredIs

LEMMA CleanBuffKeeps ==
  ASSUME CachesInv, NEW b \in Buffer, NEW what \in {"clean", "clean invalidate"},
         CP15DCacheCleanBuff(b[1], b[2], what)
  PROVE  CachesInv'
<1> DEFINE S == covered(b[1], b[2])
           g == clean_buffer(hardware, b[1], b[2], what)
<1>1. S \subseteq Byte /\ BufferDone(hardware, g, S, what)
  BY BufferType, CleanBufferIs DEF CachesInv
<1>2. becomes(g) /\ latest' = latest
      /\ done' = [call |-> what, cached |-> what = "clean", bytes |-> S, sound |-> TRUE]
  BY DEF CP15DCacheCleanBuff
<1> HIDE DEF S, g
<1>3. done'.bytes = S /\ (what = "clean" => done'.cached)
  BY <1>2
<1>4. latest' = GivenUp(g, latest, IF what = "invalidate" THEN S ELSE {})
  <2>1. (IF what = "invalidate" THEN S ELSE {}) = {}
    OBVIOUS
  <2>2. GivenUp(g, latest, {}) = latest
    BY NoneGivenUp DEF CachesInv
  <2> QED BY <1>2, <2>1, <2>2
<1> QED BY <1>1, <1>2, <1>3, <1>4, CallKeeps

LEMMA FlushBuffKeeps ==
  ASSUME CachesInv, NEW b \in Buffer, CP15DCacheFlushBuff(b[1], b[2])
  PROVE  CachesInv'
<1> DEFINE S == covered(b[1], b[2])
           g == flush_buffer(hardware, b[1], b[2])
<1>1. S \subseteq Byte /\ BufferDone(hardware, g, S, "invalidate")
  BY BufferType, FlushBufferIs DEF CachesInv
<1>2. becomes(g) /\ given_up(S)
      /\ done' = [call |-> "invalidate", cached |-> FALSE, bytes |-> S, sound |-> TRUE]
  BY DEF CP15DCacheFlushBuff
<1> HIDE DEF S, g
<1>3. done'.bytes = S /\ ~done'.cached
  BY <1>2
<1>4. g \in HW
  BY <1>1 DEF BufferDone, Good, Shaped
<1>5. latest' = GivenUp(g, latest, IF "invalidate" = "invalidate" THEN S ELSE {})
  BY <1>2, <1>4, GivenUpIs
<1> QED BY <1>1, <1>2, <1>3, <1>5, CallKeeps

LEMMA CachesInvStutter == CachesInv /\ UNCHANGED cache_vars => CachesInv'
<1> SUFFICES ASSUME CachesInv, UNCHANGED cache_vars PROVE CachesInv'
  OBVIOUS
<1>1. cache' = cache /\ memory' = memory /\ latest' = latest /\ done' = done
  BY DEF cache_vars
<1>2. hardware' = hardware
  BY <1>1 DEF hardware
<1> QED BY <1>1, <1>2 DEF CachesInv, NothingLost, CallCovers

LEMMA CachesInvNext == CachesInv /\ [CacheNext]_cache_vars => CachesInv'
<1> SUFFICES ASSUME CachesInv, [CacheNext]_cache_vars PROVE CachesInv'
  OBVIOUS
<1>1. CASE \E b \in Stored : store(b)
  BY <1>1, StoreKeeps
<1>2. CASE \E w \in BOOLEAN : mem_cache_invalidate(w)
  BY <1>2, CacheInvalidateKeeps
<1>3. CASE \E what \in {"clean", "invalidate", "clean invalidate"}, zero \in BOOLEAN :
              CP15DCache(what, zero)
  BY <1>3, CP15DCacheKeeps DEF What
<1>4. CASE \E b \in Buffer, what \in {"clean", "clean invalidate"} :
              CP15DCacheCleanBuff(b[1], b[2], what)
  BY <1>4, CleanBuffKeeps
<1>5. CASE \E b \in Buffer : CP15DCacheFlushBuff(b[1], b[2])
  BY <1>5, FlushBuffKeeps
<1>6. CASE UNCHANGED cache_vars
  BY <1>6, CachesInvStutter
<1> QED BY <1>1, <1>2, <1>3, <1>4, <1>5, <1>6 DEF CacheNext

\* The caches lose nothing, whatever their geometry and whatever is stored and
\* maintained in whatever order, and each call does what it is for
\* (cpu_mem.c:55-124, cp15.S:63-288).
THEOREM CachesMaintainedCorrect == CacheSpec => []CachesMaintained
<1>1. CachesInv => CachesMaintained
  BY DEF CachesInv, CachesMaintained
<1> QED BY <1>1, CachesInvInit, CachesInvNext, PTL DEF CacheSpec
=============================================================================
