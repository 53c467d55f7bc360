--------------------------- MODULE LibraryProofs ---------------------------
(***************************************************************************)
(* Theorems about Library: printf and the serial line, for any port, depth *)
(* of the device, width of an int and well formed calls.                   *)
(***************************************************************************)
EXTENDS Library, SequenceTheorems, NumberFacts, TLAPS

-----------------------------------------------------------------------------
(* Sequences put together.  By names: the provers compute with those they  *)
(* see built, and no longer find the lemma about them.                     *)

Before(a, r) == <<a>> \o r
BeforeBoth(a, b, r) == <<a, b>> \o r
Join(x, y) == x \o y
Chain(x, y, z) == x \o (y \o z)

LEMMA Associative ==
  ASSUME NEW T, NEW a \in Seq(T), NEW b \in Seq(T), NEW c \in Seq(T)
  PROVE  Join(Join(a, b), c) = Chain(a, b, c)
BY ConcatAssociative DEF Join, Chain

LEMMA JoinIn ==
  ASSUME NEW T, NEW a \in Seq(T), NEW b \in Seq(T)
  PROVE  Join(a, b) \in Seq(T)
BY ConcatProperties DEF Join

LEMMA Rejoined ==
  ASSUME NEW T, NEW a \in Seq(T), NEW b \in Seq(T), NEW c \in Seq(T), NEW d \in Seq(T)
  PROVE  Chain(Join(a, b), c, d) = Chain(a, Join(b, c), d)
<1>1. Join(c, d) \in Seq(T)
  BY JoinIn
<1>2. Join(Join(a, b), Join(c, d)) = Chain(a, b, Join(c, d))
  BY <1>1, Associative
<1>3. Join(Join(b, c), d) = Chain(b, c, d)
  BY Associative
<1> QED BY <1>2, <1>3 DEF Join, Chain

LEMMA One ==
  ASSUME NEW T, NEW a, NEW r \in Seq(T)
  PROVE  /\ Before(a, r) # <<>> /\ Before(a, r)[1] = a /\ Tail(Before(a, r)) = r
BY DEF Before

LEMMA Two ==
  ASSUME NEW T, NEW a, NEW b, NEW r \in Seq(T)
  PROVE  /\ BeforeBoth(a, b, r) # <<>> /\ Len(BeforeBoth(a, b, r)) # 1
         /\ BeforeBoth(a, b, r)[1] = a /\ BeforeBoth(a, b, r)[2] = b
         /\ Tail(Tail(BeforeBoth(a, b, r))) = r
BY DEF BeforeBoth

-----------------------------------------------------------------------------
(* Sequences of sequences: FlattenSeq's recursive function exists and is   *)
(* the only one, so it goes element by element.                            *)

\* What FlattenSeq builds up to n.
Builds(f, S, n) ==
  f = [i \in 1 .. n |-> IF i = 1 THEN S[i] ELSE f[i-1] \o S[i]]

LEMMA BuildAt ==
  ASSUME NEW S, NEW n \in Nat, NEW f, Builds(f, S, n), NEW k \in 1 .. n
  PROVE  f[k] = IF k = 1 THEN S[k] ELSE f[k-1] \o S[k]
BY DEF Builds

LEMMA BuildUnique ==
  ASSUME NEW S, NEW n \in Nat, NEW m \in Nat, NEW f, NEW g, NEW k \in 1 .. n, k <= m,
         Builds(f, S, n), Builds(g, S, m)
  PROVE  f[k] = g[k]
<1> DEFINE Bad == {i \in Nat : i \in 1 .. n /\ i <= m /\ f[i] # g[i]}
<1>1. Bad = {}
  <2> SUFFICES ASSUME Bad # {} PROVE FALSE
    OBVIOUS
  <2>1. PICK i \in Bad : \A j \in Bad : i <= j
    <3>1. Bad \subseteq Nat
      OBVIOUS
    <3> HIDE DEF Bad
    <3> QED BY <3>1, Least
  <2>2. i \in 1 .. n /\ i \in 1 .. m /\ f[i] # g[i]
    OBVIOUS
  <2>3. /\ f[i] = (IF i = 1 THEN S[i] ELSE f[i-1] \o S[i])
        /\ g[i] = (IF i = 1 THEN S[i] ELSE g[i-1] \o S[i])
    BY <2>2 DEF Builds
  <2>4. i # 1 => f[i-1] = g[i-1]
    BY <2>1, <2>2
  <2> QED BY <2>2, <2>3, <2>4
<1> QED BY <1>1

LEMMA BuildNext ==
  ASSUME NEW S, NEW n \in Nat \ {0}, NEW m \in Nat, n <= m,
         NEW f, NEW g, Builds(f, S, m), Builds(g, S, n)
  PROVE  f[n] = g[n]
<1>1. n \in 1 .. m /\ n <= n
  OBVIOUS
<1> QED BY <1>1, BuildUnique

LEMMA BuildExists ==
  ASSUME NEW S, NEW n \in Nat
  PROVE  \E f : Builds(f, S, n)
<1> DEFINE Bad == {i \in Nat : ~ \E f : Builds(f, S, i)}
<1>1. Bad = {}
  <2> SUFFICES ASSUME Bad # {} PROVE FALSE
    OBVIOUS
  <2>1. PICK i \in Bad : \A j \in Bad : i <= j
    <3>1. Bad \subseteq Nat
      OBVIOUS
    <3> HIDE DEF Bad
    <3> QED BY <3>1, Least
  <2>2. i # 0
    <3>1. Builds(<<>>, S, 0)
      BY DEF Builds
    <3> QED BY <3>1
  <2>3. i - 1 \in Nat /\ i - 1 \notin Bad
    BY <2>1, <2>2
  <2>4. PICK f : Builds(f, S, i - 1)
    BY <2>3
  <2> DEFINE g == [j \in 1 .. i |-> IF j < i THEN f[j] ELSE IF i = 1 THEN S[1] ELSE f[i-1] \o S[i]]
  <2>5. \A j \in 1 .. i : g[j] = (IF j = 1 THEN S[j] ELSE g[j-1] \o S[j])
    <3> TAKE j \in 1 .. i
    <3>1. CASE j < i
      <4>1. j \in 1 .. i - 1 /\ (j # 1 => j - 1 \in 1 .. i /\ j - 1 < i)
        BY <3>1
      <4>2. f[j] = (IF j = 1 THEN S[j] ELSE f[j-1] \o S[j])
        BY <4>1, <2>4 DEF Builds
      <4>3. g[j] = f[j] /\ (j # 1 => g[j-1] = f[j-1])
        BY <3>1, <4>1
      <4> QED BY <4>2, <4>3
    <3>2. CASE j = i
      <4>1. i # 1 => g[i-1] = f[i-1]
        BY <2>2
      <4> QED BY <3>2, <4>1
    <3> QED BY <3>1, <3>2
  <2>6. Builds(g, S, i)
    <3>1. g = [j \in 1 .. i |-> g[j]]
      OBVIOUS
    <3> HIDE DEF g
    <3> QED BY <3>1, <2>5 DEF Builds
  <2> QED BY <2>6
<1> QED BY <1>1

LEMMA FlatBuilds ==
  ASSUME NEW S, Len(S) \in Nat, Len(S) # 0
  PROVE  \E f : Builds(f, S, Len(S)) /\ Out!FlattenSeq(S) = f[Len(S)]
<1> DEFINE flat == CHOOSE f : f = [i \in 1 .. Len(S) |-> IF i = 1 THEN S[i] ELSE f[i-1] \o S[i]]
<1>1. Out!FlattenSeq(S) = flat[Len(S)]
  BY DEF Out!FlattenSeq
<1>2. Builds(flat, S, Len(S))
  BY BuildExists DEF Builds
<1> QED BY <1>1, <1>2

LEMMA FlatEmpty == Out!FlattenSeq(<<>>) = <<>>
BY DEF Out!FlattenSeq

LEMMA FlatIn ==
  ASSUME NEW T, NEW S \in Seq(Seq(T))
  PROVE  Out!FlattenSeq(S) \in Seq(T)
<1>1. CASE S = <<>>
  <2>1. Out!FlattenSeq(S) = <<>>
    BY <1>1, FlatEmpty
  <2> QED BY <2>1, EmptySeq
<1>2. CASE S # <<>>
  <2>1. Len(S) \in Nat /\ Len(S) # 0
    BY <1>2
  <2>2. PICK f : Builds(f, S, Len(S)) /\ Out!FlattenSeq(S) = f[Len(S)]
    BY <2>1, FlatBuilds
  <2> DEFINE Bad == {i \in Nat : i \in 1 .. Len(S) /\ f[i] \notin Seq(T)}
  <2>3. Bad = {}
    <3> SUFFICES ASSUME Bad # {} PROVE FALSE
      OBVIOUS
    <3>1. PICK i \in Bad : \A j \in Bad : i <= j
      <4>1. Bad \subseteq Nat
        OBVIOUS
      <4> HIDE DEF Bad
      <4> QED BY <4>1, Least
    <3>2. i \in 1 .. Len(S) /\ f[i] \notin Seq(T)
      OBVIOUS
    <3>3. f[i] = (IF i = 1 THEN S[i] ELSE f[i-1] \o S[i])
      BY <3>2, <2>2 DEF Builds
    <3>4. S[i] \in Seq(T)
      BY <3>2
    <3>5. i # 1 => f[i-1] \in Seq(T)
      BY <3>1, <3>2
    <3> QED BY <3>2, <3>3, <3>4, <3>5
  <2> QED BY <2>1, <2>2, <2>3
<1> QED BY <1>1, <1>2

LEMMA FlatAppend ==
  ASSUME NEW T, NEW S \in Seq(Seq(T)), NEW x \in Seq(T)
  PROVE  Out!FlattenSeq(Append(S, x)) = Out!FlattenSeq(S) \o x
<1> DEFINE A == Append(S, x)
           n == Len(S)
           m == n + 1
<1>1. /\ n \in Nat /\ A \in Seq(Seq(T)) /\ Len(A) = m /\ A[m] = x
      /\ \A i \in 1 .. n : A[i] = S[i]
  OBVIOUS
<1>2. m \in Nat /\ m # 0 /\ m \in 1 .. m /\ m - 1 = n /\ (m = 1 <=> n = 0)
  BY <1>1
<1>3. n # 0 => n \in 1 .. m /\ n <= n
  BY <1>1
<1> HIDE DEF A, n, m
<1>4. PICK f : Builds(f, A, m) /\ Out!FlattenSeq(A) = f[m]
  BY <1>1, <1>2, FlatBuilds
<1>5. f[m] = (IF n = 0 THEN x ELSE f[n] \o x)
  <2>1. f[m] = (IF m = 1 THEN A[m] ELSE f[m-1] \o A[m])
    BY <1>2, <1>4, BuildAt
  <2> QED BY <1>1, <1>2, <2>1
<1>6. CASE n = 0
  <2>1. S = <<>>
    BY <1>6 DEF n
  <2>2. <<>> \o x = x
    OBVIOUS
  <2> QED BY <1>4, <1>5, <1>6, <2>1, <2>2, FlatEmpty DEF A
<1>7. CASE n # 0
  <2>1. PICK g : Builds(g, S, n) /\ Out!FlattenSeq(S) = g[n]
    BY <1>1, <1>7, FlatBuilds DEF n
  <2>2. Builds(g, A, n)
    BY <2>1, <1>1 DEF Builds
  <2>3. f[n] = g[n]
    <3>1. n \in Nat \ {0} /\ n <= m /\ m \in Nat
      BY <1>1, <1>2, <1>3, <1>7
    <3>2. Builds(f, A, m)
      BY <1>4
    <3> QED BY <3>1, <3>2, <2>2, BuildNext
  <2> QED BY <1>4, <1>5, <1>7, <2>1, <2>3 DEF A
<1> QED BY <1>6, <1>7

LEMMA FlatOne ==
  ASSUME NEW T, NEW x \in Seq(T)
  PROVE  Out!FlattenSeq(<<x>>) = x
<1>1. <<x>> = Append(<<>>, x) /\ <<>> \o x = x /\ <<>> \in Seq(Seq(T))
  OBVIOUS
<1> QED BY <1>1, FlatAppend, FlatEmpty

LEMMA FlatCat ==
  ASSUME NEW T, NEW S \in Seq(Seq(T)), NEW R \in Seq(Seq(T))
  PROVE  Out!FlattenSeq(S \o R) = Out!FlattenSeq(S) \o Out!FlattenSeq(R)
<1> DEFINE Wrong(r) == Out!FlattenSeq(S \o r) # Out!FlattenSeq(S) \o Out!FlattenSeq(r)
           Bad == {i \in Nat : \E r \in Seq(Seq(T)) : Len(r) = i /\ Wrong(r)}
<1>1. Bad = {}
  <2> SUFFICES ASSUME Bad # {} PROVE FALSE
    OBVIOUS
  <2>1. PICK i \in Bad : \A j \in Bad : i <= j
    <3>1. Bad \subseteq Nat
      OBVIOUS
    <3> HIDE DEF Bad
    <3> QED BY <3>1, Least
  <2>2. PICK r \in Seq(Seq(T)) : Len(r) = i /\ Wrong(r)
    OBVIOUS
  <2>3. Out!FlattenSeq(S) \in Seq(T)
    BY FlatIn
  <2>4. i # 0
    <3> SUFFICES ASSUME i = 0 PROVE FALSE
      OBVIOUS
    <3>1. r = <<>>
      BY <2>2
    <3>2. S \o <<>> = S /\ Out!FlattenSeq(S) \o <<>> = Out!FlattenSeq(S)
      BY <2>3
    <3> QED BY <2>2, <3>1, <3>2, FlatEmpty
  <2>5. PICK q \in Seq(Seq(T)), x \in Seq(T) : r = Append(q, x) /\ Len(q) = i - 1
    <3>1. PICK q \in Seq(Seq(T)), x \in Seq(T) : r = Append(q, x)
      <4>1. r # <<>>
        BY <2>2, <2>4
      <4> HIDE DEF Bad, Wrong
      <4> QED BY <4>1, SequenceEmptyOrAppend
    <3>2. Len(r) = Len(q) + 1 /\ Len(q) \in Nat
      BY <3>1, AppendProperties
    <3>3. Len(q) = i - 1
      BY <2>2, <3>1, <3>2
    <3> HIDE DEF Bad, Wrong
    <3> QED BY <3>1, <3>3
  <2>6. ~ Wrong(q)
    <3>1. i \in Nat /\ i - 1 \in Nat /\ ~ (i <= i - 1)
      BY <2>4
    <3>2. i - 1 \notin Bad
      <4> HIDE DEF Bad
      <4> QED BY <2>1, <3>1
    <3> HIDE DEF Wrong
    <3> QED BY <3>1, <3>2, <2>5
  <2>7. S \o r = Append(S \o q, x) /\ S \o q \in Seq(Seq(T))
    <3> DEFINE e == <<x>>
    <3>1. e \in Seq(Seq(T))
      OBVIOUS
    <3>2. S \o q \in Seq(Seq(T))
      BY ConcatProperties
    <3>3. r = q \o e
      BY <2>5, AppendIsConcat
    <3>4. Append(S \o q, x) = (S \o q) \o e
      BY <3>2, AppendIsConcat
    <3> HIDE DEF e, Wrong, Bad
    <3>5. Join(Join(S, q), e) = Chain(S, q, e)
      BY <3>1, Associative
    <3> QED BY <3>2, <3>3, <3>4, <3>5 DEF Join, Chain
  <2>8. Out!FlattenSeq(S \o r) = Out!FlattenSeq(S \o q) \o x
    <3> HIDE DEF Wrong
    <3> QED BY <2>7, FlatAppend
  <2>9. Out!FlattenSeq(r) = Out!FlattenSeq(q) \o x
    BY <2>5, FlatAppend
  <2>10. Out!FlattenSeq(q) \in Seq(T)
    BY FlatIn
  <2>11. Join(Join(Out!FlattenSeq(S), Out!FlattenSeq(q)), x)
           = Chain(Out!FlattenSeq(S), Out!FlattenSeq(q), x)
    BY <2>3, <2>10, Associative
  <2> QED BY <2>2, <2>6, <2>8, <2>9, <2>11 DEF Join, Chain
<1>2. Len(R) \in Nat
  OBVIOUS
<1>3. ~ Wrong(R)
  BY <1>1, <1>2
<1> QED BY <1>3

-----------------------------------------------------------------------------
(* Sequences item by item.                                                 *)

\* A table that gives each member of I a sequence over T.
Table(F, I, T) == F \in [I -> Seq(T)]

Spread(F, s) == Out!FlattenSeq([k \in DOMAIN s |-> F[s[k]]])

LEMMA SpreadNone == ASSUME NEW F PROVE Spread(F, <<>>) = <<>>
<1>1. [k \in DOMAIN <<>> |-> F[<<>>[k]]] = <<>>
  OBVIOUS
<1> QED BY <1>1, FlatEmpty DEF Spread

LEMMA Looked ==
  ASSUME NEW T, NEW I, NEW F, Table(F, I, T), NEW s \in Seq(I)
  PROVE  LET M == [k \in DOMAIN s |-> F[s[k]]]
         IN M \in Seq(Seq(T)) /\ Len(M) = Len(s) /\ \A k \in 1 .. Len(s) : M[k] = F[s[k]]
<1>1. Len(s) \in Nat /\ DOMAIN s = 1 .. Len(s) /\ \A k \in 1 .. Len(s) : F[s[k]] \in Seq(T)
  BY LenProperties, ElementOfSeq DEF Table
<1> QED BY <1>1

LEMMA SpreadIn ==
  ASSUME NEW T, NEW I, NEW F, Table(F, I, T), NEW s \in Seq(I)
  PROVE  Spread(F, s) \in Seq(T)
BY Looked, FlatIn DEF Spread

LEMMA SpreadOne ==
  ASSUME NEW T, NEW I, NEW F, Table(F, I, T), NEW a \in I
  PROVE  Spread(F, <<a>>) = F[a]
<1>1. [k \in DOMAIN <<a>> |-> F[<<a>>[k]]] = <<F[a]>>
  OBVIOUS
<1>2. F[a] \in Seq(T)
  BY DEF Table
<1> QED BY <1>1, <1>2, FlatOne DEF Spread

LEMMA SpreadCat ==
  ASSUME NEW T, NEW I, NEW F, Table(F, I, T), NEW s \in Seq(I), NEW r \in Seq(I)
  PROVE  Spread(F, s \o r) = Spread(F, s) \o Spread(F, r)
<1> DEFINE M(x) == [k \in DOMAIN x |-> F[x[k]]]
<1>1. s \o r \in Seq(I) /\ Len(s \o r) = Len(s) + Len(r) /\ DOMAIN (s \o r) = 1 .. Len(s) + Len(r)
  OBVIOUS
<1>2. /\ M(s) \in Seq(Seq(T)) /\ M(r) \in Seq(Seq(T)) /\ M(s \o r) \in Seq(Seq(T))
      /\ Len(M(s)) = Len(s) /\ Len(M(r)) = Len(r) /\ Len(M(s \o r)) = Len(s) + Len(r)
  BY <1>1, Looked
<1>3. \A k \in 1 .. Len(s) + Len(r) :
        M(s \o r)[k] = IF k <= Len(s) THEN F[s[k]] ELSE F[r[k - Len(s)]]
  BY <1>1
<1>4. \A k \in 1 .. Len(s) + Len(r) :
        (M(s) \o M(r))[k] = IF k <= Len(s) THEN F[s[k]] ELSE F[r[k - Len(s)]]
  OBVIOUS
<1>5. M(s) \o M(r) \in Seq(Seq(T)) /\ Len(M(s) \o M(r)) = Len(s) + Len(r)
  <2>1. M(s) \in Seq(Seq(T)) /\ M(r) \in Seq(Seq(T))
    BY <1>2
  <2> HIDE DEF M
  <2>2. M(s) \o M(r) \in Seq(Seq(T)) /\ Len(M(s) \o M(r)) = Len(M(s)) + Len(M(r))
    BY <2>1, ConcatProperties
  <2> QED BY <1>2, <2>2
<1>6. M(s \o r) = M(s) \o M(r)
  <2> HIDE DEF M
  <2> QED BY <1>2, <1>3, <1>4, <1>5, SeqEqual
<1>7. Out!FlattenSeq(M(s \o r)) = Out!FlattenSeq(M(s)) \o Out!FlattenSeq(M(r))
  <2> HIDE DEF M
  <2> QED BY <1>2, <1>6, FlatCat
<1> QED BY <1>7 DEF Spread
LEMMA SpreadFirst ==
  ASSUME NEW T, NEW I, NEW F, Table(F, I, T), NEW a \in I, NEW r \in Seq(I)
  PROVE  /\ Spread(F, Before(a, r)) = F[a] \o Spread(F, r)
         /\ Spread(F, r) \in Seq(T) /\ F[a] \in Seq(T)
<1> DEFINE q == <<a>>
<1>1. q \in Seq(I)
  OBVIOUS
<1>2. Spread(F, q) = F[a]
  BY SpreadOne
<1> HIDE DEF q
<1>3. Spread(F, q \o r) = Spread(F, q) \o Spread(F, r)
  BY <1>1, SpreadCat
<1>4. Spread(F, r) \in Seq(T)
  BY SpreadIn
<1>5. F[a] \in Seq(T)
  BY DEF Table
<1> QED BY <1>2, <1>3, <1>4, <1>5 DEF q, Before

-----------------------------------------------------------------------------
(* Powers, from what Output says of them.                                  *)

LEMMA PowerType ==
  ASSUME NEW b \in Nat \ {0}, NEW n \in Nat, Out!Powers(b, n)
  PROVE  \A k \in 0 .. n : b^k \in Nat \ {0}
BY PowersPositive DEF Out!Powers, PowerLaw

LEMMA PowerSum ==
  ASSUME NEW b \in Nat \ {0}, NEW n \in Nat, Out!Powers(b, n),
         NEW a \in 0 .. n, NEW c \in 0 .. n - a
  PROVE  b^(a + c) = b^a * b^c
BY PowersOfSum DEF Out!Powers, PowerLaw

\* The powers of sixteen are powers of two.
LEMMA PowerHex ==
  ASSUME NEW n \in Nat, n % 4 = 0, Out!Powers(2, n), Out!Powers(16, n \div 4),
         NEW j \in 0 .. n \div 4
  PROVE  16^j = 2^(4 * j)
<1> DEFINE Bad == {k \in 0 .. n \div 4 : 16^k # 2^(4 * k)}
<1>1. Bad = {}
  <2> SUFFICES ASSUME Bad # {} PROVE FALSE
    OBVIOUS
  <2>1. PICK k \in Bad : \A i \in Bad : k <= i
    <3>1. Bad \subseteq Nat
      OBVIOUS
    <3> HIDE DEF Bad
    <3> QED BY <3>1, Least
  <2>2. k # 0
    <3>1. 16^0 = 1 /\ 2^0 = 1 /\ 4 * 0 = 0
      BY DEF Out!Powers
    <3> QED BY <3>1
  <2> DEFINE e == 4 * (k - 1)
  <2>3. /\ k - 1 \in 0 .. (n \div 4) - 1 /\ k - 1 \notin Bad
        /\ k - 1 \in 0 .. n \div 4 /\ (k-1) + 1 = k
        /\ 4 * k <= n /\ e + 4 = 4 * k
    BY <2>1, <2>2
  <2>4. 16^(k-1) = 2^e
    BY <2>3
  <2>5. 16^k = 16 * 16^(k-1)
    <3>1. 16^((k-1)+1) = 16 * 16^(k-1)
      BY <2>3 DEF Out!Powers
    <3> QED BY <2>3, <3>1
  <2>6. e \in 0 .. n - 1 /\ e + 1 \in 0 .. n - 1 /\ (e + 1) + 1 \in 0 .. n - 1
        /\ ((e + 1) + 1) + 1 \in 0 .. n - 1 /\ (((e + 1) + 1) + 1) + 1 = e + 4
    BY <2>3
  <2> HIDE DEF e
  <2>7. /\ 2^(e + 1) = 2 * 2^e /\ 2^((e + 1) + 1) = 2 * 2^(e + 1)
        /\ 2^(((e + 1) + 1) + 1) = 2 * 2^((e + 1) + 1)
        /\ 2^((((e + 1) + 1) + 1) + 1) = 2 * 2^(((e + 1) + 1) + 1)
    BY <2>6 DEF Out!Powers
  <2>8. 2^e \in Nat
    BY <2>6, PowerType
  <2>9. \A x \in Nat : 16 * x = 2 * (2 * (2 * (2 * x)))
    OBVIOUS
  <2>10. 2^(e + 4) = 16 * 2^e
    BY <2>6, <2>7, <2>8, <2>9
  <2> QED BY <2>3, <2>4, <2>5, <2>10
<1> QED BY <1>1

\* So an int has room for its decimal digits, counted in bits.
LEMMA PowerTen ==
  ASSUME NEW n \in Nat, Out!Powers(2, n), Out!Powers(10, n), NEW j \in 0 .. n
  PROVE  2^j <= 10^j
<1> DEFINE Bad == {k \in 0 .. n : ~ (2^k <= 10^k)}
<1>0. \A k \in 0 .. n : 2^k \in Nat \ {0} /\ 10^k \in Nat \ {0}
  BY PowerType
<1>1. Bad = {}
  <2> SUFFICES ASSUME Bad # {} PROVE FALSE
    OBVIOUS
  <2>1. PICK k \in Bad : \A i \in Bad : k <= i
    <3>1. Bad \subseteq Nat
      OBVIOUS
    <3> HIDE DEF Bad
    <3> QED BY <3>1, Least
  <2>2. k # 0
    <3>1. 10^0 = 1 /\ 2^0 = 1 /\ 1 <= 1
      BY DEF Out!Powers
    <3>2. 2^0 <= 10^0
      BY <3>1
    <3> QED BY <3>2
  <2>3. k - 1 \in 0 .. n - 1 /\ k - 1 \notin Bad /\ k - 1 \in 0 .. n /\ (k-1) + 1 = k
    BY <2>1, <2>2
  <2>4. 2^(k-1) <= 10^(k-1)
    BY <2>3
  <2>5. 2^((k-1)+1) = 2 * 2^(k-1) /\ 10^((k-1)+1) = 10 * 10^(k-1)
    BY <2>3 DEF Out!Powers
  <2>6. \A x, y \in Nat : x <= y => 2 * x <= 10 * y
    OBVIOUS
  <2> QED BY <1>0, <2>3, <2>4, <2>5, <2>6
<1> QED BY <1>1

-----------------------------------------------------------------------------
(* Figures.                                                                *)

\* How many figures a number has.
LEMMA PlacesAre ==
  ASSUME INT_BITS \in Nat, NEW m \in Nat, NEW b, NEW l \in Nat, NEW k \in l .. INT_BITS,
         \A j \in l .. k : b^j \in Nat,
         m < b^k, \A j \in l .. k-1 : m >= b^j
  PROVE  Out!Places(m, b, l) = k
<1> DEFINE P(c) == m < b^c /\ \A j \in l .. c-1 : m >= b^j
<1>1. P(k)
  OBVIOUS
<1>2. ASSUME NEW c \in l .. INT_BITS, P(c) PROVE c = k
  <2>1. CASE c < k
    <3>1. c \in l .. k - 1 /\ c \in l .. k
      BY <2>1
    <3>2. m >= b^c /\ m < b^c /\ b^c \in Nat
      BY <1>2, <3>1
    <3> QED BY <3>2
  <2>2. CASE k < c
    <3>1. k \in l .. c - 1 /\ k \in l .. k
      BY <2>2
    <3>2. m >= b^k /\ m < b^k /\ b^k \in Nat
      BY <1>2, <3>1
    <3> QED BY <3>2
  <2> QED BY <2>1, <2>2
<1>3. Out!Places(m, b, l) = CHOOSE c \in l .. INT_BITS : P(c)
  BY DEF Out!Places
<1> HIDE DEF P
<1> QED BY <1>1, <1>2, <1>3

\* '0' + k is the figure k.
LEMMA PlainDigit == \A h \in 0 .. 9 : Out!zero_plus(h) = Out!Figures[h + 1]
<1> SUFFICES ASSUME NEW h \in 0 .. 9 PROVE Out!zero_plus(h) = Out!Figures[h + 1]
  OBVIOUS
<1>1. h = 0 \/ h = 1 \/ h = 2 \/ h = 3 \/ h = 4 \/ h = 5 \/ h = 6 \/ h = 7 \/ h = 8 \/ h = 9
  OBVIOUS
<1>2. CASE h = 0
  BY <1>2 DEF Out!zero_plus, Out!Figures, Out!Ascii
<1>3. CASE h = 1
  BY <1>3 DEF Out!zero_plus, Out!Figures, Out!Ascii
<1>4. CASE h = 2
  BY <1>4 DEF Out!zero_plus, Out!Figures, Out!Ascii
<1>5. CASE h = 3
  BY <1>5 DEF Out!zero_plus, Out!Figures, Out!Ascii
<1>6. CASE h = 4
  BY <1>6 DEF Out!zero_plus, Out!Figures, Out!Ascii
<1>7. CASE h = 5
  BY <1>7 DEF Out!zero_plus, Out!Figures, Out!Ascii
<1>8. CASE h = 6
  BY <1>8 DEF Out!zero_plus, Out!Figures, Out!Ascii
<1>9. CASE h = 7
  BY <1>9 DEF Out!zero_plus, Out!Figures, Out!Ascii
<1>10. CASE h = 8
  BY <1>10 DEF Out!zero_plus, Out!Figures, Out!Ascii
<1>11. CASE h = 9
  BY <1>11 DEF Out!zero_plus, Out!Figures, Out!Ascii
<1> QED BY <1>1, <1>2, <1>3, <1>4, <1>5, <1>6, <1>7, <1>8, <1>9, <1>10, <1>11

\* The digit printf_hex prints for h.
HexDigit(h) == IF h < 10 THEN Out!zero_plus(h) ELSE <<"A", "B", "C", "D", "E", "F">>[h - 9]

\* Both ways of printing a digit in base 16 (printf_hex).
LEMMA AnyDigit == \A h \in 0 .. 15 : HexDigit(h) = Out!Figures[h + 1]
<1> SUFFICES ASSUME NEW h \in 0 .. 15 PROVE HexDigit(h) = Out!Figures[h + 1]
  OBVIOUS
<1>1. CASE h < 10
  <2>1. h \in 0 .. 9
    BY <1>1
  <2> QED BY <1>1, <2>1, PlainDigit DEF HexDigit
<1>2. CASE h \in 10 .. 15
  <2>1. HexDigit(h) = <<"A", "B", "C", "D", "E", "F">>[h - 9]
    BY <1>2 DEF HexDigit
  <2>2. h = 10 \/ h = 11 \/ h = 12 \/ h = 13 \/ h = 14 \/ h = 15
    BY <1>2
  <2> QED BY <2>1, <2>2 DEF Out!Figures
<1> QED BY <1>1, <1>2

-----------------------------------------------------------------------------
(* printf_hex.                                                             *)

\* A shift by e brings the digit of g bits that has f bits below it to the top.
BringsUp(n, e, f, g) ==
  Out!shifted(n, e) \div 2^(e + f) = (n \div 2^f) % 2^g /\ 2^f \in Nat \ {0}

\* It does, when shift, digit and what is below it make up an int.
LEMMA Shifted ==
  ASSUME Out!IntWidth, NEW n \in Nat, NEW e \in Nat, NEW f \in Nat, NEW g \in Nat,
         (e + f) + g = INT_BITS
  PROVE  BringsUp(n, e, f, g)
<1> DEFINE a == 2^e
           c == 2^f
           d == 2^g
<1>1. /\ INT_BITS \in Nat /\ Out!Powers(2, INT_BITS)
      /\ e \in 0 .. INT_BITS /\ f \in 0 .. INT_BITS /\ g \in 0 .. INT_BITS
      /\ f \in 0 .. INT_BITS - e /\ e + f \in 0 .. INT_BITS /\ g + (e + f) = INT_BITS
      /\ e + f \in 0 .. INT_BITS - g
  BY DEF Out!IntWidth
<1>2. a \in Nat \ {0} /\ c \in Nat \ {0} /\ d \in Nat \ {0}
  BY <1>1, PowerType
<1>3. 2^(e + f) = a * c
  BY <1>1, PowerSum
<1>4. 2^(g + (e + f)) = d * 2^(e + f)
  BY <1>1, PowerSum
<1>5. Out!shifted(n, e) = (n * a) % (d * (a * c))
  BY <1>1, <1>3, <1>4 DEF Out!shifted
<1> HIDE DEF a, c, d
<1>6. ((n * a) % (d * (a * c))) \div (a * c) = (n \div c) % d
  BY <1>2, TopDigit, ZenonT(40)
<1>7. Out!shifted(n, e) \div 2^(e + f) = (n \div c) % d
  BY <1>3, <1>5, <1>6
<1> QED BY <1>2, <1>7 DEF c, d, BringsUp

\* printf_hex prints the digits in base 16.
LEMMA HexRight ==
  ASSUME Out!IntWidth, NEW n \in Nat, n < 2^INT_BITS
  PROVE  Out!printf_hex(n) = Out!Natural(n, 16, INT_BITS \div 4)
<1> DEFINE m == INT_BITS \div 4
<1>1. /\ INT_BITS \in Nat /\ INT_BITS = 4 * m /\ m \in Nat \ {0} /\ INT_BITS % 4 = 0
      /\ Out!Powers(2, INT_BITS) /\ Out!Powers(16, m)
  BY DEF Out!IntWidth
<1> HIDE DEF m
<1>2. Out!Places(n, 16, m) = m
  <2>1. \A j \in 0 .. m : 16^j \in Nat
    BY <1>1, PowerType
  <2>2. m \in m .. INT_BITS /\ m \in 0 .. m
    BY <1>1
  <2>3. 16^m = 2^INT_BITS
    BY <1>1, <2>2, PowerHex DEF m
  <2>4. \A j \in m .. m : j \in 0 .. m
    BY <1>1
  <2>5. /\ \A j \in m .. m : 16^j \in Nat
        /\ n < 16^m /\ \A j \in m .. m - 1 : n >= 16^j
    BY <1>1, <2>1, <2>3, <2>4
  <2> QED BY <1>1, <2>2, <2>5, PlacesAre
<1>3. ASSUME NEW k \in 1 .. m
      PROVE  /\ Out!shifted(n, 4 * (k-1)) \div 2^(INT_BITS - 4) = Out!Figure(n, 16, m - k)
             /\ Out!Figure(n, 16, m - k) \in 0 .. 15
  <2> DEFINE e == 4 * (k - 1)
             f == 4 * (m - k)
  <2> DEFINE g == 4
  <2>1. e \in Nat /\ f \in Nat /\ g \in Nat /\ (e + f) + g = INT_BITS /\ e + f = INT_BITS - 4
        /\ m - k \in 0 .. m
    BY <1>1
  <2>2. 16^(m - k) = 2^f
    BY <1>1, <2>1, PowerHex DEF m
  <2>4. 2^g = 16
    OBVIOUS
  <2> HIDE DEF e, f, g
  <2>3. /\ Out!shifted(n, e) \div 2^(e + f) = (n \div 2^f) % 2^g /\ 2^f \in Nat \ {0}
    <3>1. BringsUp(n, e, f, g)
      BY <2>1, Shifted
    <3> QED BY <3>1 DEF BringsUp
  <2>5. n \div 2^f \in Nat
    BY <2>3, DivNat
  <2>6. Out!Figure(n, 16, m - k) = (n \div 2^f) % 16
    BY <2>2 DEF Out!Figure
  <2>7. Out!Figure(n, 16, m - k) \in 0 .. 15
    BY <2>5, <2>6
  <2> QED BY <2>1, <2>3, <2>4, <2>6, <2>7 DEF e
<1>4. Out!printf_hex(n) = [k \in 1 .. m |->
         HexDigit(Out!shifted(n, 4 * (k-1)) \div 2^(INT_BITS - 4))]
  BY DEF Out!printf_hex, HexDigit, m
<1>5. Out!Natural(n, 16, m) = [k \in 1 .. m |-> Out!Figures[Out!Figure(n, 16, m - k) + 1]]
  BY <1>2 DEF Out!Natural
<1>6. \A k \in 1 .. m : HexDigit(Out!shifted(n, 4 * (k-1)) \div 2^(INT_BITS - 4))
                          = Out!Figures[Out!Figure(n, 16, m - k) + 1]
  BY <1>3, AnyDigit
<1> QED BY <1>4, <1>5, <1>6 DEF m

-----------------------------------------------------------------------------
(* printf_bin.                                                             *)

\* The bit that turn k of the loop prints, and what it prints with it;
Bit(n, k) == Out!Figures[((n \div 2^(INT_BITS - k)) % 2) + 1]

Turn(n, k) == IF k # 1 /\ k % 4 = 1 THEN <<"_", Bit(n, k)>> ELSE <<Bit(n, k)>>
Turns(n, l) == [k \in 1 .. l |-> Turn(n, k)]

\* the group of four that should be there.
Group(n, g) ==
  (IF g = 1 THEN <<>> ELSE <<"_">>)
    \o Out!Natural(Out!Figure(n, 16, INT_BITS \div 4 - g), 2, 4)
Grouped(n, l) == [g \in 1 .. l |-> Group(n, g)]

\* A sequence of known letters and one letter more.
More(s, z) == Append(s, z)

LEMMA More1 == ASSUME NEW a, NEW b PROVE More(<<a>>, b) = <<a, b>>
<1> DEFINE s == Append(<<a>>, b)
           t == <<a, b>>
<1>1. /\ s \in Seq({a, b}) /\ t \in Seq({a, b}) /\ Len(s) = 2 /\ Len(t) = 2
      /\ s[1] = t[1] /\ s[2] = t[2]
  OBVIOUS
<1>2. \A i \in 1 .. 2 : i = 1 \/ i = 2
  OBVIOUS
<1>3. Len(s) = Len(t) /\ \A i \in 1 .. Len(s) : s[i] = t[i]
  <2> HIDE DEF s, t
  <2> QED BY <1>1, <1>2
<1>4. s = t
  <2> HIDE DEF s, t
  <2> QED BY <1>1, <1>3, SeqEqual
<1> QED BY <1>4 DEF More

LEMMA More2 == ASSUME NEW a, NEW b, NEW c PROVE More(<<a, b>>, c) = <<a, b, c>>
<1> DEFINE s == Append(<<a, b>>, c)
           t == <<a, b, c>>
<1>1. /\ s \in Seq({a, b, c}) /\ t \in Seq({a, b, c}) /\ Len(s) = 3 /\ Len(t) = 3
      /\ s[1] = t[1] /\ s[2] = t[2] /\ s[3] = t[3]
  OBVIOUS
<1>2. \A i \in 1 .. 3 : i = 1 \/ i = 2 \/ i = 3
  OBVIOUS
<1>3. Len(s) = Len(t) /\ \A i \in 1 .. Len(s) : s[i] = t[i]
  <2> HIDE DEF s, t
  <2> QED BY <1>1, <1>2
<1>4. s = t
  <2> HIDE DEF s, t
  <2> QED BY <1>1, <1>3, SeqEqual
<1> QED BY <1>4 DEF More

LEMMA More3 == ASSUME NEW a, NEW b, NEW c, NEW d PROVE More(<<a, b, c>>, d) = <<a, b, c, d>>
<1> DEFINE s == Append(<<a, b, c>>, d)
           t == <<a, b, c, d>>
<1>1. /\ s \in Seq({a, b, c, d}) /\ t \in Seq({a, b, c, d}) /\ Len(s) = 4 /\ Len(t) = 4
      /\ s[1] = t[1] /\ s[2] = t[2] /\ s[3] = t[3] /\ s[4] = t[4]
  OBVIOUS
<1>2. \A i \in 1 .. 4 : i = 1 \/ i = 2 \/ i = 3 \/ i = 4
  OBVIOUS
<1>3. Len(s) = Len(t) /\ \A i \in 1 .. Len(s) : s[i] = t[i]
  <2> HIDE DEF s, t
  <2> QED BY <1>1, <1>2
<1>4. s = t
  <2> HIDE DEF s, t
  <2> QED BY <1>1, <1>3, SeqEqual
<1> QED BY <1>4 DEF More

LEMMA More4 ==
  ASSUME NEW a, NEW b, NEW c, NEW d, NEW e
  PROVE  More(<<a, b, c, d>>, e) = <<a, b, c, d, e>>
<1> DEFINE s == Append(<<a, b, c, d>>, e)
           t == <<a, b, c, d, e>>
<1>1. /\ s \in Seq({a, b, c, d, e}) /\ t \in Seq({a, b, c, d, e}) /\ Len(s) = 5 /\ Len(t) = 5
      /\ s[1] = t[1] /\ s[2] = t[2] /\ s[3] = t[3] /\ s[4] = t[4] /\ s[5] = t[5]
  OBVIOUS
<1>2. \A i \in 1 .. 5 : i = 1 \/ i = 2 \/ i = 3 \/ i = 4 \/ i = 5
  OBVIOUS
<1>3. Len(s) = Len(t) /\ \A i \in 1 .. Len(s) : s[i] = t[i]
  <2> HIDE DEF s, t
  <2> QED BY <1>1, <1>2
<1>4. s = t
  <2> HIDE DEF s, t
  <2> QED BY <1>1, <1>3, SeqEqual
<1> QED BY <1>4 DEF More

LEMMA OneAndOne ==
  ASSUME NEW a, NEW b
  PROVE  <<a>> \o <<b>> = <<a, b>> /\ <<>> \o <<b>> = <<b>>
<1>1. <<a>> \in Seq({a, b}) /\ <<b>> \in Seq({a, b}) /\ b \in {a, b}
  OBVIOUS
<1>2. <<a>> \o <<b>> = More(<<a>>, b)
  BY <1>1, AppendIsConcat DEF More
<1>3. <<>> \o <<b>> = <<b>>
  BY <1>1, ConcatEmptySeq
<1> QED BY <1>2, <1>3, More1

LEMMA OneFour ==
  ASSUME NEW a, NEW b, NEW c, NEW d, NEW e
  PROVE  <<a>> \o <<b, c, d, e>> = <<a, b, c, d, e>>
<1> DEFINE T == {a, b, c, d, e}
           x == <<a>>
           y == <<b, c, d, e>>
           t == <<a, b, c, d, e>>
<1>1. /\ x \in Seq(T) /\ Len(x) = 1 /\ x[1] = a
      /\ y \in Seq(T) /\ Len(y) = 4 /\ y[1] = b /\ y[2] = c /\ y[3] = d /\ y[4] = e
      /\ t \in Seq(T) /\ Len(t) = 5 /\ t[1] = a /\ t[2] = b /\ t[3] = c /\ t[4] = d /\ t[5] = e
  OBVIOUS
<1> HIDE DEF T, x, y, t
<1>2. /\ x \o y \in Seq(T) /\ Len(x \o y) = 5
      /\ \A i \in 1 .. 5 : (x \o y)[i] = IF i <= 1 THEN x[i] ELSE y[i - 1]
  <2>1. /\ x \o y \in Seq(T) /\ Len(x \o y) = Len(x) + Len(y)
        /\ \A i \in 1 .. Len(x) + Len(y) : (x \o y)[i] = IF i <= Len(x) THEN x[i] ELSE y[i - Len(x)]
    BY <1>1, ConcatProperties
  <2>2. Len(x) + Len(y) = 5
    BY <1>1
  <2> QED BY <1>1, <2>1, <2>2
<1>3. \A i \in 1 .. 5 : i = 1 \/ (i = 2 /\ i - 1 = 1) \/ (i = 3 /\ i - 1 = 2)
                          \/ (i = 4 /\ i - 1 = 3) \/ (i = 5 /\ i - 1 = 4)
  OBVIOUS
<1>4. \A i \in 1 .. 5 : (x \o y)[i] = t[i]
  BY <1>1, <1>2, <1>3
<1>5. x \o y = t
  BY <1>1, <1>2, <1>4, SeqEqual
<1> QED BY <1>5 DEF x, y, t

\* printf_bin is the turns of its loop.
LEMMA BinTurns ==
  ASSUME Out!IntWidth, NEW n \in Nat
  PROVE  Out!printf_bin(n) = Out!FlattenSeq(Turns(n, INT_BITS))
<1>1. INT_BITS \in Nat /\ INT_BITS % 4 = 0
  BY DEF Out!IntWidth
<1>2. ASSUME NEW k \in 1 .. INT_BITS
      PROVE  LET i == INT_BITS + 1 - k
             IN (IF i # INT_BITS /\ i % 4 = 0 THEN <<"_">> ELSE <<>>)
                  \o <<Out!zero_plus(Out!shifted(n, INT_BITS - i) \div 2^(INT_BITS - 1))>>
                = Turn(n, k)
  <2> DEFINE i == INT_BITS + 1 - k
             e == k - 1
             f == INT_BITS - k
             g == 1
  <2>1. INT_BITS - i = e /\ (i # INT_BITS <=> k # 1) /\ (i % 4 = 0 <=> k % 4 = 1)
    BY <1>1
  <2>2. e \in Nat /\ f \in Nat /\ g \in Nat /\ (e + f) + g = INT_BITS /\ e + f = INT_BITS - 1
    BY <1>1
  <2>3. 2^g = 2
    OBVIOUS
  <2> HIDE DEF e, f, g
  <2>4. BringsUp(n, e, f, g)
    BY <2>2, Shifted
  <2>5. n \div 2^f \in Nat
    BY <2>4, DivNat DEF BringsUp
  <2> DEFINE h == (n \div 2^f) % 2
  <2>6. h \in 0 .. 9
    BY <2>5
  <2>7. Out!shifted(n, e) \div 2^(INT_BITS - 1) = h
    BY <2>2, <2>3, <2>4 DEF BringsUp
  <2>8. Bit(n, k) = Out!Figures[h + 1]
    BY DEF Bit, f
  <2> HIDE DEF h, i
  <2>9. Out!zero_plus(Out!shifted(n, INT_BITS - i) \div 2^(INT_BITS - 1)) = Bit(n, k)
    BY <2>1, <2>6, <2>7, <2>8, PlainDigit
  <2>10. \A x : <<"_">> \o <<x>> = <<"_", x>> /\ <<>> \o <<x>> = <<x>>
    BY OneAndOne
  <2> QED BY <2>1, <2>9, <2>10 DEF Turn, i
<1>3. Turns(n, INT_BITS) = [k \in 1 .. INT_BITS |->
         LET i == INT_BITS + 1 - k
         IN (IF i # INT_BITS /\ i % 4 = 0 THEN <<"_">> ELSE <<>>)
              \o <<Out!zero_plus(Out!shifted(n, INT_BITS - i) \div 2^(INT_BITS - 1))>>]
  BY <1>2 DEF Turns
<1> QED BY <1>3 DEF Out!printf_bin

LEMMA FourBits ==
  ASSUME NEW x \in Nat
  PROVE  /\ x % 16 \in 0 .. 15
         /\ ((x % 16) \div 8) % 2 = (x \div 8) % 2
         /\ ((x % 16) \div 4) % 2 = (x \div 4) % 2
         /\ ((x % 16) \div 2) % 2 = (x \div 2) % 2
         /\ ((x % 16) \div 1) % 2 = (x \div 1) % 2
OBVIOUS

\* A group of four has the bits of its four turns.
LEMMA BinGroup ==
  ASSUME Out!IntWidth, NEW n \in Nat, NEW g \in 1 .. INT_BITS \div 4
  PROVE  Out!Natural(Out!Figure(n, 16, INT_BITS \div 4 - g), 2, 4)
           = <<Bit(n, 4*g - 3), Bit(n, 4*g - 2), Bit(n, 4*g - 1), Bit(n, 4*g)>>
<1> DEFINE m == INT_BITS \div 4
           b == 4 * (m - g)
           x == n \div 2^b
           f == Out!Figure(n, 16, m - g)
           four == 4
<1>1. /\ INT_BITS \in Nat /\ INT_BITS = 4 * m /\ m \in Nat \ {0} /\ INT_BITS % 4 = 0
      /\ Out!Powers(2, INT_BITS) /\ Out!Powers(16, m) /\ m - g \in 0 .. m
      /\ b \in 0 .. INT_BITS /\ b + 3 \in 0 .. INT_BITS /\ 4 * g \in 1 .. INT_BITS
      /\ four \in four .. INT_BITS /\ four \in Nat
  BY DEF Out!IntWidth
<1>2. 16^(m - g) = 2^b /\ 2^b \in Nat \ {0}
  BY <1>1, PowerHex, PowerType
<1>3. x \in Nat /\ f = x % 16
  BY <1>2, DivNat DEF Out!Figure
<1>4. 2^four = 16 /\ 2^0 = 1 /\ 2^1 = 2 /\ 2^2 = 4 /\ 2^3 = 8
  OBVIOUS
<1>5. f \in 0 .. 15 /\ f \in Nat
  BY <1>3, FourBits
<1> HIDE DEF m, b, x, f
<1>6. Out!Places(f, 2, four) = four
  <2>1. \A j \in four .. four : 2^j \in Nat
    <3>1. \A j \in four .. four : j = four
      OBVIOUS
    <3> HIDE DEF four
    <3> QED BY <1>4, <3>1
  <2>2. f < 2^four /\ \A j \in four .. four - 1 : f >= 2^j
    BY <1>4, <1>5
  <2> HIDE DEF four
  <2> QED BY <1>1, <1>5, <2>1, <2>2, PlacesAre
<1>7. Out!Natural(f, 2, 4) = [k \in 1 .. 4 |-> Out!Figures[Out!Figure(f, 2, 4 - k) + 1]]
  BY <1>6 DEF Out!Natural
<1>8. ASSUME NEW e \in 0 .. 3
      PROVE  Bit(n, 4 * g - e) = Out!Figures[((x \div 2^e) % 2) + 1]
  <2>1. e \in 0 .. INT_BITS - b /\ e \in 0 .. INT_BITS /\ INT_BITS - (4 * g - e) = b + e
    BY <1>1 DEF b
  <2>2. 2^(b + e) = 2^b * 2^e /\ 2^e \in Nat \ {0}
    BY <1>1, <2>1, PowerSum, PowerType
  <2>3. x \div 2^e = n \div (2^b * 2^e)
    BY <1>2, <2>2, DivDiv DEF x, Twice
  <2> QED BY <2>1, <2>2, <2>3 DEF Bit
<1>9. \A e \in 0 .. 3 : Out!Figure(f, 2, e) = (x \div 2^e) % 2
  <2>1. Out!Figure(f, 2, 0) = (x \div 2^0) % 2
    BY <1>3, <1>4, FourBits DEF Out!Figure
  <2>2. Out!Figure(f, 2, 1) = (x \div 2^1) % 2
    BY <1>3, <1>4, FourBits DEF Out!Figure
  <2>3. Out!Figure(f, 2, 2) = (x \div 2^2) % 2
    BY <1>3, <1>4, FourBits DEF Out!Figure
  <2>4. Out!Figure(f, 2, 3) = (x \div 2^3) % 2
    BY <1>3, <1>4, FourBits DEF Out!Figure
  <2>5. \A e \in 0 .. 3 : e = 0 \/ e = 1 \/ e = 2 \/ e = 3
    OBVIOUS
  <2> QED BY <2>1, <2>2, <2>3, <2>4, <2>5
<1>10. \A k \in 1 .. 4 : Out!Figures[Out!Figure(f, 2, 4 - k) + 1] = Bit(n, 4 * g - (4 - k))
  <2> TAKE k \in 1 .. 4
  <2>1. 4 - k \in 0 .. 3
    OBVIOUS
  <2> QED BY <2>1, <1>8, <1>9
<1>11. /\ 4 * g - (4 - 1) = 4*g - 3 /\ 4 * g - (4 - 2) = 4*g - 2
       /\ 4 * g - (4 - 3) = 4*g - 1 /\ 4 * g - (4 - 4) = 4*g
  OBVIOUS
<1>12. Out!Natural(f, 2, 4) = [k \in 1 .. 4 |-> Bit(n, 4 * g - (4 - k))]
  BY <1>7, <1>10
<1>13. [k \in 1 .. 4 |-> Bit(n, 4 * g - (4 - k))]
         = <<Bit(n, 4*g - 3), Bit(n, 4*g - 2), Bit(n, 4*g - 1), Bit(n, 4*g)>>
  BY <1>11
<1> QED BY <1>12, <1>13 DEF f, m

\* What printf_bin prints with.
Binary == {"_"} \union {Out!Figures[1], Out!Figures[2]}

LEMMA BitIn ==
  ASSUME Out!IntWidth, NEW n \in Nat, NEW k \in 1 .. INT_BITS
  PROVE  Bit(n, k) \in Binary /\ Turn(n, k) \in Seq(Binary)
<1> DEFINE b == INT_BITS - k
<1>1. b \in 0 .. INT_BITS /\ INT_BITS \in Nat /\ Out!Powers(2, INT_BITS)
  BY DEF Out!IntWidth
<1>2. 2^b \in Nat \ {0}
  BY <1>1, PowerType
<1> DEFINE y == n \div 2^b
<1>3. y \in Nat
  BY <1>2, DivNat
<1>4. y % 2 = 0 \/ y % 2 = 1
  <2> HIDE DEF y
  <2> QED BY <1>3
<1>5. Bit(n, k) = Out!Figures[(y % 2) + 1]
  BY DEF Bit
<1> DEFINE z == y % 2
<1>6. Bit(n, k) \in Binary
  <2>1. z + 1 = 1 \/ z + 1 = 2
    <3> HIDE DEF y
    <3> QED BY <1>4
  <2>2. Bit(n, k) = Out!Figures[z + 1]
    BY <1>5
  <2> HIDE DEF z
  <2> QED BY <2>1, <2>2 DEF Binary
<1>7. "_" \in Binary
  BY DEF Binary
<1>8. \A u, v \in Binary : <<u>> \in Seq(Binary) /\ <<u, v>> \in Seq(Binary)
  OBVIOUS
<1> QED BY <1>6, <1>7, <1>8 DEF Turn

LEMMA TurnsIn ==
  ASSUME Out!IntWidth, NEW n \in Nat, NEW l \in 0 .. INT_BITS
  PROVE  Turns(n, l) \in Seq(Seq(Binary))
<1>1. l \in Nat /\ \A k \in 1 .. l : k \in 1 .. INT_BITS
  BY DEF Out!IntWidth
<1>2. \A k \in 1 .. l : Turn(n, k) \in Seq(Binary)
  BY <1>1, BitIn
<1> QED BY <1>1, <1>2 DEF Turns

\* A turn more.
LEMMA NextTurn ==
  ASSUME Out!IntWidth, NEW n \in Nat, NEW l \in 1 .. INT_BITS
  PROVE  /\ Out!FlattenSeq(Turns(n, l)) = Join(Out!FlattenSeq(Turns(n, l - 1)), Turn(n, l))
         /\ Out!FlattenSeq(Turns(n, l)) \in Seq(Binary)
<1>1. l - 1 \in 0 .. INT_BITS /\ l \in 0 .. INT_BITS /\ l \in Nat
  BY DEF Out!IntWidth
<1>2. Turns(n, l - 1) \in Seq(Seq(Binary)) /\ Turn(n, l) \in Seq(Binary)
  BY <1>1, TurnsIn, BitIn
<1>3. Turns(n, l) = Append(Turns(n, l - 1), Turn(n, l))
  <2>1. Len(Turns(n, l-1)) = l - 1
    BY <1>1 DEF Turns
  <2>2. Append(Turns(n, l - 1), Turn(n, l)) =
          [k \in 1 .. l |-> IF k = l THEN Turn(n, l) ELSE Turns(n, l-1)[k]]
    BY <1>1, <1>2, <2>1
  <2>3. \A k \in 1 .. l : k # l => Turns(n, l-1)[k] = Turn(n, k)
    BY <1>1 DEF Turns
  <2>4. Turns(n, l) = [k \in 1 .. l |-> Turn(n, k)]
    BY DEF Turns
  <2> QED BY <2>2, <2>3, <2>4
<1>4. Out!FlattenSeq(Turns(n, l)) = Join(Out!FlattenSeq(Turns(n, l - 1)), Turn(n, l))
  BY <1>2, <1>3, FlatAppend DEF Join
<1>5. Out!FlattenSeq(Turns(n, l - 1)) \in Seq(Binary)
  BY <1>2, FlatIn
<1> QED BY <1>2, <1>4, <1>5, JoinIn

LEMMA OneMore ==
  ASSUME NEW T, NEW x \in Seq(T), NEW s \in Seq(T), NEW z \in T
  PROVE  Join(Join(x, s), <<z>>) = Join(x, More(s, z)) /\ More(s, z) \in Seq(T)
<1> DEFINE e == <<z>>
<1>1. e \in Seq(T) /\ More(s, z) = s \o e /\ More(s, z) \in Seq(T)
  BY AppendIsConcat DEF More
<1> HIDE DEF e
<1>2. Join(Join(x, s), e) = Chain(x, s, e)
  BY <1>1, Associative
<1> QED BY <1>1, <1>2 DEF Join, Chain, e

\* Three bits more behind something.
ThreeAdded(x, s, b2, b3, b4) ==
  Join(Join(Join(Join(x, s), <<b2>>), <<b3>>), <<b4>>) = Join(x, More(More(More(s, b2), b3), b4))

LEMMA ThreeMore ==
  ASSUME NEW T, NEW x \in Seq(T), NEW s \in Seq(T), NEW b2 \in T, NEW b3 \in T, NEW b4 \in T
  PROVE  ThreeAdded(x, s, b2, b3, b4)
<1>1. Join(Join(x, s), <<b2>>) = Join(x, More(s, b2)) /\ More(s, b2) \in Seq(T)
  BY OneMore
<1>2. Join(Join(x, More(s, b2)), <<b3>>) = Join(x, More(More(s, b2), b3))
      /\ More(More(s, b2), b3) \in Seq(T)
  BY <1>1, OneMore
<1>3. Join(Join(x, More(More(s, b2), b3)), <<b4>>) = Join(x, More(More(More(s, b2), b3), b4))
  BY <1>2, OneMore
<1> QED BY <1>1, <1>2, <1>3 DEF ThreeAdded

LEMMA Tuples ==
  ASSUME NEW T, NEW a \in T, NEW b \in T, NEW c \in T, NEW d \in T, NEW e \in T
  PROVE  <<a, b, c, d>> \in Seq(T) /\ <<a, b, c, d, e>> \in Seq(T)
OBVIOUS

\* The bits of group g.
Four(n, g) == <<Bit(n, 4*g - 3), Bit(n, 4*g - 2), Bit(n, 4*g - 1), Bit(n, 4*g)>>

\* What four turns add is a group.
LEMMA FourTurns ==
  ASSUME Out!IntWidth, NEW n \in Nat, NEW g \in 1 .. INT_BITS \div 4
  PROVE  /\ Out!FlattenSeq(Turns(n, 4*g)) = Join(Out!FlattenSeq(Turns(n, 4*(g-1))), Group(n, g))
         /\ Group(n, g) \in Seq(Binary)
<1> DEFINE k == 4 * g
<1>1. /\ k - 3 \in 1 .. INT_BITS /\ k - 2 \in 1 .. INT_BITS /\ k - 1 \in 1 .. INT_BITS
      /\ k \in 1 .. INT_BITS
      /\ (k - 3) - 1 = 4 * (g - 1) /\ (k - 2) - 1 = k - 3 /\ (k - 1) - 1 = k - 2
      /\ (k - 3) % 4 = 1 /\ (k - 2) % 4 # 1 /\ (k - 1) % 4 # 1 /\ k % 4 # 1
      /\ (k - 3 = 1 <=> g = 1) /\ 4 * (g - 1) \in 0 .. INT_BITS
  BY DEF Out!IntWidth
<1>2. Group(n, g) = (IF g = 1 THEN <<>> ELSE <<"_">>) \o Four(n, g)
  BY BinGroup DEF Group, Four
<1> HIDE DEF k
<1> DEFINE x == Out!FlattenSeq(Turns(n, 4*(g-1)))
           first == Turn(n, k-3)
<1>3. /\ x \in Seq(Binary) /\ first \in Seq(Binary)
      /\ Bit(n, k-3) \in Binary /\ Bit(n, k-2) \in Binary /\ Bit(n, k-1) \in Binary
      /\ Bit(n, k) \in Binary /\ "_" \in Binary
  BY <1>1, BitIn, TurnsIn, FlatIn DEF Binary
<1>4. /\ Out!FlattenSeq(Turns(n, k-3)) = Join(x, first)
      /\ Out!FlattenSeq(Turns(n, k-2)) = Join(Out!FlattenSeq(Turns(n, k-3)), <<Bit(n, k-2)>>)
      /\ Out!FlattenSeq(Turns(n, k-1)) = Join(Out!FlattenSeq(Turns(n, k-2)), <<Bit(n, k-1)>>)
      /\ Out!FlattenSeq(Turns(n, k)) = Join(Out!FlattenSeq(Turns(n, k-1)), <<Bit(n, k)>>)
  <2>1. /\ Turn(n, k-2) = <<Bit(n, k-2)>> /\ Turn(n, k-1) = <<Bit(n, k-1)>>
        /\ Turn(n, k) = <<Bit(n, k)>>
    BY <1>1 DEF Turn
  <2> QED BY <1>1, <2>1, NextTurn
<1>5. Out!FlattenSeq(Turns(n, k))
        = Join(x, More(More(More(first, Bit(n, k-2)), Bit(n, k-1)), Bit(n, k)))
  <2> HIDE DEF x, first
  <2>1. ThreeAdded(x, first, Bit(n, k-2), Bit(n, k-1), Bit(n, k))
    BY <1>3, ThreeMore
  <2> QED BY <1>4, <2>1 DEF ThreeAdded
<1>6. CASE g = 1
  <2>1. first = <<Bit(n, k-3)>>
    BY <1>1, <1>6 DEF Turn
  <2>2. More(More(More(first, Bit(n, k-2)), Bit(n, k-1)), Bit(n, k)) = Four(n, g)
    BY <2>1, More1, More2, More3 DEF Four, k
  <2>3. Four(n, g) \in Seq(Binary)
    BY <1>3, Tuples DEF Four, k
  <2>4. Group(n, g) = Four(n, g)
    BY <1>2, <1>6, <2>3, ConcatEmptySeq
  <2> QED BY <1>5, <2>2, <2>3, <2>4 DEF k
<1>7. CASE g # 1
  <2> DEFINE u == "_"
  <2>1. first = <<u, Bit(n, k-3)>>
    BY <1>1, <1>7 DEF Turn
  <2>2. More(More(More(first, Bit(n, k-2)), Bit(n, k-1)), Bit(n, k))
          = <<u, Bit(n, k-3), Bit(n, k-2), Bit(n, k-1), Bit(n, k)>>
    <3> HIDE DEF u
    <3> QED BY <2>1, More2, More3, More4
  <2>3. <<u>> \o <<Bit(n, k-3), Bit(n, k-2), Bit(n, k-1), Bit(n, k)>>
          = <<u, Bit(n, k-3), Bit(n, k-2), Bit(n, k-1), Bit(n, k)>>
    BY OneFour
  <2>4. <<u, Bit(n, k-3), Bit(n, k-2), Bit(n, k-1), Bit(n, k)>> \in Seq(Binary)
    BY <1>3, Tuples
  <2>5. Group(n, g) = <<u, Bit(n, k-3), Bit(n, k-2), Bit(n, k-1), Bit(n, k)>>
    BY <1>2, <1>7, <2>3 DEF Four, k
  <2> QED BY <1>5, <2>2, <2>4, <2>5 DEF k
<1> QED BY <1>6, <1>7

\* The first 4*g turns print the first g groups.
GroupsTo(n, g) == Out!FlattenSeq(Turns(n, 4 * g)) = Out!FlattenSeq(Grouped(n, g))

\* Four turns print a group, after those before.
LEMMA BinGroups ==
  ASSUME Out!IntWidth, NEW n \in Nat, NEW l \in 0 .. INT_BITS \div 4
  PROVE  GroupsTo(n, l) /\ Grouped(n, l) \in Seq(Seq(Binary))
<1> DEFINE Bad == {g \in 0 .. l : ~ GroupsTo(n, g)}
<1>0. \A g \in 0 .. l : Grouped(n, g) \in Seq(Seq(Binary))
  <2> TAKE g \in 0 .. l
  <2>1. \A h \in 1 .. g : h \in 1 .. INT_BITS \div 4
    BY DEF Out!IntWidth
  <2>2. \A h \in 1 .. g : Group(n, h) \in Seq(Binary)
    BY <2>1, FourTurns
  <2> QED BY <2>2 DEF Grouped
<1>1. Bad = {}
  <2> SUFFICES ASSUME Bad # {} PROVE FALSE
    OBVIOUS
  <2>1. PICK g \in Bad : \A i \in Bad : g <= i
    <3>1. Bad \subseteq Nat
      OBVIOUS
    <3> HIDE DEF Bad
    <3> QED BY <3>1, Least
  <2>2. g # 0
    <3>1. 4 * 0 = 0 /\ Turns(n, 0) = <<>> /\ Grouped(n, 0) = <<>>
      BY DEF Turns, Grouped
    <3>2. GroupsTo(n, 0)
      BY <3>1, FlatEmpty DEF GroupsTo
    <3> QED BY <3>2
  <2>3. g \in 1 .. INT_BITS \div 4 /\ g - 1 \in 0 .. l /\ g - 1 \notin Bad /\ g \in 0 .. l
    BY <2>1, <2>2 DEF Out!IntWidth
  <2>4. Out!FlattenSeq(Turns(n, 4 * (g-1))) = Out!FlattenSeq(Grouped(n, g-1))
    BY <2>3 DEF GroupsTo
  <2>5. Grouped(n, g) = Append(Grouped(n, g-1), Group(n, g))
    <3>1. Len(Grouped(n, g-1)) = g - 1
      BY <2>3 DEF Grouped
    <3>2. Append(Grouped(n, g-1), Group(n, g)) =
            [h \in 1 .. g |-> IF h = g THEN Group(n, g) ELSE Grouped(n, g-1)[h]]
      BY <1>0, <2>3, <3>1
    <3>3. \A h \in 1 .. g : h # g => Grouped(n, g-1)[h] = Group(n, h)
      BY <2>3 DEF Grouped
    <3>4. Grouped(n, g) = [h \in 1 .. g |-> Group(n, h)]
      BY DEF Grouped
    <3> QED BY <3>2, <3>3, <3>4
  <2>6. Out!FlattenSeq(Grouped(n, g)) = Join(Out!FlattenSeq(Grouped(n, g-1)), Group(n, g))
    <3>1. Grouped(n, g-1) \in Seq(Seq(Binary)) /\ Group(n, g) \in Seq(Binary)
      BY <1>0, <2>3, FourTurns
    <3> QED BY <2>5, <3>1, FlatAppend DEF Join
  <2>7. Out!FlattenSeq(Turns(n, 4*g)) = Join(Out!FlattenSeq(Turns(n, 4*(g-1))), Group(n, g))
    BY <2>3, FourTurns
  <2> QED BY <2>1, <2>4, <2>6, <2>7 DEF GroupsTo
<1> QED BY <1>0, <1>1

\* printf_bin prints the groups of four.
LEMMA BinRight ==
  ASSUME Out!IntWidth, NEW n \in Nat
  PROVE  Out!printf_bin(n) = Out!Groups(n) /\ Out!Groups(n) \in Seq(Binary)
<1> DEFINE m == INT_BITS \div 4
<1>1. m \in 0 .. INT_BITS \div 4 /\ 4 * m = INT_BITS
  BY DEF Out!IntWidth
<1>2. Out!Groups(n) = Out!FlattenSeq(Grouped(n, m))
  BY DEF Out!Groups, Grouped, Group
<1> HIDE DEF m
<1>3. GroupsTo(n, m) /\ Grouped(n, m) \in Seq(Seq(Binary))
  BY <1>1, BinGroups
<1> QED BY <1>1, <1>2, <1>3, BinTurns, FlatIn DEF GroupsTo
-----------------------------------------------------------------------------
(* printf_int.                                                             *)

\* What is left of an integer of sign s and size m after k divisions.
Left(s, m) == [k \in 0 .. INT_BITS |-> s * (m \div 10^k)]

\* What digits calls left.
IsLeft(f, i) == f = [k \in 0 .. INT_BITS |-> IF k = 0 THEN i ELSE Out!quotient(f[k-1])]

\* / and % of C, of a size with a sign (quotient, remainder).
LEMMA Signed ==
  ASSUME NEW s \in {1, -1}, NEW y \in Nat
  PROVE  /\ Out!quotient(s * y) = s * (y \div 10) /\ Out!remainder(s * y) = s * (y % 10)
         /\ y \div 10 \in Nat /\ y % 10 \in 0 .. 9
<1>1. CASE s = 1
  BY <1>1 DEF Out!quotient, Out!remainder
<1>2. CASE s = -1
  <2>1. CASE y = 0
    BY <1>2, <2>1 DEF Out!quotient, Out!remainder
  <2>2. CASE y # 0
    <3>1. s * y = -y /\ s * y < 0 /\ -(-y) = y
      BY <1>2, <2>2
    <3>2. Out!quotient(s * y) = -(y \div 10)
      BY <3>1 DEF Out!quotient
    <3>3. Out!remainder(s * y) = -y - 10 * (-(y \div 10))
      BY <3>1, <3>2 DEF Out!remainder
    <3> QED BY <1>2, <3>2, <3>3
  <2> QED BY <2>1, <2>2
<1> QED BY <1>1, <1>2

\* The quotients that digits finds are those of the size, with its sign.
LEMMA LeftOf ==
  ASSUME Out!IntWidth, NEW s \in {1, -1}, NEW m \in Nat, NEW f
  PROVE  IsLeft(f, s * m) <=> f = Left(s, m)
<1>1. INT_BITS \in Nat /\ Out!Powers(10, INT_BITS)
  BY DEF Out!IntWidth
<1>2. \A k \in 0 .. INT_BITS : 10^k \in Nat \ {0}
  BY <1>1, PowerType
<1>3. m \div 10^0 = m
  <2>1. 10^0 = 1 /\ m \div 1 = m
    OBVIOUS
  <2> QED BY <2>1
<1>4. ASSUME NEW k \in 1 .. INT_BITS
      PROVE  Out!quotient(s * (m \div 10^(k-1))) = s * (m \div 10^k)
  <2> DEFINE c == 10^(k-1)
  <2>1. k - 1 \in 0 .. INT_BITS - 1 /\ k - 1 \in 0 .. INT_BITS /\ (k-1) + 1 = k
    BY <1>1
  <2>2. c \in Nat \ {0} /\ 10^k = 10 * c
    <3>1. 10^((k-1)+1) = 10 * c
      BY <1>1, <2>1 DEF Out!Powers
    <3> QED BY <1>2, <2>1, <3>1
  <2> HIDE DEF c
  <2>3. 10 * c = c * 10
    BY <2>2
  <2>4. (m \div c) \div 10 = m \div (c * 10)
    <3> DEFINE ten == 10
    <3>1. ten \in Nat \ {0}
      OBVIOUS
    <3> HIDE DEF ten
    <3>2. Twice(m, c, ten)
      BY <2>2, <3>1, DivDiv
    <3> QED BY <3>2 DEF ten, Twice
  <2>5. m \div c \in Nat
    BY <2>2, DivNat
  <2>6. Out!quotient(s * (m \div c)) = s * ((m \div c) \div 10)
    BY <2>5, Signed
  <2> QED BY <2>2, <2>3, <2>4, <2>6 DEF c
<1>5. IsLeft(Left(s, m), s * m)
  <2> DEFINE F == Left(s, m)
  <2>1. \A k \in 0 .. INT_BITS : F[k] = (IF k = 0 THEN s * m ELSE Out!quotient(F[k-1]))
    <3> TAKE k \in 0 .. INT_BITS
    <3>1. F[k] = s * (m \div 10^k) /\ (k # 0 => k - 1 \in 0 .. INT_BITS /\ k \in 1 .. INT_BITS)
      BY <1>1 DEF Left
    <3>2. k # 0 => F[k-1] = s * (m \div 10^(k-1))
      BY <3>1 DEF Left
    <3> HIDE DEF F
    <3> QED BY <1>3, <1>4, <3>1, <3>2
  <2>2. F = [k \in 0 .. INT_BITS |-> F[k]]
    BY DEF Left
  <2> HIDE DEF F
  <2>3. F = [k \in 0 .. INT_BITS |-> IF k = 0 THEN s * m ELSE Out!quotient(F[k-1])]
    BY <2>1, <2>2
  <2> QED BY <2>3 DEF IsLeft, F
<1>6. ASSUME IsLeft(f, s * m) PROVE f = Left(s, m)
  <2> DEFINE F == Left(s, m)
             Bad == {k \in 0 .. INT_BITS : f[k] # F[k]}
  <2>1. \A g : IsLeft(g, s * m) => \A k \in 0 .. INT_BITS :
          g[k] = (IF k = 0 THEN s * m ELSE Out!quotient(g[k-1]))
    BY DEF IsLeft
  <2>2. Bad = {}
    <3> SUFFICES ASSUME Bad # {} PROVE FALSE
      OBVIOUS
    <3>1. PICK k \in Bad : \A j \in Bad : k <= j
      <4>1. Bad \subseteq Nat
        OBVIOUS
      <4> HIDE DEF Bad
      <4> QED BY <4>1, Least
    <3>2. /\ f[k] = (IF k = 0 THEN s * m ELSE Out!quotient(f[k-1]))
          /\ F[k] = (IF k = 0 THEN s * m ELSE Out!quotient(F[k-1]))
      <4> HIDE DEF F
      <4> QED BY <1>5, <1>6, <2>1 DEF F
    <3>3. k # 0 => f[k-1] = F[k-1]
      <4> HIDE DEF F
      <4>1. k # 0 => k - 1 \in 0 .. INT_BITS /\ ~ (k <= k - 1)
        BY <1>1
      <4> QED BY <3>1, <4>1
    <3> HIDE DEF F
    <3> QED BY <3>2, <3>3
  <2>3. f = [k \in 0 .. INT_BITS |-> f[k]]
    BY <1>6 DEF IsLeft
  <2>4. F = [k \in 0 .. INT_BITS |-> F[k]]
    BY DEF Left
  <2>5. \A k \in 0 .. INT_BITS : f[k] = F[k]
    <3> HIDE DEF F
    <3> QED BY <2>2
  <2> HIDE DEF F, Bad
  <2> QED BY <2>3, <2>4, <2>5 DEF F
<1> QED BY <1>5, <1>6

\* A size has so many figures.
LEMMA Figures10 ==
  ASSUME Out!IntWidth, NEW m \in Nat, m <= 2^(INT_BITS - 1)
  PROVE  \E p \in 1 .. INT_BITS : /\ Out!Places(m, 10, 1) = p
                                  /\ m < 10^p /\ \A j \in 1 .. p - 1 : m >= 10^j
<1>1. INT_BITS \in Nat \ {0} /\ Out!Powers(10, INT_BITS) /\ Out!Powers(2, INT_BITS)
      /\ INT_BITS - 1 \in 0 .. INT_BITS - 1 /\ INT_BITS - 1 \in 0 .. INT_BITS
      /\ INT_BITS \in 0 .. INT_BITS /\ (INT_BITS - 1) + 1 = INT_BITS
  BY DEF Out!IntWidth
<1>2. \A k \in 0 .. INT_BITS : 10^k \in Nat \ {0} /\ 2^k \in Nat \ {0}
  BY <1>1, PowerType
<1>3. m < 10^INT_BITS
  <2>1. 2^((INT_BITS - 1) + 1) = 2 * 2^(INT_BITS - 1)
    BY <1>1 DEF Out!Powers
  <2>2. 2^INT_BITS <= 10^INT_BITS
    BY <1>1, PowerTen
  <2>3. 2^(INT_BITS - 1) \in Nat \ {0} /\ 10^INT_BITS \in Nat
    BY <1>1, <1>2
  <2>4. \A x \in Nat \ {0}, y \in Nat : m <= x /\ 2 * x <= y => m < y
    OBVIOUS
  <2> QED BY <1>1, <2>1, <2>2, <2>3, <2>4
<1> DEFINE S == {k \in 1 .. INT_BITS : m < 10^k}
<1>4. PICK p \in S : \A k \in S : p <= k
  <2>1. S \subseteq Nat /\ INT_BITS \in S
    BY <1>1, <1>3
  <2> HIDE DEF S
  <2> QED BY <2>1, Least
<1>5. ASSUME NEW j \in 1 .. p - 1 PROVE m >= 10^j
  <2>1. p \in 1 .. INT_BITS /\ j \in 1 .. INT_BITS /\ j \in 0 .. INT_BITS /\ ~ (p <= j)
    BY <1>1
  <2>2. ~ (m < 10^j)
    BY <1>4, <2>1
  <2>3. 10^j \in Nat
    BY <1>2, <2>1
  <2> QED BY <2>2, <2>3
<1>6. Out!Places(m, 10, 1) = p
  <2>1. p \in 1 .. INT_BITS /\ 1 \in Nat /\ \A j \in 1 .. p : j \in 0 .. INT_BITS
    BY <1>1
  <2>2. \A j \in 1 .. p : 10^j \in Nat
    BY <1>2, <2>1
  <2> QED BY <1>1, <1>4, <1>5, <2>1, <2>2, PlacesAre
<1> QED BY <1>4, <1>5, <1>6

\* The digits, the last one first.
LEMMA DigitsAre ==
  ASSUME Out!IntWidth, NEW s \in {1, -1}, NEW m \in Nat, m <= 2^(INT_BITS - 1)
  PROVE  Out!digits(s * m) =
           [k \in 1 .. Out!Places(m, 10, 1) |-> Out!zero_plus(s * Out!Figure(m, 10, k - 1))]
<1> DEFINE left == CHOOSE f :
             f = [k \in 0 .. INT_BITS |-> IF k = 0 THEN s * m ELSE Out!quotient(f[k-1])]
           F == Left(s, m)
           P(k) == left[k] = 0 /\ \A j \in 1 .. k-1 : left[j] # 0
           count == CHOOSE k \in 1 .. INT_BITS : P(k)
<1>1. left = F
  <2>1. left = CHOOSE f : IsLeft(f, s * m)
    BY DEF IsLeft
  <2>2. IsLeft(F, s * m)
    BY LeftOf
  <2>3. IsLeft(left, s * m)
    <3> HIDE DEF left, F
    <3> QED BY <2>1, <2>2
  <2> HIDE DEF left, F
  <2> QED BY <2>3, LeftOf DEF F
<1>2. Out!digits(s * m) = [k \in 1 .. count |-> Out!zero_plus(Out!remainder(left[k-1]))]
  BY DEF Out!digits
<1>3. PICK p \in 1 .. INT_BITS : /\ Out!Places(m, 10, 1) = p
                                 /\ m < 10^p /\ \A j \in 1 .. p - 1 : m >= 10^j
  BY Figures10
<1> HIDE DEF left
<1>4. /\ INT_BITS \in Nat /\ Out!Powers(10, INT_BITS)
      /\ \A k \in 0 .. INT_BITS : 10^k \in Nat \ {0}
  <2>1. INT_BITS \in Nat /\ Out!Powers(10, INT_BITS)
    BY DEF Out!IntWidth
  <2> QED BY <2>1, PowerType
<1>5. ASSUME NEW k \in 0 .. INT_BITS
      PROVE  F[k] = s * (m \div 10^k) /\ m \div 10^k \in Nat /\ (F[k] = 0 <=> m < 10^k)
  <2> DEFINE c == 10^k
             y == m \div c
             r == m % c
  <2>1. c \in Nat \ {0}
    BY <1>4
  <2>2. F[k] = s * y
    BY DEF Left
  <2> HIDE DEF c, F
  <2>3. y \in Nat /\ r \in 0 .. c - 1 /\ m = y * c + r
    BY <2>1, DivNat
  <2> HIDE DEF y, r
  <2>4. CASE y = 0
    <3>1. y * c = 0 /\ s * y = 0
      <4>1. 0 * c = 0 /\ s * 0 = 0
        BY <2>1
      <4> QED BY <2>4, <4>1
    <3>2. m = r
      BY <2>1, <2>3, <3>1
    <3> QED BY <2>1, <2>2, <2>3, <2>4, <3>1, <3>2 DEF c, y
  <2>5. CASE y # 0
    <3>1. y * c >= c
      BY <2>1, <2>3, <2>5, Multiple
    <3>2. ~ (m < c) /\ s * y # 0
      BY <2>1, <2>3, <2>5, <3>1
    <3> QED BY <2>2, <2>3, <3>2 DEF c, y
  <2> QED BY <2>4, <2>5
<1>6. P(p)
  <2>1. \A j \in 1 .. p - 1 : F[j] # 0
    <3> TAKE j \in 1 .. p - 1
    <3>1. j \in 0 .. INT_BITS /\ m >= 10^j
      BY <1>3, <1>4
    <3>2. ~ (m < 10^j)
      BY <1>4, <3>1
    <3> HIDE DEF F
    <3> QED BY <1>5, <3>1, <3>2
  <2>2. F[p] = 0
    <3>1. p \in 0 .. INT_BITS
      BY <1>4
    <3> HIDE DEF F
    <3> QED BY <1>3, <1>5, <3>1
  <2> HIDE DEF F
  <2> QED BY <1>1, <2>1, <2>2
<1>7. ASSUME NEW k \in 1 .. INT_BITS, P(k) PROVE k = p
  <2>1. ~ (k < p)
    <3> SUFFICES ASSUME k < p PROVE FALSE
      OBVIOUS
    <3>1. k \in 1 .. p - 1
      BY <1>4
    <3> QED BY <1>6, <1>7, <3>1
  <2>2. ~ (p < k)
    <3> SUFFICES ASSUME p < k PROVE FALSE
      OBVIOUS
    <3>1. p \in 1 .. k - 1
      BY <1>4
    <3> QED BY <1>6, <1>7, <3>1
  <2> QED BY <1>4, <2>1, <2>2
<1>8. count = p
  <2> HIDE DEF P
  <2> QED BY <1>6, <1>7
<1>9. ASSUME NEW k \in 1 .. p
      PROVE  Out!zero_plus(Out!remainder(left[k-1])) = Out!zero_plus(s * Out!Figure(m, 10, k - 1))
  <2>1. k - 1 \in 0 .. INT_BITS
    BY <1>4
  <2>2. left[k-1] = s * (m \div 10^(k-1)) /\ m \div 10^(k-1) \in Nat
    <3> HIDE DEF F
    <3> QED BY <1>1, <1>5, <2>1
  <2>3. Out!remainder(left[k-1]) = s * ((m \div 10^(k-1)) % 10)
    <3> DEFINE y == m \div 10^(k-1)
    <3>1. left[k-1] = s * y /\ y \in Nat
      BY <2>2
    <3> HIDE DEF y
    <3>2. Out!remainder(s * y) = s * (y % 10)
      BY <3>1, Signed
    <3> QED BY <3>1, <3>2 DEF y
  <2> QED BY <2>3 DEF Out!Figure
<1> HIDE DEF count, P, F
<1>10. Out!digits(s * m) = [k \in 1 .. p |-> Out!zero_plus(Out!remainder(left[k-1]))]
  BY <1>2, <1>8
<1> QED BY <1>3, <1>9, <1>10

\* A sequence reversed.
LEMMA ReverseAt ==
  ASSUME NEW T, NEW s \in Seq(T)
  PROVE  /\ Out!Reverse(s) \in Seq(T) /\ Len(Out!Reverse(s)) = Len(s)
         /\ \A i \in 1 .. Len(s) : Out!Reverse(s)[i] = s[(Len(s) - i) + 1]
<1>1. \A i \in 1 .. Len(s) : (Len(s) - i) + 1 \in 1 .. Len(s)
  OBVIOUS
<1>2. \A i \in 1 .. Len(s) : s[(Len(s) - i) + 1] \in T
  BY <1>1
<1> QED BY <1>2 DEF Out!Reverse

\* The last one comes first.
LEMMA ReverseLast ==
  ASSUME NEW T, NEW s \in Seq(T), NEW a \in T
  PROVE  Out!Reverse(Append(s, a)) = Before(a, Out!Reverse(s))
<1> DEFINE b == Append(s, a)
           x == Out!Reverse(b)
           r == Out!Reverse(s)
           y == Before(a, r)
           n == Len(s)
<1>1. /\ b \in Seq(T) /\ Len(b) = n + 1 /\ b[n + 1] = a /\ n \in Nat
      /\ \A i \in 1 .. n : b[i] = s[i]
  OBVIOUS
<1>2. r \in Seq(T) /\ Len(r) = n /\ \A i \in 1 .. n : r[i] = s[(n - i) + 1]
  BY ReverseAt
<1> HIDE DEF b, r, n
<1>3. /\ x \in Seq(T) /\ Len(x) = n + 1
      /\ \A i \in 1 .. n + 1 : x[i] = b[((n + 1) - i) + 1]
  BY <1>1, ReverseAt
<1>4. /\ y \in Seq(T) /\ Len(y) = n + 1 /\ y[1] = a
      /\ \A i \in 2 .. n + 1 : y[i] = r[i - 1]
  BY <1>1, <1>2 DEF Before
<1> HIDE DEF x, y
<1>5. \A i \in 1 .. n + 1 : x[i] = y[i]
  <2> TAKE i \in 1 .. n + 1
  <2>1. CASE i = 1
    BY <1>1, <1>3, <1>4, <2>1
  <2>2. CASE i # 1
    <3>1. /\ i \in 2 .. n + 1 /\ i - 1 \in 1 .. n /\ ((n + 1) - i) + 1 \in 1 .. n
          /\ (n - (i - 1)) + 1 = ((n + 1) - i) + 1
      BY <1>1, <2>2
    <3>2. y[i] = s[(n - (i - 1)) + 1]
      BY <1>2, <1>4, <3>1
    <3>3. x[i] = s[((n + 1) - i) + 1]
      BY <1>1, <1>3, <3>1
    <3> QED BY <3>1, <3>2, <3>3
  <2> QED BY <2>1, <2>2
<1>6. x = y
  BY <1>3, <1>4, <1>5, SeqEqual
<1> QED BY <1>6 DEF x, y, b, r

\* The digits of a size with a sign, from the last to the first and from the
\* first to the last.
Digits(s, m, p) == [k \in 1 .. p |-> Out!zero_plus(s * Out!Figure(m, 10, k - 1))]
Backwards(s, m, p) == [k \in 1 .. p |-> Out!zero_plus(s * Out!Figure(m, 10, p - k))]

\* What printf_int prints with.
Decimals == {Out!zero_plus(h) : h \in -9 .. 9} \union {"-"}

\* The loop of printf_int turns one into the other.
LEMMA DigitsBack ==
  ASSUME Out!IntWidth, NEW s \in {1, -1}, NEW m \in Nat, NEW p \in 1 .. INT_BITS
  PROVE  /\ Digits(s, m, p) \in Seq(Decimals) /\ Backwards(s, m, p) \in Seq(Decimals)
         /\ Out!Reverse(Digits(s, m, p)) = Backwards(s, m, p)
         /\ \A k \in 1 .. p : Out!Figure(m, 10, p - k) \in 0 .. 9
<1>1. /\ INT_BITS \in Nat /\ Out!Powers(10, INT_BITS)
      /\ \A k \in 0 .. INT_BITS : 10^k \in Nat \ {0}
  <2>1. INT_BITS \in Nat /\ Out!Powers(10, INT_BITS)
    BY DEF Out!IntWidth
  <2> QED BY <2>1, PowerType
<1>2. ASSUME NEW j \in 0 .. INT_BITS
      PROVE  /\ Out!Figure(m, 10, j) \in 0 .. 9
             /\ Out!zero_plus(s * Out!Figure(m, 10, j)) \in Decimals
  <2> DEFINE c == 10^j
             y == m \div c
  <2>1. c \in Nat \ {0}
    BY <1>1
  <2> HIDE DEF c
  <2>2. y \in Nat
    BY <2>1, DivNat
  <2> HIDE DEF y
  <2>3. y % 10 \in 0 .. 9
    BY <2>2
  <2>4. Out!Figure(m, 10, j) \in 0 .. 9
    BY <2>3 DEF Out!Figure, y, c
  <2> DEFINE h == Out!Figure(m, 10, j)
  <2> HIDE DEF h
  <2>5. h \in 0 .. 9
    BY <2>4 DEF h
  <2>6. s * h \in -9 .. 9
    BY <2>5
  <2>7. Out!zero_plus(s * h) \in Decimals
    BY <2>6 DEF Decimals
  <2> QED BY <2>5, <2>7 DEF h
<1>3. \A k \in 1 .. p : /\ k - 1 \in 0 .. INT_BITS /\ p - k \in 0 .. INT_BITS
                        /\ (p - k) + 1 \in 1 .. p /\ ((p - k) + 1) - 1 = p - k
  BY <1>1
<1>4. Digits(s, m, p) \in Seq(Decimals) /\ Backwards(s, m, p) \in Seq(Decimals)
  <2>1. \A k \in 1 .. p : /\ Out!zero_plus(s * Out!Figure(m, 10, k - 1)) \in Decimals
                          /\ Out!zero_plus(s * Out!Figure(m, 10, p - k)) \in Decimals
    BY <1>2, <1>3
  <2> HIDE DEF Decimals
  <2> QED BY <2>1 DEF Digits, Backwards
<1> DEFINE d == Digits(s, m, p)
           x == Out!Reverse(d)
           y == Backwards(s, m, p)
<1>5. Len(d) = p /\ Len(y) = p
  BY <1>1 DEF Digits, Backwards
<1>6. \A k \in 1 .. p : d[(p - k) + 1] = y[k]
  <2> TAKE k \in 1 .. p
  <2> DEFINE j == (p - k) + 1
  <2>1. j \in 1 .. p /\ j - 1 = p - k
    BY <1>3
  <2> HIDE DEF j
  <2>2. d[j] = Out!zero_plus(s * Out!Figure(m, 10, j - 1))
    BY <2>1 DEF Digits
  <2>3. y[k] = Out!zero_plus(s * Out!Figure(m, 10, p - k))
    BY DEF Backwards
  <2> HIDE DEF d, y
  <2> QED BY <2>1, <2>2, <2>3 DEF j
<1>7. d \in Seq(Decimals) /\ y \in Seq(Decimals)
  BY <1>4
<1> HIDE DEF d, y
<1>8. x \in Seq(Decimals) /\ Len(x) = p /\ \A k \in 1 .. p : x[k] = d[(p - k) + 1]
  BY <1>5, <1>7, ReverseAt
<1> HIDE DEF x
<1>9. x = y
  <2>1. \A k \in 1 .. Len(x) : x[k] = y[k]
    BY <1>6, <1>8
  <2> QED BY <1>5, <1>7, <1>8, <2>1, SeqEqual
<1> QED BY <1>2, <1>3, <1>4, <1>9 DEF x, y, d

\* The digits of a size, as they should be.
LEMMA SizeRight ==
  ASSUME Out!IntWidth, NEW m \in Nat, m <= 2^(INT_BITS - 1)
  PROVE  \E p \in 1 .. INT_BITS :
           /\ p = Out!Places(m, 10, 1)
           /\ Out!digits(m) = Digits(1, m, p) /\ Out!digits(-m) = Digits(-1, m, p)
           /\ Out!Natural(m, 10, 1) = Backwards(1, m, p)
<1> DEFINE p == Out!Places(m, 10, 1)
<1>1. p \in 1 .. INT_BITS
  BY Figures10
<1>2. Out!Natural(m, 10, 1) = [k \in 1 .. p |-> Out!Figures[Out!Figure(m, 10, p - k) + 1]]
  BY DEF Out!Natural
<1>3. \A s \in {1, -1} : Out!digits(s * m) = Digits(s, m, p)
  BY DigitsAre DEF Digits
<1> HIDE DEF p
<1>4. \A k \in 1 .. p : Out!zero_plus(1 * Out!Figure(m, 10, p - k))
                          = Out!Figures[Out!Figure(m, 10, p - k) + 1]
  <2> TAKE k \in 1 .. p
  <2> DEFINE h == Out!Figure(m, 10, p - k)
  <2>1. h \in 0 .. 9
    BY <1>1, DigitsBack
  <2> HIDE DEF h
  <2>2. 1 * h = h
    BY <2>1
  <2>3. Out!zero_plus(h) = Out!Figures[h + 1]
    BY <2>1, PlainDigit
  <2> QED BY <2>2, <2>3 DEF h
<1>5. Backwards(1, m, p) = Out!Natural(m, 10, 1)
  BY <1>2, <1>4 DEF Backwards
<1>6. Out!digits(m) = Digits(1, m, p) /\ Out!digits(-m) = Digits(-1, m, p)
  <2>1. 1 * m = m /\ (-1) * m = -m
    OBVIOUS
  <2> QED BY <1>3, <2>1
<1> QED BY <1>1, <1>5, <1>6 DEF p

\* printf_int prints the number in decimal, or what it is known to print.
LEMMA IntRight ==
  ASSUME Out!IntWidth, NEW i \in Out!INT_MIN .. -Out!INT_MIN - 1
  PROVE  /\ Out!printf_int(i) = Out!Decimal(i) /\ Out!Decimal(i) \in Seq(Decimals)
<1> DEFINE top == 2^(INT_BITS - 1)
           m == IF i < 0 THEN -i ELSE i
<1>1. top \in Nat \ {0} /\ Out!INT_MIN = -top
  <2>1. INT_BITS \in Nat /\ INT_BITS - 1 \in 0 .. INT_BITS /\ Out!Powers(2, INT_BITS)
    BY DEF Out!IntWidth
  <2> QED BY <2>1, PowerType DEF Out!INT_MIN
<1> HIDE DEF top
<1>2. i \in Int /\ m \in Nat /\ m <= top
  BY <1>1
<1> HIDE DEF m
<1>3. PICK p \in 1 .. INT_BITS :
        /\ p = Out!Places(m, 10, 1)
        /\ Out!digits(m) = Digits(1, m, p) /\ Out!digits(-m) = Digits(-1, m, p)
        /\ Out!Natural(m, 10, 1) = Backwards(1, m, p)
  BY <1>2, SizeRight DEF top
<1>4. \A s \in {1, -1} :
        /\ Digits(s, m, p) \in Seq(Decimals) /\ Backwards(s, m, p) \in Seq(Decimals)
        /\ Out!Reverse(Digits(s, m, p)) = Backwards(s, m, p)
  BY <1>2, DigitsBack
<1>5. "-" \in Decimals
  BY DEF Decimals
<1> HIDE DEF Decimals
<1>6. \A d \in Seq(Decimals) : /\ d \o <<>> = d /\ d \o <<"-">> = Append(d, "-")
                               /\ <<"-">> \o d = Before("-", d) /\ Before("-", d) \in Seq(Decimals)
  BY <1>5 DEF Before
<1>7. \A s \in {1, -1} :
        /\ Out!Reverse(Append(Digits(s, m, p), "-")) = Before("-", Backwards(s, m, p))
        /\ Before("-", Backwards(s, m, p)) \in Seq(Decimals)
  <2> TAKE s \in {1, -1}
  <2> DEFINE d == Digits(s, m, p)
             y == Backwards(s, m, p)
  <2>1. d \in Seq(Decimals) /\ y \in Seq(Decimals) /\ Out!Reverse(d) = y
    BY <1>4
  <2> HIDE DEF d, y
  <2>2. Out!Reverse(Append(d, "-")) = Before("-", Out!Reverse(d))
    BY <1>5, <2>1, ReverseLast
  <2> QED BY <1>6, <2>1, <2>2 DEF d, y
<1>8. CASE i >= 0
  <2>1. m = i /\ ~ (i < 0) /\ i # Out!INT_MIN
    BY <1>1, <1>2, <1>8 DEF m
  <2>2. Out!printf_int(i) = Out!Reverse(Digits(1, m, p) \o <<>>)
    BY <1>3, <2>1 DEF Out!printf_int
  <2>3. Out!Decimal(i) = Backwards(1, m, p)
    BY <1>3, <2>1 DEF Out!Decimal
  <2> QED BY <1>4, <1>6, <2>2, <2>3
<1>9. CASE i < 0 /\ i # Out!INT_MIN
  <2>1. m = -i
    BY <1>9 DEF m
  <2>2. Out!printf_int(i) = Out!Reverse(Digits(1, m, p) \o <<"-">>)
    BY <1>3, <1>9, <2>1 DEF Out!printf_int
  <2>3. Out!Decimal(i) = <<"-">> \o Backwards(1, m, p)
    BY <1>3, <1>9, <2>1 DEF Out!Decimal
  <2> QED BY <1>4, <1>6, <1>7, <2>2, <2>3
<1>10. CASE i = Out!INT_MIN
  <2>1. m = -i /\ i < 0 /\ -m = i
    BY <1>1, <1>2, <1>10 DEF m
  <2>2. Out!printf_int(i) = Out!Reverse(Digits(-1, m, p) \o <<"-">>)
    BY <1>3, <1>10, <2>1 DEF Out!printf_int
  <2>3. Out!Decimal(i) = <<"-">> \o [k \in 1 .. p |-> Out!zero_plus(-Out!Figure(m, 10, p - k))]
    BY <1>3, <1>10, <2>1 DEF Out!Decimal
  <2>4. \A k \in 1 .. p : -Out!Figure(m, 10, p - k) = (-1) * Out!Figure(m, 10, p - k)
    <3> TAKE k \in 1 .. p
    <3>1. Out!Figure(m, 10, p - k) \in 0 .. 9
      BY <1>2, DigitsBack
    <3> QED BY <3>1
  <2>5. [k \in 1 .. p |-> Out!zero_plus(-Out!Figure(m, 10, p - k))] = Backwards(-1, m, p)
    BY <2>4 DEF Backwards
  <2> QED BY <1>4, <1>6, <1>7, <2>2, <2>3, <2>5
<1> QED BY <1>2, <1>8, <1>9, <1>10

-----------------------------------------------------------------------------
(* Every item that a program may print comes out as it should.             *)

\* What printf makes of the argument is what should be printed.
PrintedRight(it) ==
  Out!takes_argument(it) =>
    /\ Out!converted(it.kind, it.arg) = Out!Printed(it)
    /\ Out!Printed(it) \in Seq(Out!Range(Out!Printed(it)))

\* What a sequence is made of.
LEMMA OwnRange == ASSUME NEW T, NEW s \in Seq(T) PROVE s \in Seq(Out!Range(s))
<1>1. \A k \in 1 .. Len(s) : s[k] \in Out!Range(s)
  BY DEF Out!Range
<1> QED BY <1>1

\* Each conversion of printf prints its argument as it should, whatever the
\* width of an int and the argument (printf_int, printf_hex, printf_bin).
THEOREM ConvertedRight ==
  ASSUME Out!IntWidth, NEW it, Out!IsItem(it)
  PROVE  PrintedRight(it)
<1> SUFFICES ASSUME Out!takes_argument(it)
             PROVE  \E T : /\ Out!converted(it.kind, it.arg) = Out!Printed(it)
                           /\ Out!Printed(it) \in Seq(T)
  BY OwnRange DEF PrintedRight
<1>1. CASE it.kind = "c"
  <2>1. Out!converted(it.kind, it.arg) = <<it.arg>> /\ Out!Printed(it) = <<it.arg>>
    BY <1>1 DEF Out!converted, Out!Printed
  <2>2. <<it.arg>> \in Seq({it.arg})
    OBVIOUS
  <2> QED BY <2>1, <2>2
<1>2. CASE it.kind = "s"
  <2>1. Out!converted(it.kind, it.arg) = it.arg /\ Out!Printed(it) = it.arg
    BY <1>2 DEF Out!converted, Out!Printed
  <2>2. it.arg \in Seq(Out!Range(it.arg))
    BY <1>2 DEF Out!IsItem
  <2> QED BY <2>1, <2>2
<1>3. CASE it.kind \in {"i", "d"}
  <2>1. /\ Out!converted(it.kind, it.arg) = Out!printf_int(it.arg)
        /\ Out!Printed(it) = Out!Decimal(it.arg)
    BY <1>3 DEF Out!converted, Out!Printed
  <2>2. it.arg \in Out!INT_MIN .. -Out!INT_MIN - 1
    BY <1>3 DEF Out!IsItem
  <2> QED BY <2>1, <2>2, IntRight
<1>4. ASSUME it.arg \in Int PROVE it.arg % 2^INT_BITS \in Nat /\ it.arg % 2^INT_BITS < 2^INT_BITS
  <2> DEFINE s == 2^INT_BITS
  <2>1. INT_BITS \in Nat /\ INT_BITS \in 0 .. INT_BITS /\ Out!Powers(2, INT_BITS)
    BY DEF Out!IntWidth
  <2>2. s \in Nat \ {0}
    BY <2>1, PowerType
  <2> HIDE DEF s
  <2>3. it.arg % s \in 0 .. s - 1
    BY <1>4, <2>2, DivMod
  <2> QED BY <2>2, <2>3 DEF s
<1>5. CASE it.kind \in {"x", "b"}
  <2> DEFINE n == it.arg % 2^INT_BITS
  <2>1. it.arg \in Int
    BY <1>5 DEF Out!IsItem
  <2>2. n \in Nat /\ n < 2^INT_BITS
    BY <1>4, <2>1
  <2>3. it.kind = "x" => /\ Out!converted(it.kind, it.arg) = Out!printf_hex(n)
                         /\ Out!Printed(it) = Out!Natural(n, 16, INT_BITS \div 4)
    BY DEF Out!converted, Out!Printed
  <2>4. it.kind = "b" => /\ Out!converted(it.kind, it.arg) = Out!printf_bin(n)
                         /\ Out!Printed(it) = Out!Groups(n)
    BY DEF Out!converted, Out!Printed
  <2> HIDE DEF n
  <2>5. CASE it.kind = "x"
    <3> DEFINE h == Out!printf_hex(n)
               m == INT_BITS \div 4
    <3>1. h = [k \in 1 .. m |-> h[k]] /\ m \in Nat
      BY DEF Out!printf_hex, Out!IntWidth
    <3>2. h = Out!Natural(n, 16, m)
      BY <2>2, HexRight
    <3> HIDE DEF h, m
    <3>3. h \in Seq({h[k] : k \in 1 .. m})
      BY <3>1
    <3> QED BY <2>3, <2>5, <3>2, <3>3 DEF h, m
  <2>6. CASE it.kind = "b"
    BY <2>2, <2>4, <2>6, BinRight
  <2> QED BY <1>5, <2>5, <2>6
<1> QED BY <1>1, <1>2, <1>3, <1>5 DEF Out!takes_argument

-----------------------------------------------------------------------------
(* Items: what they add to the format, the arguments and the output.       *)

Item == {it \in Out!Items : Out!IsItem(it) /\ PrintedRight(it)}

Spelling == [it \in Item |-> Out!spelled(it)]
Giving == [it \in Item |-> Out!given(it)]
Printing == [it \in Item |-> Out!Printed(it)]
Line(p) == [c \in Out!Characters |-> Out!OnLine(p, c)]
Argument == {it.arg : it \in Item}
Letter == Out!Characters \union {it.kind : it \in Item}

\* The five kinds of items.
LEMMA ItemKinds ==
  ASSUME NEW it \in Item
  PROVE  \/ /\ it.c \in Out!Characters /\ it.c # "%"
            /\ Out!spelled(it) = <<it.c>> /\ Out!given(it) = <<>> /\ Out!Printed(it) = <<it.c>>
            /\ it.kind # "end"
         \/ /\ Out!spelled(it) = <<"%", "%">> /\ Out!given(it) = <<>> /\ Out!Printed(it) = <<"%">>
            /\ it.kind # "end"
         \/ /\ Out!spelled(it) = <<"%">> /\ Out!given(it) = <<>> /\ Out!Printed(it) = <<Out!NUL>>
            /\ it.kind = "end"
         \/ /\ it.c \in Out!Characters /\ it.c \notin {"%", "c", "s", "i", "d", "x", "b"}
            /\ Out!spelled(it) = <<"%", it.c>> /\ Out!given(it) = <<>>
            /\ Out!Printed(it) = <<"%", it.c>> /\ it.kind # "end"
         \/ /\ it.kind \in {"c", "s", "i", "d", "x", "b"} /\ it.kind # "end"
            /\ Out!spelled(it) = <<"%", it.kind>> /\ Out!given(it) = <<it.arg>>
            /\ Out!Printed(it) = Out!converted(it.kind, it.arg)
            /\ Out!Printed(it) \in Seq(Out!Characters)
<1> USE DEF Out!spelled, Out!given, Out!Printed, Out!takes_argument
<1>0. it \in Out!Items /\ Out!IsItem(it) /\ PrintedRight(it)
  BY DEF Item
<1>1. CASE it.kind = "text" /\ it.c # "%"
  <2>1. it.c \in Out!Characters
    BY <1>0, <1>1 DEF Out!Characters
  <2> QED BY <1>1, <2>1
<1>2. CASE it.kind = "%"
  BY <1>2
<1>3. CASE it.kind = "end"
  BY <1>3
<1>4. CASE it.kind = "other" /\ it.c \notin {"%", "c", "s", "i", "d", "x", "b"}
  <2>1. it.c \in Out!Characters
    BY <1>0, <1>4 DEF Out!Characters
  <2> QED BY <1>4, <2>1
<1>5. CASE /\ Out!takes_argument(it) /\ Out!Printed(it) \in Seq(Out!Range(Out!Printed(it)))
           /\ Out!converted(it.kind, it.arg) = Out!Printed(it)
  <2>1. it.kind \in {"c", "s", "i", "d", "x", "b"}
    BY <1>5
  <2>2. Out!spelled(it) = <<"%", it.kind>> /\ it.kind # "end"
    BY <2>1
  <2>3. Out!given(it) = <<it.arg>>
    BY <1>5
  <2>4. Out!Range(Out!Printed(it)) \subseteq Out!Characters
    <3> HIDE DEF Out!Printed, Out!takes_argument
    <3> QED BY <1>0, <1>5 DEF Out!Characters
  <2>5. Out!Printed(it) \in Seq(Out!Characters)
    <3> HIDE DEF Out!Printed
    <3> QED BY <1>5, <2>4, SeqMonotonic
  <2> QED
    <3> HIDE DEF Out!Printed, Out!spelled, Out!given
    <3> QED BY <1>5, <2>1, <2>2, <2>3, <2>5
<1>6. CASE Out!takes_argument(it)
  <2> HIDE DEF Out!Printed, Out!spelled, Out!given, Out!takes_argument
  <2> QED BY <1>0, <1>5, <1>6 DEF PrintedRight
<1>7. \/ it.kind = "text" /\ it.c # "%"
      \/ it.kind \in {"%", "end"}
      \/ it.kind = "other" /\ it.c \notin {"%", "c", "s", "i", "d", "x", "b"}
      \/ Out!takes_argument(it)
  <2> HIDE DEF Out!Printed, Out!spelled, Out!given
  <2> QED BY <1>0 DEF Out!IsItem
<1> QED
  <2> HIDE DEF Out!Printed, Out!spelled, Out!given, Out!takes_argument
  <2> QED BY <1>1, <1>2, <1>3, <1>4, <1>6, <1>7

LEMMA Letters ==
  /\ "%" \in Out!Characters /\ Out!NUL \in Out!Characters
  /\ "\n" \in Out!Characters /\ "\r" \in Out!Characters /\ "\r" # "\n"
  /\ Out!Characters \subseteq Letter
BY DEF Out!Characters, Letter

LEMMA ItemTables ==
  /\ Table(Spelling, Item, Letter)
  /\ Table(Giving, Item, Argument)
  /\ Table(Printing, Item, Out!Characters)
  /\ \A p : Table(Line(p), Out!Characters, Out!Characters)
<1>1. ASSUME NEW it \in Item
      PROVE  /\ Out!spelled(it) \in Seq(Letter) /\ Out!given(it) \in Seq(Argument)
             /\ Out!Printed(it) \in Seq(Out!Characters)
  <2>1. it.arg \in Argument
    BY DEF Argument
  <2>2. \A S : <<>> \in Seq(S) /\ \A x, y \in S : <<x>> \in Seq(S) /\ <<x, y>> \in Seq(S)
    OBVIOUS
  <2>3. "%" \in Letter /\ it.kind \in Letter /\ \A x \in Out!Characters : x \in Letter
    BY Letters DEF Letter
  <2>5. Out!spelled(it) \in Seq(Letter)
    BY <2>2, <2>3, ItemKinds
  <2>6. Out!given(it) \in Seq(Argument)
    BY <2>1, <2>2, ItemKinds
  <2>7. Out!Printed(it) \in Seq(Out!Characters)
    BY <2>2, Letters, ItemKinds
  <2> QED BY <2>5, <2>6, <2>7
<1>2. ASSUME NEW p, NEW c \in Out!Characters PROVE Out!OnLine(p, c) \in Seq(Out!Characters)
  BY Letters DEF Out!OnLine
<1> QED BY <1>1, <1>2 DEF Spelling, Giving, Printing, Line, Table

\* The operators of Output on sequences of items are spreads of these tables.
LEMMA Spreads ==
  ASSUME NEW s \in Seq(Item)
  PROVE  /\ Out!format(s) = Spread(Spelling, s)
         /\ Out!arguments(s) = Spread(Giving, s)
         /\ Out!Prints(s) = Spread(Printing, s)
<1>1. \A k \in DOMAIN s : s[k] \in Item
  OBVIOUS
<1>2. [k \in DOMAIN s |-> Out!spelled(s[k])] = [k \in DOMAIN s |-> Spelling[s[k]]]
  BY <1>1 DEF Spelling
<1>3. [k \in DOMAIN s |-> Out!given(s[k])] = [k \in DOMAIN s |-> Giving[s[k]]]
  BY <1>1 DEF Giving
<1>4. [k \in DOMAIN s |-> Out!Printed(s[k])] = [k \in DOMAIN s |-> Printing[s[k]]]
  BY <1>1 DEF Printing
<1> QED BY <1>2, <1>3, <1>4 DEF Spread, Out!format, Out!arguments, Out!Prints

LEMMA CarriedSpread ==
  ASSUME NEW p, NEW s \in Seq(Out!Characters)
  PROVE  Out!Carried(p, s) = Spread(Line(p), s)
<1>1. \A k \in DOMAIN s : s[k] \in Out!Characters
  OBVIOUS
<1>2. [k \in DOMAIN s |-> Out!OnLine(p, s[k])] = [k \in DOMAIN s |-> Line(p)[s[k]]]
  BY <1>1 DEF Line
<1> QED BY <1>2 DEF Spread, Out!Carried

\* Item by item, and character by character.
LEMMA FirstItem ==
  ASSUME NEW it \in Item, NEW more \in Seq(Item)
  PROVE  /\ Out!format(Before(it, more)) = Out!spelled(it) \o Out!format(more)
         /\ Out!arguments(Before(it, more)) = Out!given(it) \o Out!arguments(more)
         /\ Out!Prints(Before(it, more)) = Out!Printed(it) \o Out!Prints(more)
         /\ Out!format(more) \in Seq(Letter) /\ Out!arguments(more) \in Seq(Argument)
         /\ Out!Prints(more) \in Seq(Out!Characters) /\ Out!Printed(it) \in Seq(Out!Characters)
<1>1. Spelling[it] = Out!spelled(it) /\ Giving[it] = Out!given(it) /\ Printing[it] = Out!Printed(it)
  BY DEF Spelling, Giving, Printing
<1>2. Before(it, more) \in Seq(Item)
  BY DEF Before
<1>3. /\ Spread(Spelling, Before(it, more)) = Spelling[it] \o Spread(Spelling, more)
      /\ Spread(Spelling, more) \in Seq(Letter)
  BY ItemTables, SpreadFirst
<1>4. /\ Spread(Giving, Before(it, more)) = Giving[it] \o Spread(Giving, more)
      /\ Spread(Giving, more) \in Seq(Argument)
  BY ItemTables, SpreadFirst
<1>5. /\ Spread(Printing, Before(it, more)) = Printing[it] \o Spread(Printing, more)
      /\ Spread(Printing, more) \in Seq(Out!Characters) /\ Printing[it] \in Seq(Out!Characters)
  BY ItemTables, SpreadFirst
<1> QED BY <1>1, <1>2, <1>3, <1>4, <1>5, Spreads

LEMMA NoItem ==
  /\ Out!format(<<>>) = <<>> /\ Out!arguments(<<>>) = <<>> /\ Out!Prints(<<>>) = <<>>
BY FlatEmpty DEF Out!format, Out!arguments, Out!Prints

LEMMA CarriedOf ==
  ASSUME NEW p, NEW s \in Seq(Out!Characters), NEW r \in Seq(Out!Characters),
         NEW c \in Out!Characters
  PROVE  /\ Out!Carried(p, <<>>) = <<>>
         /\ Out!Carried(p, s) \in Seq(Out!Characters)
         /\ Out!Carried(p, <<c>>) = Out!OnLine(p, c)
         /\ Out!Carried(p, Join(s, r)) = Join(Out!Carried(p, s), Out!Carried(p, r))
<1>1. /\ <<>> \in Seq(Out!Characters) /\ <<c>> \in Seq(Out!Characters)
      /\ s \o r \in Seq(Out!Characters)
  OBVIOUS
<1>2. Table(Line(p), Out!Characters, Out!Characters) /\ Line(p)[c] = Out!OnLine(p, c)
  BY ItemTables DEF Line
<1>3. Spread(Line(p), <<>>) = <<>>
  BY SpreadNone
<1>4. Spread(Line(p), s) \in Seq(Out!Characters)
  BY <1>2, SpreadIn
<1>5. Spread(Line(p), <<c>>) = Line(p)[c]
  BY <1>2, SpreadOne
<1>6. Spread(Line(p), s \o r) = Spread(Line(p), s) \o Spread(Line(p), r)
  BY <1>2, SpreadCat
<1> QED BY <1>1, <1>2, <1>3, <1>4, <1>5, <1>6, CarriedSpread DEF Join

LEMMA ExpectedOf ==
  ASSUME NEW p, NEW cs \in Seq(Seq(Item)), NEW n \in Nat, n < Len(cs)
  PROVE  /\ Out!Expected(p, cs, 0) = <<>>
         /\ Out!Expected(p, cs, n) \in Seq(Out!Characters)
         /\ Out!Expected(p, cs, n + 1)
              = Out!Expected(p, cs, n) \o Out!Carried(p, Out!Prints(cs[n + 1]))
<1> DEFINE E(k) == Out!Carried(p, Out!Prints(cs[k]))
           S == [k \in 1 .. n |-> E(k)]
           R == [k \in 1 .. n + 1 |-> E(k)]
<1>1. ASSUME NEW k \in 1 .. n + 1 PROVE E(k) \in Seq(Out!Characters)
  <2>1. cs[k] \in Seq(Item)
    OBVIOUS
  <2>2. Out!Prints(cs[k]) \in Seq(Out!Characters)
    BY <2>1, Spreads, SpreadIn, ItemTables
  <2> QED BY <2>2, CarriedSpread, SpreadIn, ItemTables
<1> HIDE DEF E
<1>2. /\ S \in Seq(Seq(Out!Characters)) /\ Len(S) = n
      /\ R \in Seq(Seq(Out!Characters)) /\ Len(R) = n + 1
  BY <1>1
<1>3. R = Append(S, E(n + 1))
  <2>1. n + 1 \in 1 .. n + 1
    OBVIOUS
  <2>2. /\ Append(S, E(n + 1)) \in Seq(Seq(Out!Characters)) /\ Len(Append(S, E(n + 1))) = n + 1
        /\ \A k \in 1 .. n + 1 : Append(S, E(n + 1))[k] = E(k)
    BY <1>1, <1>2, <2>1, AppendProperties
  <2>3. \A k \in 1 .. n + 1 : R[k] = E(k)
    OBVIOUS
  <2> HIDE DEF S, R
  <2> QED BY <1>2, <2>2, <2>3, SeqEqual
<1>4. Out!Expected(p, cs, n) = Out!FlattenSeq(S) /\ Out!Expected(p, cs, n + 1) = Out!FlattenSeq(R)
  BY DEF Out!Expected, E
<1>5. Out!Expected(p, cs, 0) = <<>>
  <2>1. [k \in 1 .. 0 |-> E(k)] = <<>>
    OBVIOUS
  <2> QED BY <2>1, FlatEmpty DEF Out!Expected, E
<1>6. E(n + 1) \in Seq(Out!Characters)
  BY <1>1
<1> HIDE DEF S, R
<1>7. Out!FlattenSeq(R) = Out!FlattenSeq(S) \o E(n + 1) /\ Out!FlattenSeq(S) \in Seq(Out!Characters)
  BY <1>2, <1>3, <1>6, FlatAppend, FlatIn
<1> QED BY <1>4, <1>5, <1>7 DEF E

-----------------------------------------------------------------------------
(* A call of printf, item by item.                                         *)

\* A % that ends the format is the last item.
EndLast(s) == \A j \in 1 .. Len(s) : s[j].kind = "end" => j = Len(s)

LEMMA Splits ==
  ASSUME NEW s \in Seq(Item), s # <<>>, EndLast(s)
  PROVE  \E it \in Item, more \in Seq(Item) :
           s = Before(it, more) /\ EndLast(more) /\ (it.kind = "end" => more = <<>>)
<1>1. /\ Head(s) \in Item /\ Tail(s) \in Seq(Item) /\ Len(s) \in Nat \ {0}
      /\ Len(Tail(s)) = Len(s) - 1 /\ \A i \in 1 .. Len(Tail(s)) : Tail(s)[i] = s[i + 1]
  BY HeadTailProperties, EmptySeq
<1>2. s = Before(Head(s), Tail(s))
  <2>1. <<Head(s)>> \o Tail(s) \in Seq(Item) /\ Len(<<Head(s)>> \o Tail(s)) = Len(s)
    BY <1>1
  <2>2. \A i \in 1 .. Len(s) : (<<Head(s)>> \o Tail(s))[i] = s[i]
    BY <1>1
  <2> QED BY <2>1, <2>2, SeqEqual DEF Before
<1>3. EndLast(Tail(s))
  <2> SUFFICES ASSUME NEW j \in 1 .. Len(Tail(s)), Tail(s)[j].kind = "end"
               PROVE  j = Len(Tail(s))
    BY DEF EndLast
  <2>1. j + 1 \in 1 .. Len(s) /\ s[j + 1].kind = "end"
    BY <1>1
  <2>2. j + 1 = Len(s)
    BY <2>1 DEF EndLast
  <2>3. j \in Nat /\ Len(s) \in Nat /\ Len(Tail(s)) = Len(s) - 1
    BY <1>1
  <2> QED BY <2>2, <2>3
<1>4. Head(s).kind = "end" => Tail(s) = <<>>
  <2> SUFFICES ASSUME Head(s).kind = "end" PROVE Tail(s) = <<>>
    OBVIOUS
  <2>1. Head(s) = s[1] /\ 1 \in 1 .. Len(s)
    BY <1>1
  <2>2. Len(s) = 1
    BY <2>1 DEF EndLast
  <2>3. Len(Tail(s)) = 0
    BY <1>1, <2>2
  <2> QED BY <1>1, <2>3, EmptySeq
<1> QED BY <1>1, <1>2, <1>3, <1>4

LEMMA Pair == ASSUME NEW T, NEW a \in T, NEW b \in T PROVE Before(a, <<b>>) = <<a, b>>
<1>1. /\ <<a>> \in Seq(T) /\ <<b>> \in Seq(T) /\ <<a, b>> \in Seq(T)
      /\ Len(<<a>>) = 1 /\ Len(<<b>>) = 1
  OBVIOUS
<1>2. <<a>> \o <<b>> \in Seq(T) /\ Len(<<a>> \o <<b>>) = 2
  BY <1>1, ConcatProperties
<1>3. \A i \in 1 .. 2 : (<<a>> \o <<b>>)[i] = <<a, b>>[i]
  OBVIOUS
<1> DEFINE x == <<a>> \o <<b>>
           y == <<a, b>>
<1>4. x \in Seq(T) /\ y \in Seq(T) /\ Len(x) = Len(y) /\ \A i \in 1 .. Len(x) : x[i] = y[i]
  BY <1>1, <1>2, <1>3
<1> HIDE DEF x, y
<1>5. x = y
  BY <1>4, SeqEqual
<1> QED BY <1>5 DEF Before, x, y

\* The format ends with the items.
LEMMA FormatEnds ==
  ASSUME NEW s \in Seq(Item), EndLast(s), Out!format(s) = <<>>
  PROVE  s = <<>>
<1> SUFFICES ASSUME s # <<>> PROVE FALSE
  OBVIOUS
<1>1. PICK it \in Item, more \in Seq(Item) : s = Before(it, more)
  BY Splits
<1>2. Out!spelled(it) \o Out!format(more) = <<>>
  BY <1>1, FirstItem
<1>i. Out!format(more) \in Seq(Letter)
  BY FirstItem
<1>3. CASE \E a : Out!spelled(it) = <<a>>
  <2>1. PICK a : Out!spelled(it) = <<a>>
    BY <1>3
  <2>2. Before(a, Out!format(more)) # <<>>
    BY <1>i, One
  <2> QED BY <1>2, <2>1, <2>2 DEF Before
<1>4. CASE \E a, b : Out!spelled(it) = <<a, b>>
  <2>1. PICK a, b : Out!spelled(it) = <<a, b>>
    BY <1>4
  <2>2. BeforeBoth(a, b, Out!format(more)) # <<>>
    BY <1>i, Two
  <2> QED BY <1>2, <2>1, <2>2 DEF BeforeBoth
<1> QED BY <1>3, <1>4, ItemKinds

\* A turn of the loop takes one item.
LEMMA Scan ==
  ASSUME NEW it \in Item, NEW more \in Seq(Item), it.kind = "end" => more = <<>>,
         p_fmt = Out!format(Before(it, more)), p_args = Out!arguments(Before(it, more)),
         Out!printf_scan
  PROVE  /\ p_fmt' = Out!format(more) /\ p_args' = Out!arguments(more)
         /\ p_rest' = Out!Printed(it)
<1> DEFINE G == Out!format(more)
           A == Out!arguments(more)
<1>1. /\ p_fmt = Out!spelled(it) \o G /\ p_args = Out!given(it) \o A
      /\ G \in Seq(Letter) /\ A \in Seq(Argument)
  BY FirstItem
<1>2. <<>> \o A = A
  BY <1>1, ConcatEmptySeq
<1>3. more = <<>> => G = <<>>
  BY NoItem
<1>4. IF p_fmt[1] # "%"
      THEN p_rest' = <<p_fmt[1]>> /\ p_fmt' = Tail(p_fmt) /\ p_args' = p_args
      ELSE IF Len(p_fmt) = 1 THEN p_rest' = <<Out!NUL>> /\ p_fmt' = <<>> /\ p_args' = p_args
      ELSE /\ p_fmt' = Tail(Tail(p_fmt))
           /\ IF p_fmt[2] \in {"c", "s", "i", "d", "x", "b"}
              THEN p_rest' = Out!converted(p_fmt[2], p_args[1]) /\ p_args' = Tail(p_args)
              ELSE /\ p_rest' = (IF p_fmt[2] = "%" THEN <<"%">> ELSE <<"%", p_fmt[2]>>)
                   /\ p_args' = p_args
  BY DEF Out!printf_scan
<1> HIDE DEF G, A
<1>5. CASE /\ it.c \in Out!Characters /\ it.c # "%"
           /\ Out!spelled(it) = <<it.c>> /\ Out!given(it) = <<>> /\ Out!Printed(it) = <<it.c>>
  <2>0. p_fmt = Before(it.c, G)
    BY <1>1, <1>5 DEF Before
  <2>1. p_fmt[1] = it.c /\ Tail(p_fmt) = G /\ p_args = A
    BY <1>1, <1>2, <1>5, <2>0, One
  <2> QED BY <1>4, <1>5, <2>1 DEF G, A
<1>6. CASE Out!spelled(it) = <<"%", "%">> /\ Out!given(it) = <<>> /\ Out!Printed(it) = <<"%">>
  <2>0. p_fmt = BeforeBoth("%", "%", G)
    BY <1>1, <1>6 DEF BeforeBoth
  <2>1. p_fmt[1] = "%" /\ p_fmt[2] = "%" /\ Len(p_fmt) # 1 /\ Tail(Tail(p_fmt)) = G /\ p_args = A
    BY <1>1, <1>2, <1>6, <2>0, Two
  <2> QED BY <1>4, <1>6, <2>1 DEF G, A
<1>7. CASE /\ Out!spelled(it) = <<"%">> /\ Out!given(it) = <<>> /\ Out!Printed(it) = <<Out!NUL>>
           /\ it.kind = "end"
  <2>1. p_fmt = <<"%">> /\ G = <<>> /\ p_args = A
    BY <1>1, <1>2, <1>3, <1>7
  <2>2. p_fmt[1] = "%" /\ Len(p_fmt) = 1
    BY <2>1
  <2> QED BY <1>4, <1>7, <2>1, <2>2 DEF G, A
<1>8. CASE /\ it.c \notin {"%", "c", "s", "i", "d", "x", "b"}
           /\ Out!spelled(it) = <<"%", it.c>> /\ Out!given(it) = <<>>
           /\ Out!Printed(it) = <<"%", it.c>>
  <2>0. p_fmt = BeforeBoth("%", it.c, G)
    BY <1>1, <1>8 DEF BeforeBoth
  <2>1. p_fmt[1] = "%" /\ p_fmt[2] = it.c /\ Len(p_fmt) # 1 /\ Tail(Tail(p_fmt)) = G /\ p_args = A
    BY <1>1, <1>2, <1>8, <2>0, Two
  <2> QED BY <1>4, <1>8, <2>1 DEF G, A
<1>9. CASE /\ it.kind \in {"c", "s", "i", "d", "x", "b"}
           /\ Out!spelled(it) = <<"%", it.kind>> /\ Out!given(it) = <<it.arg>>
           /\ Out!Printed(it) = Out!converted(it.kind, it.arg)
  <2>0. p_fmt = BeforeBoth("%", it.kind, G)
    BY <1>1, <1>9 DEF BeforeBoth
  <2>3. p_args = Before(it.arg, A)
    BY <1>1, <1>9 DEF Before
  <2>1. p_fmt[1] = "%" /\ p_fmt[2] = it.kind /\ Len(p_fmt) # 1 /\ Tail(Tail(p_fmt)) = G
    BY <1>1, <2>0, Two
  <2>2. p_args[1] = it.arg /\ Tail(p_args) = A
    BY <1>1, <2>3, One
  <2> QED BY <1>4, <1>9, <2>1, <2>2 DEF G, A
<1> QED BY <1>5, <1>6, <1>7, <1>8, <1>9, ItemKinds

-----------------------------------------------------------------------------

\* What the character in stdio_write_char still puts on the line,
Pending(p, c) == IF c = Out!none THEN <<>> ELSE Out!OnLine(p, c)

\* and what is to follow what the device has: the character, what is left of the
\* conversion, and of the call.
Ahead(p, c, r, s) == Pending(p, c) \o (Out!Carried(p, r) \o Out!Carried(p, Out!Prints(s)))

OutputInv ==
  /\ p_calls \in Calls /\ p_begun \in 0 .. Len(p_calls)
  /\ p_wire \in Seq(Out!Characters) /\ p_device \in Seq(Out!Characters)
  /\ p_rest \in Seq(Out!Characters) /\ p_next \in Out!Characters \union {Out!none}
  /\ \E s \in Seq(Item) :
       /\ EndLast(s) /\ p_fmt = Out!format(s) /\ p_args = Out!arguments(s)
       /\ p_wire \o (p_device \o Ahead(p_port, p_next, p_rest, s))
            = Out!Expected(p_port, p_calls, p_begun)

\* The calls of a program, when they are well formed.
LEMMA WellFormedCall ==
  ASSUME Out!IntWidth, Out!CallsWellFormed, NEW cs \in Calls
  PROVE  /\ cs \in Seq(Seq(Item)) /\ Out!none \notin Out!Characters
         /\ \A k \in 1 .. Len(cs) : EndLast(cs[k])
<1>1. Item = Out!Items
  BY ConvertedRight DEF Out!CallsWellFormed, Item
<1>2. cs \in Seq(Seq(Item))
  BY <1>1 DEF Out!CallsWellFormed
<1>3. \A k \in DOMAIN cs : \A j \in DOMAIN cs[k] : cs[k][j].kind = "end" => j = Len(cs[k])
  BY DEF Out!CallsWellFormed
<1>4. ASSUME NEW k \in 1 .. Len(cs) PROVE EndLast(cs[k])
  <2>1. cs[k] \in Seq(Item) /\ k \in DOMAIN cs
    BY <1>2
  <2>2. DOMAIN cs[k] = 1 .. Len(cs[k])
    BY <2>1
  <2> QED BY <1>3, <2>1, <2>2 DEF EndLast
<1> QED BY <1>2, <1>4 DEF Out!CallsWellFormed

LEMMA AheadParts ==
  ASSUME NEW p, NEW c \in Out!Characters \union {Out!none},
         NEW r \in Seq(Out!Characters), NEW s \in Seq(Item)
  PROVE  /\ Pending(p, c) \in Seq(Out!Characters)
         /\ Out!Carried(p, r) \in Seq(Out!Characters)
         /\ Out!Prints(s) \in Seq(Out!Characters)
         /\ Out!Carried(p, Out!Prints(s)) \in Seq(Out!Characters)
         /\ Ahead(p, c, r, s) \in Seq(Out!Characters)
<1>1. Pending(p, c) \in Seq(Out!Characters)
  <2>1. c # Out!none => c \in Out!Characters
    OBVIOUS
  <2> QED BY <2>1, Letters DEF Pending, Out!OnLine
<1>2. Out!Carried(p, r) \in Seq(Out!Characters)
  BY CarriedOf, Letters
<1>3. Out!Prints(s) \in Seq(Out!Characters)
  BY Spreads, SpreadIn, ItemTables
<1>4. Out!Carried(p, Out!Prints(s)) \in Seq(Out!Characters)
  BY <1>3, CarriedOf, Letters
<1>5. Ahead(p, c, r, s) \in Seq(Out!Characters)
  BY <1>1, <1>2, <1>4, ConcatProperties DEF Ahead
<1> QED BY <1>1, <1>2, <1>3, <1>4, <1>5

LEMMA InitInv ==
  ASSUME Out!IntWidth, Out!CallsWellFormed, Out!Init
  PROVE  OutputInv
<1>1. /\ p_calls \in Calls /\ p_begun = 0 /\ p_fmt = <<>> /\ p_args = <<>> /\ p_rest = <<>>
      /\ p_next = Out!none /\ p_device = <<>> /\ p_wire = <<>>
  BY DEF Out!Init
<1>2. p_calls \in Seq(Seq(Item))
  BY <1>1, WellFormedCall
<1>3. Out!Expected(p_port, p_calls, 0) = <<>>
  <2>1. [k \in 1 .. 0 |-> Out!Carried(p_port, Out!Prints(p_calls[k]))] = <<>>
    OBVIOUS
  <2> QED BY <2>1, FlatEmpty DEF Out!Expected
<1>4. Ahead(p_port, p_next, p_rest, <<>>) = <<>>
  <2>1. Out!Carried(p_port, <<>>) = <<>>
    BY CarriedOf, Letters, EmptySeq
  <2>2. Pending(p_port, p_next) = <<>>
    BY <1>1 DEF Pending
  <2> QED BY <1>1, <2>1, <2>2, NoItem DEF Ahead
<1>5. EndLast(<<>>) /\ <<>> \in Seq(Item) /\ <<>> \in Seq(Out!Characters)
  BY DEF EndLast
<1>6. p_begun \in 0 .. Len(p_calls)
  BY <1>1, <1>2
<1>7. p_wire \o (p_device \o Ahead(p_port, p_next, p_rest, <<>>)) = <<>>
  BY <1>1, <1>4
<1> QED BY <1>1, <1>3, <1>5, <1>6, <1>7, NoItem DEF OutputInv

-----------------------------------------------------------------------------
(* Steps, and the theorem.                                                 *)

Sent(w, d, w2, d2) == w2 = Append(w, Head(d)) /\ d2 = Tail(d)

\* A character that goes into the device, or out of it, was next.
LEMMA IntoDevice ==
  ASSUME NEW T, NEW d \in Seq(T), NEW c \in T, NEW q \in Seq(T), NEW z \in Seq(T)
  PROVE  Chain(Append(d, c), q, z) = Chain(d, Before(c, q), z)
<1> DEFINE e == <<c>>
<1>1. e \in Seq(T)
  OBVIOUS
<1>2. Append(d, c) = d \o e
  BY AppendIsConcat
<1> HIDE DEF e
<1>3. Chain(Join(d, e), q, z) = Chain(d, Join(e, q), z)
  BY <1>1, Rejoined
<1> QED BY <1>2, <1>3 DEF e, Before, Join

LEMMA OutOfDevice ==
  ASSUME NEW T, NEW w \in Seq(T), NEW d \in Seq(T), d # <<>>, NEW z \in Seq(T),
         NEW w2, NEW d2, Sent(w, d, w2, d2)
  PROVE  Chain(w2, d2, z) = Chain(w, d, z)
<1> DEFINE h == <<Head(d)>>
           t == Tail(d)
<1>1. Head(d) \in T /\ t \in Seq(T)
  BY HeadTailProperties
<1>2. h \in Seq(T)
  BY <1>1
<1>3. d = h \o t
  OBVIOUS
<1>4. w2 = w \o h /\ d2 = t
  BY <1>1, AppendIsConcat DEF Sent
<1> HIDE DEF h, t
<1>5. Chain(Join(w, h), t, z) = Chain(w, Join(h, t), z)
  BY <1>1, <1>2, Rejoined
<1> QED BY <1>3, <1>4, <1>5 DEF Join

LEMMA StepInv ==
  ASSUME Out!IntWidth, Out!CallsWellFormed, OutputInv, [Out!Next]_Out!vars
  PROVE  OutputInv'
<1> DEFINE C == Out!Characters
           E == Out!Expected(p_port, p_calls, p_begun)
<1>0. PICK s \in Seq(Item) :
        /\ EndLast(s) /\ p_fmt = Out!format(s) /\ p_args = Out!arguments(s)
        /\ p_wire \o (p_device \o Ahead(p_port, p_next, p_rest, s)) = E
  BY DEF OutputInv
<1>t. /\ p_calls \in Calls /\ p_begun \in 0 .. Len(p_calls)
      /\ p_wire \in Seq(C) /\ p_device \in Seq(C)
      /\ p_rest \in Seq(C) /\ p_next \in C \union {Out!none}
  BY DEF OutputInv
<1>w. /\ p_calls \in Seq(Seq(Item)) /\ Out!none \notin C
      /\ \A k \in 1 .. Len(p_calls) : EndLast(p_calls[k])
  BY <1>t, WellFormedCall
<1>c. ASSUME NEW r \in Seq(Item), EndLast(r), p_fmt' = Out!format(r), p_args' = Out!arguments(r),
             p_calls' = p_calls, p_begun' = p_begun, p_port' = p_port,
             p_wire' \in Seq(C), p_device' \in Seq(C), p_rest' \in Seq(C),
             p_next' \in C \union {Out!none},
             p_wire' \o (p_device' \o Ahead(p_port, p_next', p_rest', r)) = E
      PROVE  OutputInv'
  <2>1. \E x \in Seq(Item) :
          /\ EndLast(x) /\ p_fmt' = Out!format(x) /\ p_args' = Out!arguments(x)
          /\ p_wire' \o (p_device' \o Ahead(p_port', p_next', p_rest', x))
               = Out!Expected(p_port', p_calls', p_begun')
    BY <1>c
  <2> QED BY <1>c, <1>t, <2>1 DEF OutputInv
<1>e. \A q : Out!Carried(q, <<>>) = <<>>
  BY CarriedOf, Letters, EmptySeq
<1>1. CASE Out!printf
  <2>1. /\ p_fmt = <<>> /\ p_rest = <<>> /\ p_next = Out!none /\ p_begun < Len(p_calls)
        /\ p_begun' = p_begun + 1
        /\ p_fmt' = Out!format(p_calls[p_begun + 1])
        /\ p_args' = Out!arguments(p_calls[p_begun + 1])
        /\ UNCHANGED <<p_port, p_calls, p_rest, p_next, p_device, p_wire>>
    BY <1>1 DEF Out!printf, Out!idle
  <2> DEFINE r == p_calls[p_begun + 1]
             X == Out!Carried(p_port, Out!Prints(r))
  <2>2. p_begun \in Nat /\ p_begun + 1 \in 1 .. Len(p_calls) /\ r \in Seq(Item) /\ EndLast(r)
    BY <1>t, <1>w, <2>1
  <2>3. s = <<>>
    BY <1>0, <2>1, FormatEnds
  <2>4. Pending(p_port, p_next) = <<>> /\ Out!Carried(p_port, p_rest) = <<>>
    BY <1>e, <2>1 DEF Pending
  <2>5. p_wire \o p_device = E
    <3>1. Ahead(p_port, p_next, p_rest, s) = <<>>
      BY <1>e, <2>3, <2>4, NoItem DEF Ahead
    <3> QED BY <1>0, <1>t, <3>1, ConcatEmptySeq
  <2>6. X \in Seq(C) /\ Ahead(p_port, p_next, p_rest, r) = X
    <3>1. X \in Seq(C)
      BY <1>t, <2>2, AheadParts
    <3> HIDE DEF X
    <3>2. <<>> \o (<<>> \o X) = X
      BY <3>1, ConcatEmptySeq
    <3> QED BY <2>4, <3>1, <3>2 DEF Ahead, X
  <2>7. Out!Expected(p_port, p_calls, p_begun + 1) = E \o X
    BY <1>w, <2>1, <2>2, ExpectedOf
  <2>8. p_wire \o (p_device \o Ahead(p_port, p_next, p_rest, r))
          = Out!Expected(p_port, p_calls, p_begun + 1)
    <3> HIDE DEF X, E
    <3>1. Join(Join(p_wire, p_device), X) = Chain(p_wire, p_device, X)
      BY <1>t, <2>6, Associative
    <3> QED BY <2>5, <2>6, <2>7, <3>1 DEF Join, Chain
  <2>9. \E x \in Seq(Item) :
          /\ EndLast(x) /\ p_fmt' = Out!format(x) /\ p_args' = Out!arguments(x)
          /\ p_wire' \o (p_device' \o Ahead(p_port', p_next', p_rest', x))
               = Out!Expected(p_port', p_calls', p_begun')
    BY <2>1, <2>2, <2>8
  <2>10. p_begun' \in 0 .. Len(p_calls)
    BY <2>1, <2>2
  <2> QED BY <1>t, <2>1, <2>9, <2>10 DEF OutputInv
<1>2. CASE Out!printf_scan
  <2>1. /\ p_fmt # <<>> /\ p_rest = <<>> /\ p_next = Out!none
        /\ UNCHANGED <<p_port, p_calls, p_begun, p_next, p_device, p_wire>>
    BY <1>2 DEF Out!printf_scan
  <2>2. s # <<>>
    BY <1>0, <2>1, NoItem
  <2>3. PICK it \in Item, more \in Seq(Item) :
          s = Before(it, more) /\ EndLast(more) /\ (it.kind = "end" => more = <<>>)
    BY <1>0, <2>2, Splits
  <2>4. p_fmt' = Out!format(more) /\ p_args' = Out!arguments(more) /\ p_rest' = Out!Printed(it)
    BY <1>0, <1>2, <2>3, Scan
  <2> DEFINE A == Out!Printed(it)
             B == Out!Prints(more)
  <2>5. A \in Seq(C) /\ B \in Seq(C) /\ Out!Prints(s) = A \o B
    BY <2>3, FirstItem
  <2>6. Ahead(p_port, p_next, p_rest, s) = Ahead(p_port, p_next, A, more)
    <3> HIDE DEF A
    <3> HIDE DEF B
    <3>0. Out!Carried(p_port, Join(A, B)) = Join(Out!Carried(p_port, A), Out!Carried(p_port, B))
      BY <2>5, CarriedOf, Letters
    <3>1. Out!Carried(p_port, Out!Prints(s)) = Out!Carried(p_port, A) \o Out!Carried(p_port, B)
      BY <2>5, <3>0 DEF Join
    <3>2. Out!Carried(p_port, Out!Prints(s)) \in Seq(C)
      BY <1>t, AheadParts
    <3>3. <<>> \o Out!Carried(p_port, Out!Prints(s)) = Out!Carried(p_port, Out!Prints(s))
      BY <3>2, ConcatEmptySeq
    <3> QED BY <1>e, <2>1, <3>1, <3>3 DEF Ahead, B
  <2> QED BY <1>0, <1>t, <1>c, <2>1, <2>3, <2>4, <2>5, <2>6
<1>3. CASE Out!printf_putchar
  <2>1. /\ p_rest # <<>> /\ p_next = Out!none /\ p_next' = Head(p_rest) /\ p_rest' = Tail(p_rest)
        /\ UNCHANGED <<p_port, p_calls, p_begun, p_fmt, p_args, p_device, p_wire>>
    BY <1>3 DEF Out!printf_putchar
  <2> DEFINE h == <<Head(p_rest)>>
             u == Tail(p_rest)
             X == Out!Carried(p_port, Out!Prints(s))
  <2>2. Head(p_rest) \in C /\ u \in Seq(C)
    BY <1>t, <2>1, HeadTailProperties
  <2>3. h \in Seq(C) /\ p_rest = h \o u
    BY <1>t, <2>1, <2>2
  <2>4. Out!Carried(p_port, h) = Out!OnLine(p_port, Head(p_rest))
    BY <1>t, <2>2, CarriedOf
  <2> HIDE DEF h, u
  <2>5. Out!Carried(p_port, p_rest) = Join(Out!Carried(p_port, h), Out!Carried(p_port, u))
    <3>1. p_rest = Join(h, u)
      BY <2>3 DEF Join
    <3>2. Out!Carried(p_port, Join(h, u)) = Join(Out!Carried(p_port, h), Out!Carried(p_port, u))
      BY <2>2, <2>3, CarriedOf
    <3> QED BY <3>1, <3>2
  <2>6. /\ Pending(p_port, p_next') = Out!OnLine(p_port, Head(p_rest))
        /\ Pending(p_port, p_next) = <<>>
    BY <1>w, <2>1, <2>2 DEF Pending
  <2>7. Ahead(p_port, p_next, p_rest, s) = Ahead(p_port, p_next', p_rest', s)
    <3>1. X \in Seq(C) /\ Out!Carried(p_port, h) \in Seq(C) /\ Out!Carried(p_port, u) \in Seq(C)
          /\ Out!Carried(p_port, p_rest) \in Seq(C)
      BY <1>t, <2>2, <2>3, AheadParts, CarriedOf
    <3> HIDE DEF X
    <3>2. Join(Join(Out!Carried(p_port, h), Out!Carried(p_port, u)), X)
            = Chain(Out!Carried(p_port, h), Out!Carried(p_port, u), X)
      BY <3>1, Associative
    <3>3. <<>> \o (Out!Carried(p_port, p_rest) \o X) = Out!Carried(p_port, p_rest) \o X
      BY <3>1, ConcatProperties, ConcatEmptySeq
    <3> QED BY <2>1, <2>4, <2>5, <2>6, <3>2, <3>3 DEF Ahead, X, u, Join, Chain
  <2> QED BY <1>0, <1>t, <1>c, <2>1, <2>2, <2>7 DEF u
<1>4. CASE Out!stdio_write_char
  <2>1. /\ p_next # Out!none /\ p_device' = Append(p_device, p_next)
        /\ p_next' = IF p_port # "ovp_arm9" /\ p_next = "\n" THEN "\r" ELSE Out!none
        /\ UNCHANGED <<p_port, p_calls, p_begun, p_fmt, p_args, p_rest, p_wire>>
    BY <1>4 DEF Out!stdio_write_char
  <2>2. p_next \in C /\ p_next' \in C \union {Out!none} /\ p_device' \in Seq(C)
    BY <1>t, <2>1, Letters, AppendProperties
  <2> DEFINE q == Pending(p_port, p_next')
             z == Out!Carried(p_port, p_rest) \o Out!Carried(p_port, Out!Prints(s))
  <2>3. Pending(p_port, p_next) = Before(p_next, q)
    <3>1. CASE p_port # "ovp_arm9" /\ p_next = "\n"
      <4>1. p_next' = "\r" /\ "\r" # Out!none /\ Out!OnLine(p_port, "\r") = <<"\r">>
        BY <1>w, <2>1, <3>1, Letters DEF Out!OnLine
      <4>2. q = <<"\r">> /\ Pending(p_port, p_next) = <<"\n", "\r">>
        BY <2>1, <3>1, <4>1 DEF Pending, Out!OnLine
      <4>3. Before("\n", <<"\r">>) = <<"\n", "\r">>
        BY Pair, Letters
      <4> QED BY <3>1, <4>2, <4>3
    <3>2. CASE ~ (p_port # "ovp_arm9" /\ p_next = "\n")
      <4>1. q = <<>> /\ Pending(p_port, p_next) = <<p_next>>
        BY <2>1, <3>2 DEF Pending, Out!OnLine
      <4>2. <<p_next>> \o <<>> = <<p_next>>
        OBVIOUS
      <4> QED BY <4>1, <4>2 DEF Before
    <3> QED BY <3>1, <3>2
  <2>4. q \in Seq(C) /\ z \in Seq(C)
    <3>1. q \in Seq(C)
      BY <1>t, <2>2, AheadParts
    <3>2. Out!Carried(p_port, p_rest) \in Seq(C) /\ Out!Carried(p_port, Out!Prints(s)) \in Seq(C)
      BY <1>t, AheadParts
    <3> QED BY <3>1, <3>2, ConcatProperties
  <2>5. Chain(Append(p_device, p_next), q, z) = Chain(p_device, Before(p_next, q), z)
    <3> HIDE DEF q, z
    <3> QED BY <1>t, <2>2, <2>4, IntoDevice
  <2>6. p_device' \o Ahead(p_port, p_next', p_rest', s)
          = p_device \o Ahead(p_port, p_next, p_rest, s)
    BY <2>1, <2>3, <2>5 DEF Ahead, Chain
  <2>7. p_wire' \o (p_device' \o Ahead(p_port, p_next', p_rest', s)) = E
    BY <1>0, <2>1, <2>6
  <2> QED BY <1>0, <1>t, <1>c, <2>1, <2>2, <2>7
<1>5. CASE Out!sends
  <2>1. /\ p_device # <<>> /\ p_wire' = Append(p_wire, Head(p_device)) /\ p_device' = Tail(p_device)
        /\ UNCHANGED <<p_port, p_calls, p_begun, p_fmt, p_args, p_rest, p_next>>
    BY <1>5 DEF Out!sends
  <2>2. p_wire' \in Seq(C) /\ p_device' \in Seq(C)
    BY <1>t, <2>1, HeadTailProperties, AppendProperties
  <2>3. Ahead(p_port, p_next, p_rest, s) \in Seq(C)
    BY <1>t, AheadParts
  <2> DEFINE z == Ahead(p_port, p_next, p_rest, s)
  <2>4. Chain(p_wire', p_device', z) = Chain(p_wire, p_device, z)
    <3>1. Sent(p_wire, p_device, p_wire', p_device')
      BY <2>1 DEF Sent
    <3> HIDE DEF z
    <3>2. p_device # <<>> /\ z \in Seq(C)
      BY <2>1, <2>3 DEF z
    <3> QED BY <1>t, <3>1, <3>2, OutOfDevice
  <2>5. p_wire' \o (p_device' \o z) = E
    BY <1>0, <2>1, <2>4 DEF Chain
  <2> QED BY <1>0, <1>t, <1>c, <2>1, <2>2, <2>5
<1>6. CASE UNCHANGED Out!vars
  BY <1>0, <1>t, <1>c, <1>6 DEF Out!vars
<1> QED BY <1>1, <1>2, <1>3, <1>4, <1>5, <1>6 DEF Out!Next, Out!finished

\* The line is as expected, and complete when nothing is on its way.
LEMMA InvInOrder ==
  ASSUME Out!IntWidth, Out!CallsWellFormed, OutputInv
  PROVE  OutputInOrder
<1> DEFINE C == Out!Characters
           E == Out!Expected(p_port, p_calls, p_begun)
           w == p_wire \o p_device
<1>1. PICK s \in Seq(Item) :
        /\ EndLast(s) /\ p_fmt = Out!format(s)
        /\ p_wire \o (p_device \o Ahead(p_port, p_next, p_rest, s)) = E
  BY DEF OutputInv
<1>2. /\ p_wire \in Seq(C) /\ p_device \in Seq(C)
      /\ p_rest \in Seq(C) /\ p_next \in C \union {Out!none}
  BY DEF OutputInv
<1> DEFINE A == Ahead(p_port, p_next, p_rest, s)
<1>3. A \in Seq(C) /\ w \in Seq(C)
  BY <1>2, AheadParts, ConcatProperties
<1>4. E = w \o A
  <2>1. p_wire \o (p_device \o A) = E
    BY <1>1
  <2> HIDE DEF A, E
  <2>2. Join(Join(p_wire, p_device), A) = Chain(p_wire, p_device, A)
    BY <1>2, <1>3, Associative
  <2> QED BY <2>1, <2>2 DEF Join, Chain
<1>5. Out!IsPrefix(w, E)
  <2> HIDE DEF A, E, w
  <2>1. Len(w) \in Nat /\ Len(A) \in Nat /\ E \in Seq(C) /\ Len(E) = Len(w) + Len(A)
    BY <1>3, <1>4, LenProperties, ConcatProperties
  <2>2. \A i \in 1 .. Len(w) : E[i] = w[i]
    BY <1>3, <1>4, <2>1, ConcatProperties
  <2>3. SubSeq(w, 1, Len(w)) = SubSeq(E, 1, Len(w))
    BY <1>3, <2>1, <2>2
  <2> QED BY <2>1, <2>3 DEF Out!IsPrefix
<1>6. ASSUME Out!idle PROVE w = E
  <2>1. p_fmt = <<>> /\ p_rest = <<>> /\ p_next = Out!none
    BY <1>6 DEF Out!idle
  <2>2. s = <<>>
    BY <1>1, <2>1, FormatEnds
  <2>3. Out!Carried(p_port, <<>>) = <<>>
    BY CarriedOf, Letters, EmptySeq
  <2>4. A = <<>>
    BY <2>1, <2>2, <2>3, NoItem DEF Ahead, Pending
  <2> HIDE DEF A, E, w
  <2> QED BY <1>3, <1>4, <2>4, ConcatEmptySeq
<1> QED BY <1>5, <1>6 DEF OutputInOrder, Out!OutputInOrder

\* The serial line carries what well formed calls of printf should print, in
\* order, whole when nothing is on its way (printf, stdio_write_char).
THEOREM OutputInOrderCorrect ==
  ASSUME Out!IntWidth, Out!CallsWellFormed
  PROVE  LibrarySpec => []OutputInOrder
<1>1. LibraryInit => OutputInv
  BY InitInv DEF LibraryInit
<1>2. OutputInv /\ [LibraryNext]_<<vars, printing>> => OutputInv'
  <2> SUFFICES ASSUME OutputInv, [LibraryNext]_<<vars, printing>> PROVE OutputInv'
    OBVIOUS
  <2>1. [Out!Next]_Out!vars
    BY DEF LibraryNext, use_heap, use_printf, printing, Out!vars
  <2> QED BY <2>1, StepInv
<1>3. OutputInv => OutputInOrder
  BY InvInOrder
<1> QED BY <1>1, <1>2, <1>3, PTL DEF LibrarySpec
=============================================================================
