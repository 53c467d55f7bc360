---------------------------- MODULE NumberFacts ----------------------------
(***************************************************************************)
(* What the proofs need of numbers: an induction, which is that a set of   *)
(* natural numbers has a least element, and addition in a circle.          *)
(***************************************************************************)
EXTENDS Integers, WellFoundedInduction, TLAPS

\* Every set of natural numbers has a least element.  The library has this as an
\* induction over an operator, which the provers cannot instantiate.
LEMMA Least ==
  ASSUME NEW S, S \subseteq Nat, S # {}
  PROVE  \E m \in S : \A k \in S : m <= k
<1> DEFINE R == OpToRel(<, Nat)
<1>1. IsWellFoundedOn(R, Nat)
  BY NatLessThanWellFounded
<1>2. \A x, y \in Nat : y < x => <<y, x>> \in R
  BY DEF OpToRel
<1> HIDE DEF R
<1>3. PICK x \in S : \A y \in S : ~ (<<y, x>> \in R)
  BY <1>1, WFMin
<1>4. \A y \in S : ~ (y < x)
  BY <1>2, <1>3
<1> QED BY <1>4

\* And, if it is bounded, a greatest.
LEMMA Greatest ==
  ASSUME NEW S, S \subseteq Nat, S # {}, NEW n \in Nat, \A k \in S : k <= n
  PROVE  \E m \in S : \A k \in S : k <= m
<1> DEFINE T == {n - k : k \in S}
<1>1. T \subseteq Nat /\ T # {}
  <2>1. \A k \in S : n - k \in Nat
    OBVIOUS
  <2> QED BY <2>1
<1>2. PICK t \in T : \A k \in T : t <= k
  <2> HIDE DEF T
  <2> QED BY <1>1, Least
<1>3. PICK m \in S : t = n - m
  OBVIOUS
<1>4. \A k \in S : n - m <= n - k
  BY <1>2, <1>3
<1> QED BY <1>3, <1>4

\* Induction, as far as n, over what is written as a set.
LEMMA Upto ==
  ASSUME NEW n \in Nat, NEW S, 0 \in S, \A k \in 1 .. n : k - 1 \in S => k \in S
  PROVE  \A k \in 0 .. n : k \in S
<1> DEFINE Bad == {k \in 0 .. n : k \notin S}
<1>1. SUFFICES ASSUME Bad # {} PROVE FALSE
  OBVIOUS
<1>2. PICK k \in Bad : \A j \in Bad : k <= j
  <2>1. Bad \subseteq Nat
    OBVIOUS
  <2> HIDE DEF Bad
  <2> QED BY <1>1, <2>1, Least
<1>3. k # 0 /\ k \in 1 .. n /\ k - 1 \in 0 .. n /\ k - 1 \notin Bad
  BY <1>2
<1> QED BY <1>3

-----------------------------------------------------------------------------
(* Numbers in a circle of s: the provers know no remainder of a division   *)
(* by a variable.                                                          *)

LEMMA Multiple == ASSUME NEW s \in Nat \ {0}, NEW k \in Int, k >= 1 PROVE k * s >= s
OBVIOUS

LEMMA DivMod ==
  ASSUME NEW s \in Nat \ {0}, NEW x \in Int
  PROVE  /\ x % s \in 0 .. s - 1 /\ x \div s \in Int
         /\ x = (x \div s) * s + (x % s)
OBVIOUS

\* There is one quotient and one remainder.
LEMMA Unique ==
  ASSUME NEW s \in Nat \ {0}, NEW q \in Int, NEW r \in 0 .. s - 1,
         NEW d \in Int, NEW m \in 0 .. s - 1, q * s + r = d * s + m
  PROVE  q = d /\ r = m
<1>1. (q - d) * s = m - r /\ (d - q) * s = r - m
  OBVIOUS
<1>2. ~ (q - d >= 1)
  <2> SUFFICES ASSUME q - d >= 1 PROVE FALSE
    OBVIOUS
  <2>1. (q - d) * s >= s
    BY Multiple
  <2> QED BY <1>1, <2>1
<1>3. ~ (d - q >= 1)
  <2> SUFFICES ASSUME d - q >= 1 PROVE FALSE
    OBVIOUS
  <2>1. (d - q) * s >= s
    BY Multiple
  <2> QED BY <1>1, <2>1
<1> QED BY <1>2, <1>3

LEMMA ModIs ==
  ASSUME NEW s \in Nat \ {0}, NEW x \in Int, NEW q \in Int, NEW r \in 0 .. s - 1, x = q * s + r
  PROVE  x % s = r
<1>1. /\ x % s \in 0 .. s - 1 /\ x \div s \in Int
      /\ x = (x \div s) * s + (x % s)
  BY DivMod
<1> QED BY <1>1, Unique

\* Going on from the remainder comes to the same.
LEMMA ModPlus ==
  ASSUME NEW s \in Nat \ {0}, NEW x \in Int, NEW y \in Int
  PROVE  ((x % s) + y) % s = (x + y) % s
<1> DEFINE q == x \div s
           r == x % s
           d == (r + y) \div s
           m == (r + y) % s
<1>1. q \in Int /\ r \in 0 .. s - 1 /\ x = q * s + r
  BY DivMod
<1> HIDE DEF q, r
<1>2. d \in Int /\ m \in 0 .. s - 1 /\ r + y = d * s + m
  BY <1>1, DivMod
<1> HIDE DEF d, m
<1>3. x + y = (q + d) * s + m /\ q + d \in Int /\ x + y \in Int
  BY <1>1, <1>2
<1>4. (x + y) % s = m
  BY <1>2, <1>3, ModIs
<1> QED BY <1>4 DEF m, r

\* So does the next digit of a number.
LEMMA ModHorner ==
  ASSUME NEW s \in Nat \ {0}, NEW x \in Nat, NEW b \in Nat, NEW c \in Nat
  PROVE  ((x % s) * b + c) % s = (x * b + c) % s
<1> DEFINE q == x \div s
           r == x % s
           y == r * b + c
           d == y \div s
           m == y % s
<1>1. q \in Int /\ r \in 0 .. s - 1 /\ x = q * s + r
  BY DivMod
<1> HIDE DEF q, r
<1>2. y \in Int
  BY <1>1
<1> HIDE DEF y
<1>3. d \in Int /\ m \in 0 .. s - 1 /\ y = d * s + m
  BY <1>2, DivMod
<1> HIDE DEF d, m
<1>4. x * b + c = (q * b + d) * s + m
  <2>1. x * b = (q * s + r) * b
    BY <1>1
  <2>2. (q * s + r) * b = (q * b) * s + r * b
    BY <1>1
  <2>3. r * b + c = d * s + m
    BY <1>3 DEF y
  <2>4. (q * b + d) * s = (q * b) * s + d * s
    BY <1>1, <1>3
  <2> DEFINE u == r * b
             t == (q * b) * s
             z == d * s
             o == x * b
  <2>5. u \in Int /\ t \in Int /\ z \in Int /\ o \in Int /\ m \in Int
    BY <1>1, <1>3
  <2> HIDE DEF u, t, z, o
  <2>6. o = t + u /\ u + c = z + m /\ (q * b + d) * s = t + z
    BY <2>1, <2>2, <2>3, <2>4 DEF o, t, u, z
  <2>7. o + c = (t + z) + m
    BY <2>5, <2>6
  <2> QED BY <2>6, <2>7 DEF o
<1>5. q * b + d \in Int /\ x * b + c \in Int
  BY <1>1, <1>3
<1>6. (x * b + c) % s = m
  BY <1>3, <1>4, <1>5, ModIs
<1> QED BY <1>6 DEF m, y, r

\* The remainder keeps what divides the circle.
LEMMA ModFour ==
  ASSUME NEW s \in Nat \ {0}, s % 4 = 0, NEW x \in Int, x % 4 = 0
  PROVE  (x % s) % 4 = 0
<1> DEFINE q == x \div s
           r == x % s
<1>1. r \in 0 .. s - 1 /\ q \in Int /\ x = q * s + r
  BY DivMod
<1> HIDE DEF q, r
<1>2. PICK t \in Int, y \in Int : s = 4 * t /\ x = 4 * y
  <2>1. s = 4 * (s \div 4) /\ x = 4 * (x \div 4) /\ s \div 4 \in Int /\ x \div 4 \in Int
    OBVIOUS
  <2> QED BY <2>1
<1> DEFINE z == y - q * t
<1>3. z \in Int /\ r = 4 * z
  BY <1>1, <1>2
<1> HIDE DEF z
<1>4. r % 4 = 0
  BY <1>3
<1> QED BY <1>4 DEF r

-----------------------------------------------------------------------------
(* Division, and the digits of a number in a base.                         *)

LEMMA DivNat ==
  ASSUME NEW s \in Nat \ {0}, NEW x \in Nat
  PROVE  x \div s \in Nat /\ x % s \in 0 .. s - 1 /\ x = (x \div s) * s + (x % s)
<1>1. x \div s \in Int /\ x % s \in 0 .. s - 1 /\ x = (x \div s) * s + (x % s)
  BY DivMod
<1> DEFINE q == x \div s
<1> HIDE DEF q
<1>2. ASSUME q \in Int, q <= -1 PROVE q * s <= -s
  BY <1>2
<1>3. q \in Int /\ q * s >= -s + 1
  <2>1. \A y \in Int, r \in 0 .. s - 1 : x = y * s + r => y * s >= -s + 1
    OBVIOUS
  <2> QED BY <1>1, <2>1 DEF q
<1>4. q \in Nat
  <2>1. ~ (q <= -1)
    BY <1>2, <1>3
  <2> QED BY <1>3, <2>1
<1> QED BY <1>1, <1>4 DEF q

LEMMA DivIs ==
  ASSUME NEW s \in Nat \ {0}, NEW x \in Int, NEW q \in Int, NEW r \in 0 .. s - 1, x = q * s + r
  PROVE  x \div s = q
<1>1. /\ x % s \in 0 .. s - 1 /\ x \div s \in Int
      /\ x = (x \div s) * s + (x % s)
  BY DivMod
<1> QED BY <1>1, Unique

\* Dividing twice is dividing by the product.
Twice(x, a, b) == (x \div a) \div b = x \div (a * b)

LEMMA DivDiv ==
  ASSUME NEW x \in Nat, NEW a \in Nat \ {0}, NEW b \in Nat \ {0}
  PROVE  Twice(x, a, b)
<1> DEFINE q == x \div a
           r == x % a
           p == q \div b
           h == q % b
           s == a * b
<1>1. q \in Nat /\ r \in 0 .. a - 1 /\ x = q * a + r
  BY DivNat
<1>2. p \in Nat /\ h \in 0 .. b - 1 /\ q = p * b + h
  BY <1>1, DivNat
<1>3. s \in Nat \ {0}
  OBVIOUS
<1> HIDE DEF q, r, p, h, s
<1>4. x = p * (a * b) + (h * a + r)
  BY <1>1, <1>2
<1>5. h * a + r \in 0 .. s - 1
  <2>1. h * a <= (b - 1) * a /\ h * a >= 0
    BY <1>2
  <2>2. (b - 1) * a + a = a * b /\ (b-1) * a \in Int /\ h * a \in Int
    BY <1>2
  <2> QED BY <1>1, <1>3, <2>1, <2>2 DEF s
<1>6. x = p * s + (h * a + r)
  BY <1>4 DEF s
<1>7. x \div s = p
  <2>1. p \in Int /\ x \in Int
    BY <1>2
  <2> QED BY <1>3, <1>5, <1>6, <2>1, DivIs
<1> QED BY <1>7 DEF s, p, q, Twice

\* The digit a shift leaves at the top of a word.
LEMMA TopDigit ==
  ASSUME NEW n \in Nat, NEW a \in Nat \ {0}, NEW c \in Nat \ {0}, NEW d \in Nat \ {0}
  PROVE  ((n * a) % (d * (a * c))) \div (a * c) = (n \div c) % d
<1> DEFINE q == n \div c
           r == n % c
           p == q \div d
           h == q % d
           w == a * c
           s == d * w
<1>1. q \in Nat /\ r \in 0 .. c - 1 /\ n = q * c + r
  BY DivNat
<1>2. p \in Nat /\ h \in 0 .. d - 1 /\ q = p * d + h
  BY <1>1, DivNat
<1>3. w \in Nat \ {0} /\ d * w \in Nat \ {0}
  OBVIOUS
<1> HIDE DEF q, r, p, h, w
<1>4. r * a \in 0 .. w - 1
  <2>1. 0 <= r * a /\ r * a <= (c - 1) * a /\ r * a \in Int
    BY <1>1
  <2>2. (c - 1) * a = w - a
    BY DEF w
  <2> QED BY <1>3, <2>1, <2>2
<1>5. n * a = p * s + (h * w + r * a)
  <2>1. n * a = (q * c + r) * a
    BY <1>1
  <2>2. (q * c + r) * a = q * (a * c) + r * a
    BY <1>1
  <2>3. q * w = p * (d * w) + h * w
    BY <1>2, <1>3
  <2> QED BY <1>1, <1>2, <1>3, <2>1, <2>2, <2>3 DEF w
<1>6. h * w + r * a \in 0 .. s - 1
  <2>1. 0 <= h * w /\ h * w <= (d - 1) * w /\ h * w \in Int
    BY <1>2, <1>3
  <2>2. (d - 1) * w = d * w - w
    BY <1>3
  <2> QED BY <1>3, <1>4, <2>1, <2>2
<1>7. n * a \in Int /\ s \in Nat \ {0}
  BY <1>3
<1>8. (n * a) % s = h * w + r * a
  <2> HIDE DEF s
  <2> DEFINE x == n * a
             y == h * w + r * a
  <2>1. p \in Int /\ x \in Int /\ y \in 0 .. s - 1 /\ x = p * s + y /\ s \in Nat \ {0}
    BY <1>2, <1>5, <1>6, <1>7
  <2> HIDE DEF x, y
  <2>2. x % s = y
    BY <2>1, ModIs
  <2> QED BY <2>2 DEF x, y
<1>9. (h * w + r * a) \div w = h
  <2> DEFINE y == h * w + r * a
  <2>1. y \in Int
    BY <1>2, <1>3, <1>4
  <2>2. y \div w \in Int /\ y % w \in 0 .. w - 1 /\ y = (y \div w) * w + (y % w)
    <3> HIDE DEF y
    <3> QED BY <1>3, <2>1, DivMod
  <2>3. h \in Int
    BY <1>2
  <2> QED BY <1>3, <1>4, <2>2, <2>3, Unique
<1> QED BY <1>8, <1>9 DEF s, w, h, q

-----------------------------------------------------------------------------
(* Powers, from the law they follow, which the provers do not know.        *)

PowerLaw(b, n) == b^0 = 1 /\ \A k \in 0 .. n - 1 : b^(k + 1) = b * b^k

\* Powers of a positive number are positive.
LEMMA PowersPositive ==
  ASSUME NEW b \in Nat \ {0}, NEW n \in Nat, PowerLaw(b, n)
  PROVE  \A k \in 0 .. n : b^k \in Nat \ {0}
<1> DEFINE Bad == {k \in 0 .. n : b^k \notin Nat \ {0}}
<1>1. Bad = {}
  <2> SUFFICES ASSUME Bad # {} PROVE FALSE
    OBVIOUS
  <2>1. PICK k \in Bad : \A j \in Bad : k <= j
    <3>1. Bad \subseteq Nat
      OBVIOUS
    <3> HIDE DEF Bad
    <3> QED BY <3>1, Least
  <2>2. k # 0
    BY DEF PowerLaw
  <2>3. k - 1 \in 0 .. n - 1 /\ k - 1 \notin Bad /\ (k-1) + 1 = k
    BY <2>1, <2>2
  <2>4. b^(k-1) \in Nat \ {0}
    BY <2>3
  <2>5. b^k = b * b^(k-1)
    BY <2>3 DEF PowerLaw
  <2>6. \A x \in Nat \ {0} : b * x \in Nat \ {0}
    OBVIOUS
  <2> QED BY <2>4, <2>5, <2>6
<1> QED BY <1>1

\* A power of a sum is a product.
LEMMA PowersOfSum ==
  ASSUME NEW b \in Nat \ {0}, NEW n \in Nat, PowerLaw(b, n),
         NEW a \in 0 .. n, NEW c \in 0 .. n - a
  PROVE  b^(a + c) = b^a * b^c
<1> DEFINE Bad == {k \in 0 .. n - a : b^(a + k) # b^a * b^k}
<1>0. \A k \in 0 .. n : b^k \in Nat \ {0}
  BY PowersPositive
<1>1. Bad = {}
  <2> SUFFICES ASSUME Bad # {} PROVE FALSE
    OBVIOUS
  <2>1. PICK k \in Bad : \A j \in Bad : k <= j
    <3>1. Bad \subseteq Nat
      OBVIOUS
    <3> HIDE DEF Bad
    <3> QED BY <3>1, Least
  <2>2. k # 0
    <3>1. b^0 = 1 /\ b^a \in Nat /\ a + 0 = a
      BY <1>0 DEF PowerLaw
    <3> QED BY <3>1
  <2>3. k - 1 \in 0 .. n - 1 /\ k - 1 \notin Bad /\ k - 1 \in 0 .. n - a /\ (k-1) + 1 = k
        /\ a + (k-1) \in 0 .. n - 1 /\ (a + (k-1)) + 1 = a + k
    BY <2>1, <2>2
  <2>4. b^(a + (k-1)) = b^a * b^(k-1)
    BY <2>3
  <2>5. b^k = b * b^(k-1) /\ b^(a+k) = b * b^(a + (k-1))
    <3>1. b^((k-1)+1) = b * b^(k-1)
      BY <2>3 DEF PowerLaw
    <3>2. b^((a + (k-1))+1) = b * b^(a + (k-1))
      BY <2>3 DEF PowerLaw
    <3> QED BY <2>3, <3>1, <3>2
  <2>6. \A x, y \in Nat : b * (x * y) = x * (b * y)
    OBVIOUS
  <2>7. b^a \in Nat /\ b^(k-1) \in Nat
    <3>1. k - 1 \in 0 .. n
      BY <2>3
    <3> QED BY <1>0, <3>1
  <2> QED BY <2>4, <2>5, <2>6, <2>7
<1> QED BY <1>1

\* A larger number has the larger power.
LEMMA PowersMonotone ==
  ASSUME NEW b \in Nat \ {0}, NEW n \in Nat, PowerLaw(b, n),
         NEW c \in 0 .. n, NEW a \in 0 .. c
  PROVE  b^a <= b^c
<1>1. a \in 0 .. n /\ c - a \in 0 .. n - a /\ a + (c - a) = c /\ c - a \in 0 .. n
  OBVIOUS
<1>2. b^(a + (c - a)) = b^a * b^(c - a)
  BY <1>1, PowersOfSum
<1>3. b^c = b^a * b^(c - a) /\ b^a \in Nat \ {0} /\ b^(c - a) \in Nat \ {0}
  BY <1>1, <1>2, PowersPositive
<1> DEFINE x == b^a
           y == b^(c - a)
<1>4. x * y >= x
  <2>1. x \in Nat \ {0} /\ y \in Nat \ {0} /\ x * y = y * x
    BY <1>3
  <2> HIDE DEF x, y
  <2> QED BY <2>1, Multiple
<1> QED BY <1>3, <1>4

-----------------------------------------------------------------------------
(* What a loop computes, turn by turn: a function defined by recursion is  *)
(* shown to exist.                                                         *)

Iterates(g, h, b, n) == g = [k \in 0 .. n |-> IF k = 0 THEN b ELSE h[k][g[k-1]]]

LEMMA IteratesAt ==
  ASSUME NEW g, NEW h, NEW b, NEW n \in Nat, Iterates(g, h, b, n)
  PROVE  g[0] = b /\ \A k \in 1 .. n : g[k] = h[k][g[k-1]]
BY DEF Iterates

LEMMA IteratesExist ==
  ASSUME NEW h, NEW b, NEW n \in Nat
  PROVE  \E g : Iterates(g, h, b, n)
<1> DEFINE Bad == {i \in Nat : ~ \E g : Iterates(g, h, b, i)}
<1>1. Bad = {}
  <2> SUFFICES ASSUME Bad # {} PROVE FALSE
    OBVIOUS
  <2>1. PICK i \in Bad : \A j \in Bad : i <= j
    <3>1. Bad \subseteq Nat
      OBVIOUS
    <3> HIDE DEF Bad
    <3> QED BY <3>1, Least
  <2>2. i # 0
    <3> DEFINE g == [k \in 0 .. 0 |-> b]
    <3>1. g = [k \in 0 .. 0 |-> IF k = 0 THEN b ELSE h[k][g[k-1]]]
      OBVIOUS
    <3>2. Iterates(g, h, b, 0)
      BY <3>1 DEF Iterates
    <3> QED BY <3>2
  <2>3. i - 1 \in Nat /\ i - 1 \notin Bad
    BY <2>1, <2>2
  <2>4. PICK f : Iterates(f, h, b, i - 1)
    BY <2>3
  <2> DEFINE g == [k \in 0 .. i |-> IF k < i THEN f[k] ELSE h[i][f[i-1]]]
  <2>5. \A k \in 0 .. i : g[k] = (IF k = 0 THEN b ELSE h[k][g[k-1]])
    <3> TAKE k \in 0 .. i
    <3>1. CASE k < i
      <4>1. k \in 0 .. i - 1 /\ (k # 0 => k - 1 \in 0 .. i /\ k - 1 < i)
        BY <3>1
      <4>2. f[k] = (IF k = 0 THEN b ELSE h[k][f[k-1]])
        BY <4>1, <2>4 DEF Iterates
      <4>3. g[k] = f[k] /\ (k # 0 => g[k-1] = f[k-1])
        BY <3>1, <4>1
      <4> QED BY <4>2, <4>3
    <3>2. CASE k = i
      <4>1. i - 1 \in 0 .. i /\ i - 1 < i
        BY <2>2
      <4>2. g[i-1] = f[i-1] /\ g[i] = h[i][f[i-1]]
        BY <4>1
      <4> QED BY <2>2, <3>2, <4>2
    <3> QED BY <3>1, <3>2
  <2>6. Iterates(g, h, b, i)
    <3>1. g = [k \in 0 .. i |-> g[k]]
      OBVIOUS
    <3> HIDE DEF g
    <3> QED BY <3>1, <2>5 DEF Iterates
  <2> QED BY <2>6
<1> QED BY <1>1

\* A set that every turn stays in.
LEMMA IteratesIn ==
  ASSUME NEW h, NEW b, NEW n \in Nat, NEW g, Iterates(g, h, b, n),
         NEW S, b \in S, \A k \in 1 .. n : \A x \in S : h[k][x] \in S
  PROVE  \A k \in 0 .. n : g[k] \in S
<1> DEFINE Bad == {k \in 0 .. n : g[k] \notin S}
<1>1. Bad = {}
  <2> SUFFICES ASSUME Bad # {} PROVE FALSE
    OBVIOUS
  <2>1. PICK k \in Bad : \A j \in Bad : k <= j
    <3>1. Bad \subseteq Nat
      OBVIOUS
    <3> HIDE DEF Bad
    <3> QED BY <3>1, Least
  <2>2. k # 0
    BY IteratesAt
  <2>3. k - 1 \in 0 .. n /\ k \in 1 .. n /\ k - 1 \notin Bad
    BY <2>1, <2>2
  <2>4. g[k-1] \in S /\ g[k] = h[k][g[k-1]]
    BY <2>3, IteratesAt
  <2> QED BY <2>3, <2>4
<1> QED BY <1>1
=============================================================================
