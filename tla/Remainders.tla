---------------------------- MODULE Remainders -----------------------------
(***************************************************************************)
(* What the proofs about rings, pages, ticks and blocks need of division:  *)
(* quotients, remainders, and multiples of a length; and that a set of     *)
(* natural numbers has a least one.                                        *)
(***************************************************************************)
EXTENDS Integers, WellFoundedInduction, TLAPS

\* Division with remainder.
LEMMA DivMod ==
    ASSUME NEW a \in Int, NEW R \in Nat \ {0}
    PROVE  /\ a \div R \in Int /\ a % R \in 0 .. R - 1
           /\ a = R * (a \div R) + (a % R)
  BY Z3

\* The same, to name quotient and remainder.
LEMMA Division ==
    ASSUME NEW a \in Int, NEW R \in Nat \ {0}
    PROVE  \E q \in Int, r \in 0 .. R - 1 : r = a % R /\ a = R * q + r
<1>1. /\ a \div R \in Int /\ a % R \in 0 .. R - 1
      /\ a = R * (a \div R) + (a % R)
  BY DivMod
<1> QED
  BY <1>1, Zenon

\* A multiple of R is 0 or at least R away from it.
LEMMA MulGrows ==
    ASSUME NEW d \in Int, d >= 1, NEW R \in Nat \ {0}
    PROVE  R * d >= R /\ R * (-d) <= -R
  BY Z3

\* Products of differences and sums.
LEMMA Distributes ==
    ASSUME NEW R \in Int, NEW x \in Int, NEW y \in Int
    PROVE  /\ R * (x - y) = R * x - R * y /\ R * (x + y) = R * x + R * y
           /\ R * x \in Int /\ R * y \in Int
  BY Z3

\* The remainder is unique.
LEMMA ModUnique ==
    ASSUME NEW R \in Nat \ {0}, NEW q \in Int, NEW r \in 0 .. R - 1
    PROVE  (R * q + r) % R = r
<1> DEFINE a == R * q + r
<1>0. a \in Int
  OBVIOUS
<1>1. PICK p \in Int, s \in 0 .. R - 1 : s = a % R /\ a = R * p + s
  BY <1>0, Division, Zenon
<1>2. R * (q - p) = s - r
  BY <1>1, Distributes
<1>3. q - p \in Int /\ ~ (q - p >= 1) /\ ~ (p - q >= 1)
  BY <1>1, <1>2, MulGrows, Z3
<1> QED
  BY <1>1, <1>2, <1>3, Z3

\* So is the quotient.
LEMMA DivUnique ==
    ASSUME NEW R \in Nat \ {0}, NEW q \in Int, NEW r \in 0 .. R - 1
    PROVE  (R * q + r) \div R = q
<1>1. PICK a : a = R * q + r
  OBVIOUS
<1>2. a \in Int
  BY <1>1
<1>3. PICK p : p = a \div R
  OBVIOUS
<1>4. p \in Int /\ a = R * p + (a % R)
  BY <1>2, <1>3, DivMod
<1>5. a % R = r
  BY <1>1, ModUnique
<1>6. R * (q - p) = 0
  <2>1. R * q = R * p
    BY <1>1, <1>4, <1>5
  <2> QED BY <1>4, <2>1, Distributes
<1>7. q = p
  <2>1. CASE q - p >= 1
    BY <1>4, <1>6, <2>1, MulGrows
  <2>2. CASE q - p <= -1
    <3>1. R * (-(p - q)) <= -R
      BY <1>4, <2>2, MulGrows
    <3>2. -(p - q) = q - p
      BY <1>4
    <3> QED BY <1>6, <3>1, <3>2
  <2> QED BY <1>4, <2>1, <2>2
<1> QED BY <1>1, <1>3, <1>7

\* A pointer in a ring of R slots, moved by one and wrapped, counts on.
LEMMA ModNext ==
    ASSUME NEW R \in Nat \ {0}, NEW a \in Nat
    PROVE  ((a % R) + 1) % R = (a + 1) % R
<1>0. a \in Int
  OBVIOUS
<1>1. PICK q \in Int, r \in 0 .. R - 1 : r = a % R /\ a = R * q + r
  BY <1>0, Division, Zenon
<1>2. CASE r + 1 < R
  <2>1. (R * q + (r + 1)) % R = r + 1 /\ (R * 0 + (r + 1)) % R = r + 1
    BY <1>2, ModUnique
  <2>2. a + 1 = R * q + (r + 1) /\ r + 1 = R * 0 + (r + 1)
    BY <1>1, Distributes
  <2> QED
    BY <1>1, <2>1, <2>2
<1>3. CASE r + 1 = R
  <2>1. (R * (q + 1) + 0) % R = 0 /\ (R * 1 + 0) % R = 0
    BY ModUnique
  <2>2. a + 1 = R * (q + 1) + 0 /\ r + 1 = R * 1 + 0
    BY <1>1, <1>3, Distributes
  <2> QED
    BY <1>1, <2>1, <2>2
<1> QED
  BY <1>2, <1>3

\* The distance of two pointers is that of the counts, within a lap.
LEMMA ModDiff ==
    ASSUME NEW R \in Nat \ {0}, NEW a \in Nat, NEW b \in Nat, a <= b, b - a < R
    PROVE  ((b % R) - (a % R)) % R = b - a
<1>0. a \in Int /\ b \in Int
  OBVIOUS
<1>1. PICK p \in Int, r \in 0 .. R - 1 : r = a % R /\ a = R * p + r
  BY <1>0, Division, Zenon
<1>2. PICK q \in Int, s \in 0 .. R - 1 : s = b % R /\ b = R * q + s
  BY <1>0, Division, Zenon
<1>3. s - r = R * (p - q) + (b - a)
  BY <1>1, <1>2, Distributes
<1>4. (R * (p - q) + (b - a)) % R = b - a
  BY ModUnique
<1> QED
  BY <1>1, <1>2, <1>3, <1>4

\* Two counts within a lap have different slots.
LEMMA ModDistinct ==
    ASSUME NEW R \in Nat \ {0}, NEW a \in Nat, NEW b \in Nat, a < b, b - a < R
    PROVE  a % R # b % R
<1>1. a <= b
  OBVIOUS
<1>2. ((b % R) - (a % R)) % R = b - a
  BY <1>1, ModDiff
<1>3. (R * 0 + 0) % R = 0 /\ R * 0 + 0 = 0
  BY ModUnique
<1>4. a % R \in Int /\ b % R \in Int
  BY DivMod
<1>5. SUFFICES ASSUME a % R = b % R PROVE FALSE
  OBVIOUS
<1>6. (b % R) - (a % R) = 0
  BY <1>4, <1>5
<1> QED
  BY <1>2, <1>3, <1>6

\* Parity alternates.
LEMMA ParityAlternates == \A m \in Nat : (m - 1) % 2 = 0 <=> m % 2 = 1
  OBVIOUS

\* An even ring keeps the parity of a count.
LEMMA ModParity ==
    ASSUME NEW R \in Nat \ {0}, R % 2 = 0, NEW a \in Nat
    PROVE  (a % R) % 2 = a % 2
<1>0. a \in Int
  OBVIOUS
<1>1. PICK q \in Int, r \in 0 .. R - 1 : r = a % R /\ a = R * q + r
  BY <1>0, Division, Zenon
<1>2. PICK h \in Int : R = 2 * h
  BY Z3
<1>3. PICK k \in Int, e \in 0 .. 1 : e = r % 2 /\ r = 2 * k + e
  BY Z3
<1>4. PICK m \in Int : R * q = 2 * m
  <2>1. h * q \in Int /\ R * q = 2 * (h * q)
    BY <1>2, Z3
  <2> QED
    BY <2>1, Zenon
<1>5. a = 2 * m + r
  BY <1>1, <1>4
<1>6. a = 2 * (m + k) + e
  BY <1>3, <1>5
<1>7. (2 * (m + k) + e) % 2 = e
  BY ModUnique
<1> QED
  BY <1>1, <1>3, <1>6, <1>7

\* Two multiples of a length are at least that length apart.
LEMMA MultiplesApart ==
    ASSUME NEW n \in Nat, NEW a \in Nat, NEW b \in Nat, a < b
    PROVE  a * n + n <= b * n /\ a * n \in Nat /\ b * n \in Nat
<1>1. PICK d \in Nat : b = (a + 1) + d
  <2>1. b - (a + 1) \in Nat /\ b = (a + 1) + (b - (a + 1))
    OBVIOUS
  <2> QED BY <2>1
<1>2. b * n = (a + 1) * n + d * n
  BY <1>1, Distributes
<1>3. (a + 1) * n = a * n + n
  BY Distributes
<1>4. a * n \in Nat /\ b * n \in Nat /\ d * n \in Nat
  BY <1>1
<1> QED BY <1>2, <1>3, <1>4

\* A set of natural numbers has a least one.
LEMMA LeastNat ==
  ASSUME NEW S, S \subseteq Nat, S # {}
  PROVE  \E x \in S : \A y \in S : x <= y
<1>1. PICK R : R = {ss \in Nat \X Nat : ss[1] < ss[2]} /\ IsWellFoundedOn(R, Nat)
  BY NatLessThanWellFounded, Zenon DEF OpToRel
<1>2. PICK x \in S : \A y \in S : ~ (<<y, x>> \in R)
  BY <1>1, WFMin
<1>3. \A y \in S : x <= y
  <2> SUFFICES ASSUME NEW y \in S PROVE x <= y
    OBVIOUS
  <2>1. x \in Nat /\ y \in Nat
    OBVIOUS
  <2>2. <<y, x>> \notin R
    BY <1>2
  <2> QED
    BY <1>1, <2>1, <2>2
<1> QED
  BY <1>2, <1>3

============================================================================
