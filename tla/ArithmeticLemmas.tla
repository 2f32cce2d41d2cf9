------------------------- MODULE ArithmeticLemmas -------------------------
(* Facts about numbers that the proofs of several components rest on:      *)
(* counters that wrap, quotients of a counter, least elements.             *)
EXTENDS Integers, WellFoundedInduction, TLAPS

\* A quotient and a remainder in range are the quotient and the remainder.
LEMMA DivModUnique ==
    ASSUME NEW n \in Nat \ {0}, NEW q \in Int, NEW r \in 0 .. n - 1
    PROVE  (n * q + r) % n = r /\ (n * q + r) \div n = q
<1> DEFINE x == n * q + r
           p == x \div n
           m == x % n
           e == p - q
<1>1. n * q \in Int /\ x \in Int
  OBVIOUS
<1>2. p \in Int /\ m \in 0 .. n - 1 /\ x = n * p + m
  <2> HIDE DEF x
  <2> QED
    BY <1>1
<1> HIDE DEF p, m
<1>3. e \in Int /\ n * e = n * p - n * q
  BY <1>2
<1>4. n * p \in Int /\ n * q \in Int /\ n * e = r - m
  BY <1>2, <1>3
<1>5. e = p - q
  OBVIOUS
<1> HIDE DEF e
<1>6. (e < 0 => n * e <= -n) /\ (e > 0 => n * e >= n)
  BY <1>3
<1>7. e = 0 /\ n * e = 0
  <2> DEFINE y == n * e
  <2>1. y = r - m /\ (e < 0 => y <= -n) /\ (e > 0 => y >= n)
    BY <1>4, <1>6
  <2>2. e = 0
    <3> HIDE DEF y
    <3> QED
      BY <1>2, <1>3, <2>1
  <2> QED
    BY <2>2
<1>8. m = r /\ p = q
  BY <1>2, <1>4, <1>5, <1>7
<1> QED
  BY <1>8 DEF m, p

\* The quotient and its successor, times the divisor, enclose the dividend.
LEMMA Enclosed ==
    ASSUME NEW n \in Nat \ {0}, NEW x \in Nat
    PROVE  /\ x \div n \in Nat
           /\ n * (x \div n) <= x
           /\ x < n * ((x \div n) + 1)
<1> DEFINE q == x \div n
           r == x % n
<1>1. q \in Int /\ r \in 0 .. n - 1 /\ x = n * q + r
  OBVIOUS
<1> HIDE DEF q, r
<1>2. n * q \in Int /\ n * (q + 1) = n * q + n
  BY <1>1
<1>3. n * q <= x /\ x < n * (q + 1)
  BY <1>1, <1>2
<1>4. q >= 0
  <2>1. SUFFICES ASSUME q + 1 <= 0 PROVE FALSE
    BY <1>1
  <2>2. n * (q + 1) <= 0
    BY <1>1, <2>1
  <2> QED
    BY <1>2, <1>3, <2>2
<1> QED
  BY <1>1, <1>3, <1>4 DEF q

\* One more unit completes an interval exactly when the count becomes a
\* multiple of it.
LEMMA DivStep ==
    ASSUME NEW n \in Nat \ {0}, NEW j \in Nat
    PROVE  (j + 1) \div n = (j \div n) + (IF (j + 1) % n = 0 THEN 1 ELSE 0)
<1> DEFINE q == j \div n
           r == j % n
<1>1. q \in Int /\ r \in 0 .. n - 1 /\ j = n * q + r
  OBVIOUS
<1> HIDE DEF q, r
<1>2. CASE r < n - 1
  <2>1. r + 1 \in 0 .. n - 1 /\ j + 1 = n * q + (r + 1)
    BY <1>1, <1>2
  <2>2. (j + 1) % n = r + 1 /\ (j + 1) \div n = q
    BY <1>1, <2>1, DivModUnique
  <2> QED
    BY <1>1, <2>1, <2>2 DEF q
<1>3. CASE r = n - 1
  <2>1. q + 1 \in Int /\ 0 \in 0 .. n - 1 /\ n * (q + 1) = n * q + n
    BY <1>1
  <2>2. j + 1 = n * (q + 1) + 0
    BY <1>1, <1>3, <2>1
  <2>3. (j + 1) % n = 0 /\ (j + 1) \div n = q + 1
    BY <2>1, <2>2, DivModUnique
  <2> QED
    BY <2>3 DEF q
<1> QED
  BY <1>1, <1>2, <1>3

\* A counter modulo n goes up by one and wraps from n - 1 to zero.
LEMMA WrapStep ==
    ASSUME NEW n \in Nat \ {0}, NEW c \in 0 .. n - 1
    PROVE  (c + 1) % n = IF c = n - 1 THEN 0 ELSE c + 1
<1>1. CASE c = n - 1
  <2>1. 1 \in Int /\ 0 \in 0 .. n - 1 /\ c + 1 = n * 1 + 0
    BY <1>1
  <2> QED
    BY <1>1, <2>1, DivModUnique
<1>2. CASE c # n - 1
  <2>1. 0 \in Int /\ c + 1 \in 0 .. n - 1 /\ c + 1 = n * 0 + (c + 1)
    BY <1>2
  <2>2. (c + 1) % n = c + 1
    BY <2>1, DivModUnique
  <2> QED
    BY <1>2, <2>2
<1> QED
  BY <1>1, <1>2

\* Only the residue of a summand matters to a residue.
LEMMA ModAdd ==
    ASSUME NEW n \in Nat \ {0}, NEW a \in Int, NEW b \in Int
    PROVE  ((a % n) + b) % n = (a + b) % n
<1> DEFINE q == a \div n
           r == a % n
           p == (r + b) \div n
           m == (r + b) % n
<1>1. q \in Int /\ r \in 0 .. n - 1 /\ a = n * q + r
  OBVIOUS
<1>2. r + b \in Int
  BY <1>1
<1>3. p \in Int /\ m \in 0 .. n - 1 /\ r + b = n * p + m
  <2> HIDE DEF r
  <2> QED
    BY <1>2
<1>4. q + p \in Int /\ n * (q + p) = n * q + n * p
  BY <1>1, <1>3
<1> HIDE DEF q, r, p, m
<1>5. a + b = n * (q + p) + m
  BY <1>1, <1>3, <1>4
<1>6. (n * (q + p) + m) % n = m
  BY <1>3, <1>4, DivModUnique
<1> QED
  BY <1>5, <1>6 DEF m, r

\* Residues: their range, the residue of a residue, of a multiple more, of
\* equal residues moved by the same amount.
LEMMA Residues ==
    ASSUME NEW n \in Nat \ {0}
    PROVE  /\ \A a \in Int : a % n \in 0 .. n - 1
           /\ \A c \in 0 .. n - 1 : c % n = c
           /\ \A a \in Int, k \in Int : (a + n * k) % n = a % n
           /\ \A a \in Int : (a + n) % n = a % n
           /\ \A a \in Int, b \in Int, c \in Int : a % n = b % n => (a + c) % n = (b + c) % n
<1>1. \A a \in Int : a % n \in 0 .. n - 1
  OBVIOUS
<1>2. ASSUME NEW c \in 0 .. n - 1
      PROVE  c % n = c
  <2>1. 0 \in Int /\ c = n * 0 + c
    OBVIOUS
  <2> QED
    BY <2>1, DivModUnique
<1>3. ASSUME NEW a \in Int, NEW k \in Int
      PROVE  (a + n * k) % n = a % n
  <2> DEFINE q == a \div n
             r == a % n
  <2>1. q \in Int /\ r \in 0 .. n - 1 /\ a = n * q + r
    OBVIOUS
  <2> HIDE DEF q, r
  <2>2. q + k \in Int /\ n * (q + k) = n * q + n * k
    BY <2>1
  <2>3. a + n * k = n * (q + k) + r
    BY <2>1, <2>2
  <2>4. (a + n * k) % n = r
    BY <2>1, <2>2, <2>3, DivModUnique
  <2> QED
    BY <2>4 DEF r
<1>4. ASSUME NEW a \in Int
      PROVE  (a + n) % n = a % n
  <2> DEFINE q == a \div n
             r == a % n
  <2>1. q \in Int /\ r \in 0 .. n - 1 /\ a = n * q + r
    OBVIOUS
  <2> HIDE DEF q, r
  <2>2. q + 1 \in Int /\ n * (q + 1) = n * q + n
    BY <2>1
  <2>3. a + n = n * (q + 1) + r
    BY <2>1, <2>2
  <2>4. (a + n) % n = r
    BY <2>1, <2>2, <2>3, DivModUnique
  <2> QED
    BY <2>4 DEF r
<1>5. ASSUME NEW a \in Int, NEW b \in Int, NEW c \in Int, a % n = b % n
      PROVE  (a + c) % n = (b + c) % n
  <2>1. ((a % n) + c) % n = (a + c) % n /\ ((b % n) + c) % n = (b + c) % n
    BY ModAdd
  <2> QED
    BY <1>5, <2>1
<1> QED
  BY <1>1, <1>2, <1>3, <1>4, <1>5

\* The position before one whose successor is known.
LEMMA BeforeStep ==
    ASSUME NEW n \in Nat \ {0}, NEW p \in 0 .. n - 1, NEW a \in Int, (p + 1) % n = a % n
    PROVE  p = (a - 1) % n
<1>1. p + 1 \in Int /\ -1 \in Int /\ p \in Int
  OBVIOUS
<1>2. ((p + 1) + (-1)) % n = (a + (-1)) % n
  <2>1. \A x \in Int, y \in Int, c \in Int :
            x % n = y % n => (x + c) % n = (y + c) % n
    BY Residues, Zenon
  <2> DEFINE m == -1
             b == p + 1
  <2>2. m \in Int /\ b \in Int /\ b % n = a % n
    BY <1>1
  <2> HIDE DEF m, b
  <2>3. (b + m) % n = (a + m) % n
    BY <2>1, <2>2, Zenon
  <2> QED
    BY <2>3 DEF m, b
<1>3. (p + 1) + (-1) = p /\ a + (-1) = a - 1
  OBVIOUS
<1>4. p % n = p
  BY Residues
<1> QED
  BY <1>2, <1>3, <1>4

\* A set of natural numbers that is not empty has a least element.
LEMMA LeastElement ==
    ASSUME NEW S \in SUBSET Nat, S # {}
    PROVE  \E x \in S : \A y \in S : x <= y
<1> DEFINE R == {ss \in Nat \X Nat : ss[1] < ss[2]}
<1>1. IsWellFoundedOn(R, Nat)
  BY NatLessThanWellFounded, Zenon DEF OpToRel
<1>2. PICK x \in S : \A y \in S : ~(<<y, x>> \in R)
  <2> HIDE DEF R
  <2> QED
    BY <1>1, WFMin
<1>3. ASSUME NEW y \in S
      PROVE  x <= y
  <2>1. x \in Nat /\ y \in Nat /\ ~(<<y, x>> \in R)
    BY <1>2
  <2> QED
    BY <2>1
<1> QED
  BY <1>3

===========================================================================
