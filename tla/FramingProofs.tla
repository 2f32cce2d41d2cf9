--------------------------- MODULE FramingProofs ---------------------------
(***************************************************************************)
(* Proofs about frame synchronisation and the frame assembler, for any     *)
(* frame length, buffer sizes, FIFO depth and number of faults.            *)
(***************************************************************************)
EXTENDS Framing, ArithmeticLemmas, FiniteSetTheorems, SequenceTheorems, TLAPS

\* The constants as the provers use them.
LEMMA Sizes ==
    /\ FrameLen \in Nat \ {0} /\ NSync \in Nat /\ LockFrames \in Nat \ {0}
    /\ BackFrames \in Nat /\ BadRun \in Nat \ {0} /\ FifoLen \in Nat /\ MaxFaults \in Nat
  BY FramingConstants

\* The sizes that are products.
LEMMA Products == BackFrames * FrameLen \in Nat /\ LockFrames * FrameLen \in Nat
<1>1. ASSUME NEW a \in Nat, NEW b \in Nat
      PROVE  a * b \in Nat
  OBVIOUS
<1> QED
  BY <1>1, Sizes

\* Residues modulo the frame.
LEMMA FrameResidues ==
    /\ \A a \in Int : a % FrameLen \in 0 .. FrameLen - 1
    /\ \A c \in 0 .. FrameLen - 1 : c % FrameLen = c
    /\ \A a \in Int, k \in Int : (a + FrameLen * k) % FrameLen = a % FrameLen
    /\ \A a \in Int : (a + FrameLen) % FrameLen = a % FrameLen
    /\ \A a \in Int, b \in Int, c \in Int :
          a % FrameLen = b % FrameLen => (a + c) % FrameLen = (b + c) % FrameLen
  BY Sizes, Residues, Zenon

\* Moving both ends of a distance by a frame, or not at all.
LEMMA SameDistance ==
    ASSUME NEW a \in Int, NEW b \in Int, NEW c \in Int, a % FrameLen = b % FrameLen
    PROVE  (a + c) % FrameLen = (b + c) % FrameLen
  BY FrameResidues, Zenon

---------------------------------------------------------------------------
(* Runs of bytes that follow one another. *)

\* q is the bytes just before one whose position is d, modulo the frame.
Ends(q, d) == \A i \in 1 .. Len(q) : q[i].pos = (d + i - 1 - Len(q)) % FrameLen

\* Only the residue of d matters.
LEMMA EndsSame ==
    ASSUME NEW q \in Seq(Byte), NEW d \in Int, NEW e \in Int,
           d % FrameLen = e % FrameLen, Ends(q, d)
    PROVE  Ends(q, e)
<1>1. Len(q) \in Nat /\ DOMAIN q = 1 .. Len(q)
  OBVIOUS
<1>2. ASSUME NEW i \in 1 .. Len(q)
      PROVE  q[i].pos = (e + i - 1 - Len(q)) % FrameLen
  <2> DEFINE c == i - 1 - Len(q)
  <2>1. c \in Int
    BY <1>1
  <2>2. d + i - 1 - Len(q) = d + c /\ e + i - 1 - Len(q) = e + c
    BY <1>1
  <2>3. q[i].pos = (d + i - 1 - Len(q)) % FrameLen
    <3> HIDE DEF c
    <3> QED
      BY <1>1 DEF Ends
  <2> HIDE DEF c
  <2>4. (d + c) % FrameLen = (e + c) % FrameLen
    BY <2>1, FrameResidues, Zenon
  <2> QED
    BY <2>2, <2>3, <2>4
<1> QED
  BY <1>2 DEF Ends

\* A byte at d follows.
LEMMA EndsAppend ==
    ASSUME NEW q \in Seq(Byte), NEW b \in Byte, NEW d \in Int,
           Ends(q, d), b.pos = d % FrameLen
    PROVE  Ends(Append(q, b), d + 1)
<1> DEFINE p == Append(q, b)
           n == Len(q)
<1>1. /\ n \in Nat /\ Len(p) = n + 1 /\ DOMAIN p = 1 .. n + 1 /\ DOMAIN q = 1 .. n
      /\ p[n + 1] = b /\ \A i \in 1 .. n : p[i] = q[i]
  BY AppendProperties
<1> HIDE DEF p, n
<1>2. ASSUME NEW i \in 1 .. Len(p)
      PROVE  p[i].pos = (d + 1 + i - 1 - Len(p)) % FrameLen
  <2>1. CASE i \in 1 .. n
    <3>1. d + 1 + i - 1 - Len(p) = d + i - 1 - n
      BY <1>1, <2>1
    <3>2. q[i].pos = (d + i - 1 - n) % FrameLen
      BY <1>1, <2>1 DEF Ends, n
    <3> QED
      BY <1>1, <2>1, <3>1, <3>2
  <2>2. CASE i = n + 1
    <3>1. d + 1 + i - 1 - Len(p) = d
      BY <1>1, <2>2
    <3> QED
      BY <1>1, <2>2, <3>1
  <2>3. i \in 1 .. n \/ i = n + 1
    BY <1>1
  <2> QED
    BY <2>1, <2>2, <2>3
<1>3. Ends(p, d + 1)
  BY <1>2 DEF Ends
<1> QED
  BY <1>3 DEF p

\* The end of a run is a run that ends at the same place.
LEMMA EndsSuffix ==
    ASSUME NEW q \in Seq(Byte), NEW d \in Int, NEW m \in 1 .. Len(q) + 1, Ends(q, d)
    PROVE  /\ SubSeq(q, m, Len(q)) \in Seq(Byte)
           /\ Len(SubSeq(q, m, Len(q))) = Len(q) + 1 - m
           /\ Ends(SubSeq(q, m, Len(q)), d)
<1> DEFINE n == Len(q)
           r == SubSeq(q, m, n)
<1>0. n \in Nat /\ DOMAIN q = 1 .. n /\ \A i \in 1 .. n : q[i] \in Byte
  OBVIOUS
<1>1. m \in Nat /\ m >= 1 /\ m <= n + 1
  BY <1>0
<1>2. \A i \in m .. n : q[i] \in Byte
  BY <1>0, <1>1
<1>3. /\ r \in Seq(Byte) /\ Len(r) = (IF m <= n THEN n - m + 1 ELSE 0)
      /\ \A i \in 1 .. n - m + 1 : r[i] = q[m + i - 1]
  BY <1>0, <1>1, <1>2, SubSeqProperties
<1>4. DOMAIN r = 1 .. Len(r)
  BY <1>3
<1> HIDE DEF r, n
<1>5. Len(r) = n + 1 - m
  BY <1>0, <1>1, <1>3
<1>6. ASSUME NEW i \in 1 .. Len(r)
      PROVE  r[i].pos = (d + i - 1 - Len(r)) % FrameLen
  <2> DEFINE j == m + i - 1
  <2>1. i \in 1 .. n - m + 1 /\ j \in 1 .. n /\ d + i - 1 - Len(r) = d + j - 1 - n
    BY <1>0, <1>1, <1>4, <1>5
  <2>2. r[i] = q[j]
    BY <1>3, <2>1
  <2> HIDE DEF j
  <2>3. q[j].pos = (d + j - 1 - n) % FrameLen
    BY <1>0, <2>1 DEF Ends, n
  <2> QED
    BY <2>1, <2>2, <2>3
<1>7. Ends(r, d)
  BY <1>6 DEF Ends
<1> QED
  BY <1>3, <1>5, <1>7 DEF r, n

\* The first byte is taken.
LEMMA EndsTail ==
    ASSUME NEW q \in Seq(Byte), q # <<>>, NEW d \in Int, Ends(q, d)
    PROVE  /\ Tail(q) \in Seq(Byte) /\ Len(Tail(q)) = Len(q) - 1 /\ Ends(Tail(q), d)
           /\ Head(q) \in Byte /\ Head(q).pos = (d - Len(q)) % FrameLen
<1> DEFINE n == Len(q)
<1>1. /\ n \in Nat /\ n >= 1 /\ Head(q) \in Byte /\ Head(q) = q[1] /\ DOMAIN q = 1 .. n
      /\ Tail(q) \in Seq(Byte) /\ Len(Tail(q)) = n - 1
  BY HeadTailProperties
<1>2. Tail(q) = SubSeq(q, 2, Len(q))
  BY TailIsSubSeq
<1>3. 2 \in 1 .. Len(q) + 1
  BY <1>1
<1>4. Ends(Tail(q), d)
  BY <1>2, <1>3, EndsSuffix
<1>5. q[1].pos = (d + 1 - 1 - n) % FrameLen
  <2>1. 1 \in 1 .. Len(q)
    BY <1>1
  <2> QED
    BY <2>1 DEF Ends
<1>6. d + 1 - 1 - n = d - n
  BY <1>1
<1> QED
  BY <1>1, <1>4, <1>5, <1>6

\* Two runs, the second right behind the first, are one run.
LEMMA EndsConcat ==
    ASSUME NEW q \in Seq(Byte), NEW t \in Seq(Byte), NEW d \in Int,
           Ends(t, d), Ends(q, d - Len(t))
    PROVE  /\ q \o t \in Seq(Byte) /\ Len(q \o t) = Len(q) + Len(t)
           /\ Ends(q \o t, d)
<1> DEFINE s == q \o t
           m == Len(q)
           n == Len(t)
<1>1. /\ m \in Nat /\ n \in Nat /\ s \in Seq(Byte) /\ Len(s) = m + n
      /\ \A i \in 1 .. m + n : s[i] = IF i <= m THEN q[i] ELSE t[i - m]
  BY ConcatProperties
<1>2. /\ \A i \in 1 .. m : q[i].pos = (d - n + i - 1 - m) % FrameLen
      /\ \A i \in 1 .. n : t[i].pos = (d + i - 1 - n) % FrameLen
  BY DEF Ends
<1> HIDE DEF s, m, n
<1>3. ASSUME NEW i \in 1 .. m + n
      PROVE  s[i].pos = (d + i - 1 - (m + n)) % FrameLen
  <2>1. CASE i <= m
    <3>1. i \in 1 .. m /\ d - n + i - 1 - m = d + i - 1 - (m + n)
      BY <1>1, <2>1
    <3>2. s[i] = q[i]
      BY <1>1, <2>1
    <3> QED
      BY <1>2, <3>1, <3>2
  <2>2. CASE ~(i <= m)
    <3> DEFINE j == i - m
    <3>1. j \in 1 .. n /\ d + j - 1 - n = d + i - 1 - (m + n)
      BY <1>1, <2>2
    <3>2. s[i] = t[j]
      BY <1>1, <2>2
    <3> HIDE DEF j
    <3> QED
      BY <1>2, <3>1, <3>2
  <2> QED
    BY <2>1, <2>2
<1>4. Ends(s, d)
  BY <1>1, <1>3 DEF Ends
<1> QED
  BY <1>1, <1>4 DEF s, m, n

\* A FIFO in which every byte is followed by its successor, up to the byte
\* the transmitter sends next, is a run that ends there: the last byte that
\* were out of place would be followed by one in its place.
LEMMA UnbrokenEnds ==
    ASSUME NEW q \in Seq(Byte), Unbroken(q), line.pos \in 0 .. FrameLen - 1
    PROVE  Ends(q, line.pos)
<1> DEFINE n == Len(q)
           p == line.pos
           Off == {j \in 0 .. n - 1 : q[n - j].pos # (p - 1 - j) % FrameLen}
<1>1. n \in Nat /\ DOMAIN q = 1 .. n /\ p \in 0 .. FrameLen - 1 /\ p \in Int
      /\ \A i \in 1 .. n : q[i].pos \in 0 .. FrameLen - 1
  <2>1. n \in Nat /\ DOMAIN q = 1 .. n /\ \A i \in 1 .. n : q[i] \in Byte
    OBVIOUS
  <2>2. \A b \in Byte : b.pos \in 0 .. FrameLen - 1
    BY DEF Byte
  <2>3. p \in 0 .. FrameLen - 1 /\ p \in Int
    BY Sizes
  <2> QED
    BY <2>1, <2>2, <2>3
<1>2. ASSUME NEW i \in 1 .. n
      PROVE  (q[i].pos + 1) % FrameLen = IF i = n THEN p ELSE q[i + 1].pos
  BY <1>1 DEF Unbroken
<1> HIDE DEF n, p
<1>3. p % FrameLen = p
  BY <1>1, FrameResidues
<1>4. Off = {}
  <2> SUFFICES ASSUME Off # {} PROVE FALSE
    OBVIOUS
  <2>1. Off \in SUBSET Nat
    BY <1>1
  <2>2. PICK j \in Off : \A k \in Off : j <= k
    <3> HIDE DEF Off
    <3> QED
      BY <2>1, LeastElement
  <2>3. j \in 0 .. n - 1 /\ q[n - j].pos # (p - 1 - j) % FrameLen
    OBVIOUS
  <2>4. n - j \in 1 .. n
    BY <1>1, <2>3
  <2>5. CASE j = 0
    <3>1. n - j = n /\ p - 1 - j = p - 1
      BY <1>1, <2>5
    <3>2. (q[n - j].pos + 1) % FrameLen = p % FrameLen
      BY <1>2, <1>3, <2>4, <3>1
    <3>3. q[n - j].pos = (p - 1) % FrameLen
      BY <1>1, <2>4, <3>2, Sizes, BeforeStep
    <3> QED
      BY <2>3, <3>1, <3>3
  <2>6. CASE j # 0
    <3> DEFINE a == p - 1 - (j - 1)
    <3>1. j - 1 \in 0 .. n - 1 /\ ~(j <= j - 1) /\ n - (j - 1) = (n - j) + 1 /\ n - j # n
          /\ a \in Int /\ a - 1 = p - 1 - j
      BY <1>1, <2>3, <2>6
    <3>2. j - 1 \notin Off
      BY <2>2, <3>1
    <3>3. q[n - (j - 1)].pos = a % FrameLen
      BY <3>1, <3>2
    <3> HIDE DEF a
    <3>4. (q[n - j].pos + 1) % FrameLen = a % FrameLen
      BY <1>2, <2>4, <3>1, <3>3
    <3>5. q[n - j].pos = (a - 1) % FrameLen
      BY <1>1, <2>4, <3>1, <3>4, Sizes, BeforeStep
    <3> QED
      BY <2>3, <3>1, <3>5
  <2> QED
    BY <2>5, <2>6
<1>5. ASSUME NEW i \in 1 .. n
      PROVE  q[i].pos = (p + i - 1 - n) % FrameLen
  <2>1. n - i \in 0 .. n - 1 /\ n - (n - i) = i /\ p - 1 - (n - i) = p + i - 1 - n
    BY <1>1
  <2>2. n - i \notin Off
    BY <1>4
  <2> QED
    BY <2>1, <2>2
<1> QED
  BY <1>1, <1>5 DEF Ends, n, p

---------------------------------------------------------------------------
(* The histogram of frame_sync(). *)

\* A residue's count is a number no greater than the bytes collected, and
\* is not zero when a byte of 0x01 has that residue.
LEMMA OnesNat ==
    ASSUME buf \in Seq(Byte), NEW r
    PROVE  /\ Ones(r) \in Nat /\ Ones(r) <= Len(buf)
           /\ Ones(r) = 0 => \A i \in DOMAIN buf : ~(buf[i].one /\ (i - 1) % FrameLen = r)
           /\ (\A i \in DOMAIN buf : ~(buf[i].one /\ (i - 1) % FrameLen = r)) => Ones(r) = 0
<1> DEFINE S == {i \in DOMAIN buf : buf[i].one /\ (i - 1) % FrameLen = r}
<1>1. Len(buf) \in Nat /\ DOMAIN buf = 1 .. Len(buf)
  OBVIOUS
<1>2. S \in SUBSET (1 .. Len(buf)) /\ IsFiniteSet(1 .. Len(buf))
      /\ Cardinality(1 .. Len(buf)) = Len(buf)
  <2>1. S \in SUBSET (1 .. Len(buf))
    BY <1>1
  <2>2. IsFiniteSet(1 .. Len(buf)) /\ Cardinality(1 .. Len(buf)) = Len(buf)
    <3>1. 1 \in Int /\ Len(buf) \in Int
      BY <1>1
    <3> DEFINE k == Cardinality(1 .. Len(buf))
    <3>2. IsFiniteSet(1 .. Len(buf)) /\ k = IF 1 > Len(buf) THEN 0 ELSE Len(buf) - 1 + 1
      BY <3>1, FS_Interval, Zenon
    <3> HIDE DEF S, k
    <3>3. \A l \in Nat : (IF 1 > l THEN 0 ELSE l - 1 + 1) = l
      OBVIOUS
    <3>4. k = Len(buf)
      BY <1>1, <3>2, <3>3, Zenon
    <3> QED
      BY <3>2, <3>4 DEF k
  <2> QED
    BY <2>1, <2>2, Zenon
<1>3. IsFiniteSet(S) /\ Cardinality(S) <= Cardinality(1 .. Len(buf))
  <2> HIDE DEF S
  <2> QED
    BY <1>2, FS_Subset, Zenon
<1>4. Cardinality(S) \in Nat /\ (Cardinality(S) = 0 <=> S = {})
  <2> HIDE DEF S
  <2> QED
    BY <1>3, FS_CardinalityType, FS_EmptySet
<1>5. Ones(r) = Cardinality(S)
  BY DEF Ones
<1> QED
  BY <1>2, <1>3, <1>4, <1>5

\* Some residue wins, and it is one of a frame.
LEMMA BestRange ==
    ASSUME buf \in Seq(Byte)
    PROVE  Best \in 0 .. FrameLen - 1
<1> DEFINE R == 0 .. FrameLen - 1
           miss(r) == Len(buf) - Ones(r)
           D == {miss(r) : r \in R}
<1>1. R \in SUBSET Nat /\ 0 \in R
  BY Sizes
<1>2. ASSUME NEW r \in R
      PROVE  miss(r) \in Nat
  BY OnesNat
<1>3. D \in SUBSET Nat /\ D # {}
  BY <1>1, <1>2
<1>4. PICK m \in D : \A k \in D : m <= k
  <2> HIDE DEF D
  <2> QED
    BY <1>3, LeastElement
<1> DEFINE B == {r \in R : miss(r) = m}
<1>5. B \in SUBSET Nat /\ B # {}
  BY <1>1, <1>4
<1>6. PICK b \in B : \A c \in B : b <= c
  <2> HIDE DEF B
  <2> QED
    BY <1>5, LeastElement
<1>7. ASSUME NEW q \in R
      PROVE  Ones(q) < Ones(b) \/ (Ones(q) = Ones(b) /\ b <= q)
  <2>1. b \in R /\ miss(b) = m /\ m <= miss(q) /\ (miss(q) = m => b <= q)
    BY <1>4, <1>6
  <2>2. Ones(q) \in Nat /\ Ones(b) \in Nat /\ Len(buf) \in Nat
    BY OnesNat
  <2> QED
    BY <2>1, <2>2
<1>8. \E r \in R : \A q \in R : Ones(q) < Ones(r) \/ (Ones(q) = Ones(r) /\ r <= q)
  BY <1>6, <1>7
<1> HIDE DEF R
<1>9. (CHOOSE r \in R : \A q \in R : Ones(q) < Ones(r) \/ (Ones(q) = Ones(r) /\ r <= q)) \in R
  BY <1>8, Zenon
<1> QED
  BY <1>9 DEF Best, R

\* A bucket of the histogram counts the bytes of one place in the frame, when
\* the bytes collected follow one another.
LEMMA BucketIsPlace ==
    ASSUME buf \in Seq(Byte), NEW d \in Int, Ends(buf, d), NEW r \in 0 .. FrameLen - 1
    PROVE  Ones(r) = OnesAt((r + (d - Len(buf))) % FrameLen)
<1> DEFINE n == Len(buf)
           c == d - n
           p == (r + c) % FrameLen
<1>1. n \in Nat /\ DOMAIN buf = 1 .. n /\ FrameLen \in Nat \ {0} /\ c \in Int /\ r \in Int
  BY Sizes
<1>2. \A i \in 1 .. n : buf[i].pos = (d + i - 1 - n) % FrameLen
  BY DEF Ends
<1>3. r % FrameLen = r
  BY FrameResidues, Zenon
<1> HIDE DEF n, c
<1>4. ASSUME NEW i \in 1 .. n
      PROVE  (i - 1) % FrameLen = r <=> buf[i].pos = p
  <2> DEFINE a == i - 1
             e == 0 - c
  <2>1. /\ a \in Int /\ e \in Int /\ a + c \in Int /\ r + c \in Int
        /\ (a + c) + e = a /\ (r + c) + e = r
    BY <1>1
  <2>2. d + i - 1 - n = a + c
    BY <1>1 DEF c
  <2>3. buf[i].pos = (a + c) % FrameLen
    BY <1>2, <2>2
  <2> HIDE DEF a, e
  <2>4. a % FrameLen = r % FrameLen => (a + c) % FrameLen = (r + c) % FrameLen
    BY <1>1, <2>1, SameDistance, Zenon
  <2>5. (a + c) % FrameLen = (r + c) % FrameLen
          => ((a + c) + e) % FrameLen = ((r + c) + e) % FrameLen
    BY <2>1, SameDistance, Zenon
  <2>6. a % FrameLen = r <=> (a + c) % FrameLen = (r + c) % FrameLen
    BY <1>3, <2>1, <2>4, <2>5, Zenon
  <2> QED
    BY <2>3, <2>6 DEF a
<1> HIDE DEF p
<1>5. {i \in DOMAIN buf : buf[i].one /\ (i - 1) % FrameLen = r}
        = {i \in DOMAIN buf : buf[i].one /\ buf[i].pos = p}
  BY <1>1, <1>4, Zenon
<1>6. Ones(r) = OnesAt(p)
  BY <1>5, Zenon DEF Ones, OnesAt
<1> QED
  BY <1>6 DEF p, c, n

\* When the bytes collected follow one another and the flags lead, the
\* histogram finds where the flags are, whatever data bytes are 0x01.
LEMMA BestIsFlag ==
    ASSUME buf \in Seq(Byte), NEW d \in Int, Ends(buf, d), FlagsLead
    PROVE  Best = (Len(buf) - d) % FrameLen
<1> DEFINE R == 0 .. FrameLen - 1
           c == d - Len(buf)
           e == Len(buf) - d
           z == e % FrameLen
<1>1. FrameLen \in Nat \ {0} /\ c \in Int /\ e \in Int /\ e + c = 0 /\ 0 + e = e
      /\ \A r \in R : r + c \in Int /\ (r + c) + e = r
  <2>1. Len(buf) \in Nat
    OBVIOUS
  <2> QED
    BY <2>1, Sizes
<1>2. z \in R
  <2> HIDE DEF e, R
  <2> QED
    BY <1>1, FrameResidues, Zenon DEF R
<1>3. \A r \in R : Ones(r) \in Nat
  BY OnesNat
<1>4. ASSUME NEW r \in R
      PROVE  Ones(r) = OnesAt((r + c) % FrameLen)
  BY BucketIsPlace
<1> HIDE DEF c, e
<1>5. 0 % FrameLen = 0 /\ z % FrameLen = z /\ \A r \in R : r % FrameLen = r
  <2>1. 0 \in R
    BY <1>1
  <2> HIDE DEF z
  <2> QED
    BY <1>2, <2>1, FrameResidues
<1>6. (z + c) % FrameLen = 0
  <2>1. (z + c) % FrameLen = (e + c) % FrameLen
    BY <1>1, ModAdd
  <2> QED
    BY <1>1, <1>5, <2>1
<1>7. ASSUME NEW r \in R, r # z
      PROVE  (r + c) % FrameLen \in 1 .. FrameLen - 1
  <2>1. r + c \in Int /\ (r + c) + e = r /\ 0 \in Int
    BY <1>1
  <2>2. (r + c) % FrameLen \in 0 .. FrameLen - 1
    BY <2>1, FrameResidues, Zenon
  <2>3. (r + c) % FrameLen # 0
    <3>1. SUFFICES ASSUME (r + c) % FrameLen = 0 PROVE FALSE
      OBVIOUS
    <3>2. (r + c) % FrameLen = 0 % FrameLen
      BY <1>5, <3>1, Zenon
    <3>3. ((r + c) + e) % FrameLen = (0 + e) % FrameLen
      <4> DEFINE x == r + c
      <4>1. x \in Int /\ e \in Int /\ 0 \in Int /\ x % FrameLen = 0 % FrameLen
        BY <1>1, <2>1, <3>2
      <4> HIDE DEF x
      <4>2. (x + e) % FrameLen = (0 + e) % FrameLen
        BY <4>1, SameDistance
      <4> QED
        BY <4>2 DEF x
    <3>4. r % FrameLen = e % FrameLen
      BY <1>1, <2>1, <3>3, Zenon
    <3> QED
      BY <1>5, <1>7, <3>4, Zenon
  <2> DEFINE x == (r + c) % FrameLen
  <2>4. x \in 0 .. FrameLen - 1 /\ x # 0
    BY <2>2, <2>3
  <2> HIDE DEF x
  <2>5. x \in 1 .. FrameLen - 1
    BY <1>1, <2>4
  <2> QED
    BY <2>5 DEF x
<1>8. ASSUME NEW r \in R, r # z
      PROVE  Ones(r) < Ones(z)
  <2>1. OnesAt((r + c) % FrameLen) < OnesAt(0)
    BY <1>7, <1>8, Zenon DEF FlagsLead
  <2>2. Ones(r) = OnesAt((r + c) % FrameLen) /\ Ones(z) = OnesAt(0)
    BY <1>2, <1>4, <1>6, Zenon
  <2> QED
    BY <2>1, <2>2, Zenon
<1> HIDE DEF z
<1> DEFINE Wins(r) == \A q \in R : Ones(q) < Ones(r) \/ (Ones(q) = Ones(r) /\ r <= q)
<1>9. z \in Nat
  BY <1>2, Sizes
<1>10. Wins(z)
  BY <1>3, <1>8, <1>9
<1>11. ASSUME NEW r \in R, Wins(r)
       PROVE  r = z
  <2>1. Ones(z) < Ones(r) \/ Ones(z) = Ones(r)
    BY <1>2, <1>11
  <2>2. Ones(z) \in Nat /\ Ones(r) \in Nat
    BY <1>2, <1>3
  <2> QED
    BY <1>8, <2>1, <2>2
<1> HIDE DEF Wins, R
<1>12. (CHOOSE r \in R : Wins(r)) = z
  BY <1>2, <1>10, <1>11, Zenon
<1> QED
  BY <1>12 DEF Best, Wins, R, z, e

\* The bytes frame_sync() discards end where the next frame starts.
LEMMA SkipLands ==
    ASSUME NEW n \in Nat, NEW d \in Int, NEW b \in Int, b = (n - d) % FrameLen
    PROVE  (d + ((b - (n % FrameLen) + FrameLen) % FrameLen)) % FrameLen = 0
<1> DEFINE F == FrameLen
           q == n \div F
           r == n % F
           u == b - r + F
<1>1. F \in Nat \ {0} /\ q \in Int /\ r \in 0 .. F - 1 /\ n = F * q + r
  BY Sizes
<1> HIDE DEF F, q, r
<1>2. u \in Int /\ n - d \in Int /\ d - r + F \in Int
  BY <1>1
<1>3. ((u % F) + d) % F = (u + d) % F
  BY <1>1, <1>2, ModAdd
<1>4. u + d = b + (d - r + F)
  BY <1>1
<1>5. (b + (d - r + F)) % F = ((n - d) + (d - r + F)) % F
  <2>1. (((n - d) % F) + (d - r + F)) % F = ((n - d) + (d - r + F)) % F
    BY <1>1, <1>2, ModAdd
  <2> QED
    BY <2>1 DEF F
<1>6. (n - d) + (d - r + F) = (n - r) + F
  BY <1>1
<1>7. ((n - r) + F) % F = 0
  <2>1. n - r \in Int /\ n - r = F * q + 0 /\ 0 \in 0 .. F - 1
    BY <1>1
  <2>2. ((n - r) + F) % F = (n - r) % F
    BY <1>1, <2>1, Residues
  <2>3. (F * q + 0) % F = 0
    BY <1>1, <2>1, DivModUnique
  <2> QED
    BY <2>1, <2>2, <2>3
<1> DEFINE v == u % F
<1>8. v \in Int /\ (v + d) % F = 0
  <2>1. v \in Int
    <3> HIDE DEF u
    <3> QED
      BY <1>1, <1>2
  <2> QED
    BY <1>3, <1>4, <1>5, <1>6, <1>7, <2>1
<1>9. (d + v) % F = 0
  <2> HIDE DEF v
  <2>1. d + v = v + d
    BY <1>8
  <2> QED
    BY <1>8, <2>1
<1> QED
  BY <1>9 DEF F, r

---------------------------------------------------------------------------
(* Type correctness. *)

\* What is left of a collection once its leading remainder is cut.
LEMMA WholeFramesOf ==
    ASSUME NEW q \in Seq(Byte)
    PROVE  /\ WholeFrames(q) \in Seq(Byte)
           /\ Len(WholeFrames(q)) = Len(q) - (Len(q) % FrameLen)
           /\ \A d \in Int : Ends(q, d) => Ends(WholeFrames(q), d)
<1> DEFINE n == Len(q)
           m == (n % FrameLen) + 1
<1>1. n \in Nat /\ n % FrameLen \in Nat /\ n % FrameLen <= n /\ m \in 1 .. n + 1
  <2>1. n \in Nat /\ FrameLen \in Nat \ {0}
    BY Sizes
  <2> HIDE DEF n
  <2>2. n % FrameLen \in Nat /\ n % FrameLen <= n
    BY <2>1
  <2> QED
    BY <2>1, <2>2
<1>2. WholeFrames(q) = SubSeq(q, m, n)
  BY DEF WholeFrames
<1>3. n + 1 - m = n - (n % FrameLen)
  BY <1>1
<1>4. \A i \in m .. n : q[i] \in Byte
  BY <1>1
<1>5. SubSeq(q, m, n) \in Seq(Byte) /\ Len(SubSeq(q, m, n)) = n + 1 - m
  <2>1. /\ SubSeq(q, m, n) \in Seq(Byte)
        /\ Len(SubSeq(q, m, n)) = IF m <= n THEN n - m + 1 ELSE 0
    <3> HIDE DEF m
    <3> QED
      BY <1>1, <1>4, SubSeqProperties
  <2> HIDE DEF m, n
  <2> QED
    BY <1>1, <2>1
<1>6. \A d \in Int : Ends(q, d) => Ends(SubSeq(q, m, n), d)
  <2> HIDE DEF m
  <2> QED
    BY <1>1, EndsSuffix
<1> QED
  BY <1>2, <1>3, <1>5, <1>6

\* Sequences grow and shrink by one byte.
LEMMA OneByte ==
    ASSUME NEW q \in Seq(Byte)
    PROVE  /\ Len(q) \in Nat
           /\ \A b \in Byte : Append(q, b) \in Seq(Byte) /\ Len(Append(q, b)) = Len(q) + 1
                              /\ Append(q, b)[1] \in Byte
           /\ q # <<>> => /\ Head(q) \in Byte /\ Tail(q) \in Seq(Byte)
                          /\ Len(Tail(q)) = Len(q) - 1 /\ Len(q) >= 1
<1>1. Len(q) \in Nat
  OBVIOUS
<1>2. ASSUME NEW b \in Byte
      PROVE  Append(q, b) \in Seq(Byte) /\ Len(Append(q, b)) = Len(q) + 1
             /\ Append(q, b)[1] \in Byte
  <2>1. Append(q, b) \in Seq(Byte) /\ Len(Append(q, b)) = Len(q) + 1
    BY AppendProperties
  <2>2. 1 \in DOMAIN Append(q, b)
    BY <1>1, <2>1
  <2> QED
    BY <2>1, <2>2
<1>3. q # <<>> => /\ Head(q) \in Byte /\ Tail(q) \in Seq(Byte)
                  /\ Len(Tail(q)) = Len(q) - 1 /\ Len(q) >= 1
  BY <1>1, HeadTailProperties
<1> QED
  BY <1>1, <1>2, <1>3

\* A fault is counted within its bound.
LEMMA FaultCounts ==
    ASSUME TypeOK, Fault
    PROVE  faults' \in 0 .. MaxFaults
  BY Sizes DEF TypeOK, Fault

\* The transmitter moves on to a position of a frame.
LEMMA NextPosition ==
    ASSUME TypeOK
    PROVE  [pos |-> (line.pos + 1) % FrameLen, gap |-> FALSE]
              \in [pos : 0 .. FrameLen - 1, gap : BOOLEAN]
<1>1. line.pos \in 0 .. FrameLen - 1
  BY DEF TypeOK
<1>2. line.pos + 1 \in Int
  BY <1>1, Sizes
<1>3. (line.pos + 1) % FrameLen \in 0 .. FrameLen - 1
  BY <1>2, FrameResidues, Zenon
<1> QED
  BY <1>3

\* Every step keeps the types and the sizes.
LEMMA TypeStep ==
    ASSUME TypeOK, [Next]_vars
    PROVE  TypeOK'
<1>0. <<>> \in Seq(Byte) /\ Len(<<>>) = 0
  OBVIOUS
<1>1. CASE UNCHANGED vars
  BY <1>1 DEF TypeOK, vars
<1>2. CASE Send
  <2>1. PICK one \in BOOLEAN :
          /\ one /\ line.pos # 0 => faults < MaxFaults
          /\ faults' = faults + IF one /\ line.pos # 0 THEN 1 ELSE 0
          /\ fifo' = Append(fifo, [pos |-> line.pos, one |-> one])
    BY <1>2 DEF Send
  <2>2. [pos |-> line.pos, one |-> one] \in Byte
    BY DEF TypeOK, Byte
  <2>3. fifo \in Seq(Byte) /\ Len(fifo) < FifoLen
    BY <1>2 DEF TypeOK, Send
  <2>4. fifo' \in Seq(Byte) /\ Len(fifo') <= FifoLen
    <3>1. fifo' \in Seq(Byte) /\ Len(fifo') = Len(fifo) + 1 /\ Len(fifo) \in Nat
      BY <2>1, <2>2, <2>3, OneByte
    <3> QED
      BY <2>3, <3>1, Sizes
  <2>5. faults' \in 0 .. MaxFaults
    BY <2>1, Sizes DEF TypeOK
  <2>6. line' \in [pos : 0 .. FrameLen - 1, gap : BOOLEAN]
    BY <1>2, NextPosition DEF Send
  <2> QED
    BY <1>2, <2>4, <2>5, <2>6 DEF TypeOK, Send, host
<1>3. CASE Overrun
  <2>1. line' \in [pos : 0 .. FrameLen - 1, gap : BOOLEAN]
    BY <1>3, NextPosition DEF Overrun
  <2>2. faults' \in 0 .. MaxFaults
    BY <1>3, FaultCounts DEF Overrun
  <2> QED
    BY <1>3, <2>1, <2>2 DEF TypeOK, Overrun, host
<1>4. CASE Silence
  <2>1. line' \in [pos : 0 .. FrameLen - 1, gap : BOOLEAN]
    BY <1>4 DEF Silence, TypeOK
  <2> QED
    BY <1>4, <2>1 DEF TypeOK, Silence, host
<1>5. CASE Push \/ PushStalled
  <2>1. faults' \in 0 .. MaxFaults
    BY <1>5, FaultCounts DEF Push, PushStalled
  <2>2. fifo' \in Seq(Byte) /\ Len(fifo') <= FifoLen
    <3>1. fifo' = <<>>
      BY <1>5 DEF Push, PushStalled
    <3>2. fifo' \in Seq(Byte) /\ Len(fifo') = 0
      BY <1>0, <3>1, Zenon
    <3> QED
      BY <3>2, Sizes
  <2>3. frame' \in Seq(Byte) /\ Len(frame') < FrameLen
    BY <1>0, <1>5, Sizes DEF Push, PushStalled, TypeOK, host
  <2> QED
    BY <1>5, <2>1, <2>2, <2>3 DEF TypeOK, Push, PushStalled, host
<1>6. CASE SyncStart
  <2>1. /\ buf' \in Seq(Byte) /\ Len(buf') <= NSync /\ frame' \in Seq(Byte)
        /\ Len(frame') < FrameLen /\ replay' \in Seq(Byte)
        /\ Len(replay') <= BackFrames * FrameLen
    BY <1>0, <1>6, Sizes, Products DEF SyncStart
  <2>2. Unbroken(fifo) \in BOOLEAN
    BY DEF Unbroken
  <2> QED
    BY <1>6, <2>1, <2>2 DEF TypeOK, SyncStart
<1>7. CASE Collect \/ ReadAligned
  <2>1. fifo \in Seq(Byte) /\ buf \in Seq(Byte) /\ fifo # <<>> /\ Len(fifo) <= FifoLen
        /\ buf' = Append(buf, Head(fifo)) /\ fifo' = Tail(fifo)
    BY <1>7 DEF TypeOK, Collect, ReadAligned
  <2>2. fifo' \in Seq(Byte) /\ Len(fifo') <= FifoLen /\ buf' \in Seq(Byte)
        /\ Len(buf') = Len(buf) + 1 /\ Len(buf) \in Nat
    BY <2>1, OneByte, Sizes
  <2>3. pc' = "collect" => Len(buf') <= NSync
    BY <1>7, <2>2, Sizes DEF Collect, ReadAligned
  <2>4. pc' = "skip" => Len(buf') <= BackFrames * FrameLen
    BY <1>7, <2>2, Products DEF Collect, ReadAligned
  <2> QED
    BY <1>7, <2>2, <2>3, <2>4 DEF TypeOK, Collect, ReadAligned
<1>8. ASSUME NEW q \in Seq(Byte), Len(q) <= BackFrames * FrameLen, Align(q),
             fifo' = fifo, line' = line, buf' = buf, skip' = skip, frame' = frame,
             bad_run' = bad_run, trust' \in BOOLEAN, faults' \in 0 .. MaxFaults
      PROVE  TypeOK'
  <2>1. replay' \in Seq(Byte) /\ Len(replay') <= BackFrames * FrameLen
    <3>1. replay' \in Seq(Byte) /\ Len(replay') = Len(q) - (Len(q) % FrameLen)
      BY <1>8, WholeFramesOf DEF Align
    <3>2. Len(q) \in Nat /\ Len(q) % FrameLen \in Nat
      <4>1. Len(q) \in Nat
        OBVIOUS
      <4> QED
        BY <4>1, Sizes
    <3> QED
      BY <1>8, <3>1, <3>2, Products
  <2> QED
    BY <1>8, <2>1 DEF TypeOK, Align
<1>9. CASE GapSync
  <2>1. CASE Len(buf) <= BackFrames * FrameLen
    BY <1>8, <1>9, <2>1 DEF TypeOK, GapSync, sync
  <2>2. CASE ~(Len(buf) <= BackFrames * FrameLen)
    BY <1>9, <2>2 DEF TypeOK, GapSync, sync
  <2> QED
    BY <2>1, <2>2
<1>10. CASE QuietSync
  <2>1. Len(<<>>) <= BackFrames * FrameLen
    BY <1>0, Products
  <2> QED
    BY <1>0, <1>8, <1>10, <2>1 DEF TypeOK, QuietSync, sync
<1>11. ASSUME NoGap
       PROVE  faults' \in 0 .. MaxFaults
  BY <1>11, FaultCounts DEF NoGap, TypeOK
<1>12. CASE LockFound
  <2>1. skip' \in 0 .. FrameLen - 1
    <3> DEFINE u == Best - (Len(buf) % FrameLen) + FrameLen
    <3>1. Best \in 0 .. FrameLen - 1 /\ Len(buf) \in Nat
      BY BestRange DEF TypeOK
    <3>2. Best \in Int /\ Len(buf) % FrameLen \in Int
      BY <3>1, Sizes
    <3>3. u \in Int
      BY <3>2, Sizes
    <3> HIDE DEF u
    <3>4. u % FrameLen \in 0 .. FrameLen - 1
      BY <3>3, FrameResidues, Zenon
    <3> QED
      BY <1>12, <3>4 DEF LockFound, SkipTo, u
  <2>2. faults' \in 0 .. MaxFaults
    BY <1>11, <1>12 DEF LockFound
  <2>3. buf' \in Seq(Byte) /\ Len(buf') <= BackFrames * FrameLen
    BY <1>0, <1>12, Products DEF LockFound
  <2>4. trust' \in BOOLEAN
    BY <1>12 DEF LockFound
  <2> QED
    BY <1>12, <2>1, <2>2, <2>3, <2>4 DEF TypeOK, LockFound
<1>13. CASE LockFailed
  <2>1. faults' \in 0 .. MaxFaults
    BY <1>11, <1>13 DEF LockFailed
  <2> QED
    BY <1>13, <2>1 DEF TypeOK, LockFailed, sync
<1>14. CASE SkipByte
  <2>1. skip' \in 0 .. FrameLen - 1
    BY <1>14, Sizes DEF TypeOK, SkipByte
  <2>2. fifo' \in Seq(Byte) /\ Len(fifo') <= FifoLen
    <3>1. fifo \in Seq(Byte) /\ fifo # <<>> /\ fifo' = Tail(fifo) /\ Len(fifo) <= FifoLen
      BY <1>14 DEF TypeOK, SkipByte
    <3> QED
      BY <3>1, OneByte, Sizes
  <2> QED
    BY <1>14, <2>1, <2>2 DEF TypeOK, SkipByte
<1>15. CASE SkipDeadline
  <2>1. faults' \in 0 .. MaxFaults
    BY <1>15, FaultCounts DEF SkipDeadline
  <2> QED
    BY <1>15, <2>1 DEF TypeOK, SkipDeadline, sync
<1>16. CASE LockSync
  <2>1. faults' \in 0 .. MaxFaults
    BY <1>16, FaultCounts DEF LockSync, TypeOK
  <2>2. trust' \in BOOLEAN
    BY <1>16 DEF LockSync
  <2>3. Len(buf) <= BackFrames * FrameLen /\ buf \in Seq(Byte)
    BY <1>16 DEF LockSync, TypeOK
  <2> QED
    BY <1>8, <1>16, <2>1, <2>2, <2>3 DEF LockSync, sync
<1>17. CASE Drain
  <2> DEFINE b == IF replay # <<>> THEN Head(replay) ELSE Head(fifo)
             full == Append(frame, b)
  <2>1. /\ fifo \in Seq(Byte) /\ replay \in Seq(Byte) /\ frame \in Seq(Byte)
        /\ Len(fifo) <= FifoLen /\ Len(replay) <= BackFrames * FrameLen
        /\ Len(frame) < FrameLen /\ (replay # <<>> \/ fifo # <<>>)
        /\ fifo' = IF replay # <<>> THEN fifo ELSE Tail(fifo)
    BY <1>17 DEF TypeOK, Drain
  <2>2. fifo' \in Seq(Byte) /\ Len(fifo') <= FifoLen
    BY <2>1, OneByte, Sizes
  <2>3. b \in Byte
    BY <2>1, OneByte
  <2>4. full \in Seq(Byte) /\ Len(full) = Len(frame) + 1 /\ Len(frame) \in Nat
    BY <2>1, <2>3, OneByte
  <2>5. Replayed \in Seq(Byte) /\ Len(Replayed) <= BackFrames * FrameLen
    <3>1. CASE replay = <<>>
      BY <2>1, <3>1 DEF Replayed
    <3>2. CASE replay # <<>>
      <4>1. Tail(replay) \in Seq(Byte) /\ Len(Tail(replay)) = Len(replay) - 1
            /\ Len(replay) \in Nat
        BY <2>1, <3>2, OneByte
      <4> QED
        BY <2>1, <3>2, <4>1, Products DEF Replayed
    <3> QED
      BY <3>1, <3>2
  <2> HIDE DEF b
  <2>6. /\ \/ frame' = <<>>
           \/ frame' = full /\ Len(full) # FrameLen
        /\ replay' = Replayed \/ replay' = <<>>
        /\ synced' = synced \/ synced' = FALSE
        /\ bad_run' = bad_run \/ bad_run' = 0 \/ bad_run' = (bad_run + 1) % BadRun
    BY <1>17 DEF Drain, GoodFrame, BadFrame, b
  <2> HIDE DEF full
  <2>7. frame' \in Seq(Byte) /\ Len(frame') < FrameLen
    <3>1. frame' = <<>> => frame' \in Seq(Byte) /\ Len(frame') = 0
      BY <1>0, Zenon
    <3> QED
      BY <2>1, <2>4, <2>6, <3>1, Sizes
  <2>8. replay' \in Seq(Byte) /\ Len(replay') <= BackFrames * FrameLen
    <3>1. replay' = <<>> => replay' \in Seq(Byte) /\ Len(replay') = 0
      BY <1>0, Zenon
    <3> QED
      BY <2>5, <2>6, <3>1, Products
  <2>9. bad_run' \in 0 .. BadRun - 1
    <3>1. bad_run \in 0 .. BadRun - 1 /\ BadRun \in Nat \ {0}
      BY Sizes DEF TypeOK
    <3>2. (bad_run + 1) % BadRun \in 0 .. BadRun - 1 /\ 0 \in 0 .. BadRun - 1
      BY <3>1
    <3> QED
      BY <2>6, <3>1, <3>2
  <2>10. synced' \in BOOLEAN
    BY <2>6 DEF TypeOK
  <2> QED
    BY <1>17, <2>2, <2>7, <2>8, <2>9, <2>10 DEF TypeOK, Drain, sync
<1> QED
  BY <1>1, <1>2, <1>3, <1>4, <1>5, <1>6, <1>7, <1>9, <1>10, <1>12, <1>13, <1>14, <1>15, <1>16,
     <1>17 DEF Next, frame_sync

---------------------------------------------------------------------------
(* The inductive invariant. *)

\* Where frame_sync() is fixes what the loop holds meanwhile, and the line is
\* silent only between frames.
Phases ==
    /\ line.gap => line.pos = 0
    /\ synced => pc = "loop"
    /\ pc \in {"collect", "skip"} => frame = <<>> /\ replay = <<>>
    /\ pc = "skip" /\ skip > 0 => buf = <<>>

\* The position, modulo the frame, of the next byte read from the UART.
Here == line.pos - Len(fifo)

\* What frame_sync() has collected runs up to that byte.
Tracked == trust /\ pc \in {"collect", "skip"} => Ends(fifo, line.pos) /\ Ends(buf, Here)

\* A lock discards up to the start of a frame, and has read from there since.
Lands == trust /\ pc = "skip" => (Here - Len(buf) + skip) % FrameLen = 0

\* The assembler's bytes, the replay and the FIFO are one run that starts a
\* frame.
Drains ==
    trust /\ synced =>
        /\ Ends(fifo, line.pos) /\ Ends(replay, Here) /\ Ends(frame, Here - Len(replay))
        /\ (Here - Len(replay) - Len(frame)) % FrameLen = 0

FramingInv == TypeOK /\ Phases /\ Tracked /\ Lands /\ Drains

\* The positions are integers, the lengths numbers.
LEMMA Lengths ==
    ASSUME TypeOK
    PROVE  /\ line.pos \in 0 .. FrameLen - 1 /\ line.pos \in Int /\ Here \in Int
           /\ Len(fifo) \in Nat /\ Len(buf) \in Nat /\ Len(replay) \in Nat /\ Len(frame) \in Nat
           /\ skip \in 0 .. FrameLen - 1 /\ skip \in Nat
<1>1. line.pos \in 0 .. FrameLen - 1 /\ skip \in 0 .. FrameLen - 1
  BY DEF TypeOK
<1>2. /\ Len(fifo) \in Nat /\ Len(buf) \in Nat /\ Len(replay) \in Nat /\ Len(frame) \in Nat
  BY DEF TypeOK
<1>3. line.pos \in Int /\ skip \in Nat
  BY <1>1, Sizes
<1> QED
  BY <1>1, <1>2, <1>3 DEF Here

\* Nothing was read, nothing is to be in its place.
LEMMA EndsEmpty == \A d : Ends(<<>>, d)
<1>1. Len(<<>>) = 0 /\ 1 .. 0 = {}
  OBVIOUS
<1> QED
  BY <1>1 DEF Ends

\* It holds before the first sync.
LEMMA FramingInit ==
    ASSUME Init
    PROVE  FramingInv
<1>0. <<>> \in Seq(Byte) /\ Len(<<>>) = 0
  OBVIOUS
<1>1. line \in [pos : 0 .. FrameLen - 1, gap : BOOLEAN] /\ ~line.gap
  BY DEF Init
<1>2. /\ 0 \in 0 .. FrameLen - 1 /\ 0 \in 0 .. BadRun - 1 /\ 0 \in 0 .. MaxFaults
      /\ 0 <= FifoLen /\ 0 <= NSync /\ 0 < FrameLen /\ 0 <= BackFrames * FrameLen
  BY Sizes, Products
<1>3. TypeOK
  BY <1>0, <1>1, <1>2 DEF Init, TypeOK
<1>4. Phases /\ Tracked /\ Lands /\ Drains
  BY <1>1 DEF Init, Phases, Tracked, Lands, Drains
<1> QED
  BY <1>3, <1>4 DEF FramingInv

\* Every step keeps the phases apart.
LEMMA PhasesStep ==
    ASSUME FramingInv, [Next]_vars
    PROVE  Phases'
<1>1. TypeOK /\ Phases
  BY DEF FramingInv
<1>2. CASE UNCHANGED vars
  BY <1>1, <1>2 DEF Phases, vars
<1>3. CASE Send \/ Overrun \/ Silence
  <2>1. line'.gap => line'.pos = 0
    BY <1>1, <1>3 DEF TypeOK, Phases, Send, Overrun, Silence
  <2>2. UNCHANGED host
    BY <1>3 DEF Send, Overrun, Silence
  <2> QED
    BY <1>1, <2>1, <2>2 DEF Phases, host
<1>4. CASE Push \/ PushStalled
  BY <1>1, <1>4 DEF Phases, Push, PushStalled, host
<1>5. CASE SyncStart
  BY <1>1, <1>5 DEF Phases, SyncStart
<1>6. CASE Collect \/ ReadAligned
  BY <1>1, <1>6 DEF Phases, Collect, ReadAligned
<1>7. CASE GapSync \/ QuietSync
  BY <1>1, <1>7 DEF Phases, GapSync, QuietSync, Quiet, Align, sync
<1>8. CASE LockFound \/ LockFailed
  BY <1>1, <1>8 DEF Phases, LockFound, LockFailed, NoGap, sync
<1>9. CASE SkipByte \/ SkipDeadline \/ LockSync
  BY <1>1, <1>9, Lengths DEF Phases, SkipByte, SkipDeadline, LockSync, Align, sync
<1>10. CASE Drain
  BY <1>1, <1>10 DEF Phases, Drain, GoodFrame, BadFrame, sync
<1> QED
  BY <1>2, <1>3, <1>4, <1>5, <1>6, <1>7, <1>8, <1>9, <1>10 DEF Next, frame_sync

\* Sending a byte moves the line and fills the FIFO: the next byte read is
\* where it was.
LEMMA SendShift ==
    ASSUME TypeOK, Send
    PROVE  /\ fifo' \in Seq(Byte) /\ line'.pos \in Int /\ Here' \in Int
           /\ Here' % FrameLen = Here % FrameLen
           /\ Ends(fifo, line.pos) => Ends(fifo', line'.pos)
<1> DEFINE p == line.pos
           n == Len(fifo)
           p1 == (p + 1) % FrameLen
<1>1. PICK one \in BOOLEAN : fifo' = Append(fifo, [pos |-> p, one |-> one])
  BY DEF Send
<1> DEFINE b == [pos |-> p, one |-> one]
<1>2. b \in Byte /\ b.pos = p /\ fifo \in Seq(Byte)
  BY DEF TypeOK, Byte
<1>3. p \in 0 .. FrameLen - 1 /\ p \in Int /\ n \in Nat
  BY Lengths
<1>4. line'.pos = p1
  BY DEF Send
<1> HIDE DEF b, p, n
<1>5. fifo' \in Seq(Byte) /\ Len(fifo') = n + 1
  BY <1>1, <1>2, OneByte DEF b, n
<1>6. p + 1 \in Int /\ p % FrameLen = p
  BY <1>3, FrameResidues
<1>7. p1 \in Int /\ p1 \in 0 .. FrameLen - 1 /\ p1 % FrameLen = (p + 1) % FrameLen
  <2>1. p1 \in 0 .. FrameLen - 1
    BY <1>6, FrameResidues, Zenon
  <2>2. p1 % FrameLen = p1
    BY <2>1, FrameResidues, Zenon
  <2>3. p1 \in Int
    BY <2>1, Sizes
  <2> QED
    BY <2>1, <2>2, <2>3
<1> HIDE DEF p1
<1>8. Here' = p1 - (n + 1)
  BY <1>4, <1>5 DEF Here
<1>9. Here = p - n
  BY DEF Here, p, n
<1>10. Here' \in Int /\ Here' % FrameLen = Here % FrameLen
  <2> DEFINE c == -(n + 1)
  <2>1. c \in Int /\ p1 + c = p1 - (n + 1) /\ (p + 1) + c = p - n
    BY <1>3, <1>7
  <2> HIDE DEF c
  <2>2. (p1 + c) % FrameLen = ((p + 1) + c) % FrameLen
    BY <1>6, <1>7, <2>1, FrameResidues, Zenon
  <2>3. Here' \in Int
    BY <1>3, <1>7, <1>8
  <2> QED
    BY <1>8, <1>9, <2>1, <2>2, <2>3
<1>11. Ends(fifo, p) => Ends(fifo', p1)
  <2> SUFFICES ASSUME Ends(fifo, p) PROVE Ends(fifo', p1)
    OBVIOUS
  <2>1. Ends(Append(fifo, b), p + 1)
    BY <1>2, <1>3, <1>6, EndsAppend
  <2>2. Ends(fifo', p + 1)
    BY <1>1, <2>1 DEF b
  <2> QED
    BY <1>5, <1>6, <1>7, <2>2, EndsSame
<1> QED
  BY <1>4, <1>5, <1>7, <1>10, <1>11 DEF p

\* The transmitter and the UART keep what was established of the stream.
LEMMA LineKeeps ==
    ASSUME FramingInv, Send \/ Overrun \/ Silence
    PROVE  (Tracked /\ Lands /\ Drains)'
<1>1. TypeOK /\ UNCHANGED host
  BY DEF FramingInv, Send, Overrun, Silence
<1>2. CASE Overrun
  BY <1>2 DEF Overrun, Tracked, Lands, Drains
<1>3. CASE Silence
  <2>1. line'.pos = line.pos /\ fifo' = fifo /\ trust' = trust
    BY <1>1, <1>3 DEF Silence, TypeOK
  <2>2. Here' = Here
    BY <2>1 DEF Here
  <2>3. Tracked' /\ Lands'
    BY <1>1, <2>1, <2>2 DEF FramingInv, Tracked, Lands, host
  <2>4. Drains'
    BY <1>1, <2>1, <2>2 DEF FramingInv, Drains, host
  <2> QED
    BY <2>3, <2>4
<1>4. CASE Send
  <2>1. /\ trust' = trust /\ pc' = pc /\ buf' = buf /\ skip' = skip /\ replay' = replay
        /\ frame' = frame /\ synced' = synced
    BY <1>4 DEF Send, host
  <2>2. /\ fifo' \in Seq(Byte) /\ Here' \in Int /\ Here \in Int
        /\ Here' % FrameLen = Here % FrameLen
        /\ Ends(fifo, line.pos) => Ends(fifo', line'.pos)
    BY <1>1, <1>4, SendShift, Lengths
  <2>3. /\ Len(buf) \in Nat /\ Len(replay) \in Nat /\ Len(frame) \in Nat /\ skip \in Nat
        /\ buf \in Seq(Byte) /\ replay \in Seq(Byte) /\ frame \in Seq(Byte)
    BY <1>1, Lengths DEF TypeOK
  <2> DEFINE h == Here
             k == Here'
  <2>4. h \in Int /\ k \in Int /\ h % FrameLen = k % FrameLen
    BY <2>2
  <2>5. Tracked'
    <3> SUFFICES ASSUME trust, pc \in {"collect", "skip"}
                 PROVE  Ends(fifo', line'.pos) /\ Ends(buf, k)
      BY <2>1 DEF Tracked
    <3>1. Ends(fifo, line.pos) /\ Ends(buf, h)
      BY DEF FramingInv, Tracked
    <3> HIDE DEF h, k
    <3>2. Ends(buf, k)
      BY <2>3, <2>4, <3>1, EndsSame
    <3> QED
      BY <2>2, <3>1, <3>2
  <2>6. Lands'
    <3> SUFFICES ASSUME trust, pc = "skip"
                 PROVE  (k - Len(buf) + skip) % FrameLen = 0
      BY <2>1 DEF Lands
    <3>1. (h - Len(buf) + skip) % FrameLen = 0
      BY DEF FramingInv, Lands
    <3> DEFINE c == skip - Len(buf)
    <3> HIDE DEF h, k
    <3>2. c \in Int /\ h - Len(buf) + skip = h + c /\ k - Len(buf) + skip = k + c
      BY <2>3, <2>4
    <3>3. (h + c) % FrameLen = (k + c) % FrameLen
      <4> HIDE DEF c
      <4> QED
        BY <2>4, <3>2, SameDistance
    <3> QED
      BY <3>1, <3>2, <3>3
  <2>7. Drains'
    <3> SUFFICES ASSUME trust, synced
                 PROVE  /\ Ends(fifo', line'.pos) /\ Ends(replay, k)
                        /\ Ends(frame, k - Len(replay))
                        /\ (k - Len(replay) - Len(frame)) % FrameLen = 0
      BY <2>1 DEF Drains
    <3>1. /\ Ends(fifo, line.pos) /\ Ends(replay, h) /\ Ends(frame, h - Len(replay))
          /\ (h - Len(replay) - Len(frame)) % FrameLen = 0
      BY DEF FramingInv, Drains
    <3> HIDE DEF h, k
    <3>2. Ends(replay, k)
      BY <2>3, <2>4, <3>1, EndsSame
    <3> DEFINE c == -Len(replay)
               e == -Len(replay) - Len(frame)
    <3>3. /\ c \in Int /\ h - Len(replay) = h + c /\ k - Len(replay) = k + c
          /\ h + c \in Int /\ k + c \in Int
      BY <2>3, <2>4
    <3>4. /\ e \in Int /\ h - Len(replay) - Len(frame) = h + e
          /\ k - Len(replay) - Len(frame) = k + e
      BY <2>3, <2>4
    <3> HIDE DEF c, e
    <3>5. (h + c) % FrameLen = (k + c) % FrameLen
      BY <2>4, <3>3, SameDistance
    <3>6. (h + e) % FrameLen = (k + e) % FrameLen
      BY <2>4, <3>4, SameDistance
    <3>7. Ends(frame, h + c)
      BY <3>1, <3>3
    <3>8. Ends(frame, k + c)
      BY <2>3, <3>3, <3>5, <3>7, EndsSame
    <3> QED
      BY <2>2, <3>1, <3>2, <3>3, <3>4, <3>6, <3>8
  <2> QED
    BY <2>5, <2>6, <2>7
<1> QED
  BY <1>2, <1>3, <1>4

\* A byte moves from the FIFO to the bytes just before it.
LEMMA MoveByte ==
    ASSUME TypeOK, fifo # <<>>, NEW q \in Seq(Byte), Ends(fifo, line.pos), Ends(q, Here),
           line' = line, fifo' = Tail(fifo)
    PROVE  /\ Ends(fifo', line'.pos) /\ Here' = Here + 1
           /\ Ends(Append(q, Head(fifo)), Here + 1)
<1>1. fifo \in Seq(Byte) /\ line.pos \in Int /\ Len(fifo) \in Nat /\ Here \in Int
  BY Lengths DEF TypeOK
<1>2. /\ Ends(Tail(fifo), line.pos) /\ Len(Tail(fifo)) = Len(fifo) - 1
      /\ Head(fifo) \in Byte /\ Head(fifo).pos = (line.pos - Len(fifo)) % FrameLen
  BY <1>1, EndsTail
<1>3. Here' = Here + 1
  BY <1>1, <1>2 DEF Here
<1>4. Head(fifo).pos = Here % FrameLen
  BY <1>2 DEF Here
<1>5. Ends(Append(q, Head(fifo)), Here + 1)
  BY <1>1, <1>2, <1>4, EndsAppend
<1> QED
  BY <1>2, <1>3, <1>5

\* A multiple of the frame, counted back, is no distance.
LEMMA WholeDistance ==
    ASSUME NEW n \in Nat
    PROVE  (0 - (n - (n % FrameLen)) - 0) % FrameLen = 0
<1> DEFINE F == FrameLen
           q == n \div F
           r == n % F
<1>1. F \in Nat \ {0} /\ q \in Int /\ r \in 0 .. F - 1 /\ n = F * q + r
  BY Sizes
<1> HIDE DEF F, q, r
<1>2. -q \in Int /\ F * (-q) = -(F * q) /\ 0 \in 0 .. F - 1 /\ F * q \in Int
  BY <1>1
<1>3. 0 - (n - r) - 0 = F * (-q) + 0
  BY <1>1, <1>2
<1>4. (F * (-q) + 0) % F = 0
  BY <1>1, <1>2, DivModUnique
<1>5. (0 - (n - r) - 0) % F = 0
  BY <1>3, <1>4
<1> QED
  BY <1>5 DEF F, r

\* frame_sync(), by whichever path it ends.
LEMMA SyncKeeps ==
    ASSUME FramingInv, frame_sync
    PROVE  (Tracked /\ Lands /\ Drains)'
<1>0. <<>> \in Seq(Byte) /\ Len(<<>>) = 0
  OBVIOUS
<1>1. /\ TypeOK /\ Phases /\ line' = line /\ line.pos \in 0 .. FrameLen - 1 /\ line.pos \in Int
      /\ Here \in Int /\ Len(fifo) \in Nat /\ Len(buf) \in Nat /\ skip \in Nat
      /\ fifo \in Seq(Byte) /\ buf \in Seq(Byte)
  <2>1. line' = line
    BY DEF frame_sync, SyncStart, Collect, GapSync, QuietSync, LockFound, LockFailed, SkipByte,
           SkipDeadline, ReadAligned, LockSync
  <2> QED
    BY <2>1, Lengths DEF FramingInv, TypeOK
<1>2. CASE SyncStart
  <2>1. Tracked'
    <3> SUFFICES ASSUME trust' PROVE Ends(fifo', line'.pos) /\ Ends(buf', Here')
      BY DEF Tracked
    <3>1. fifo' = fifo /\ Unbroken(fifo) /\ buf' = <<>>
      BY <1>2 DEF SyncStart
    <3>2. Ends(fifo, line.pos)
      BY <1>1, <3>1, UnbrokenEnds
    <3> QED
      BY <1>1, <3>1, <3>2, EndsEmpty
  <2>2. Lands' /\ Drains'
    BY <1>2 DEF SyncStart, Lands, Drains
  <2> QED
    BY <2>1, <2>2
<1>3. CASE Collect \/ ReadAligned
  <2>1. /\ pc \in {"collect", "skip"} /\ fifo # <<>> /\ buf' = Append(buf, Head(fifo))
        /\ fifo' = Tail(fifo) /\ pc' = pc /\ trust' = trust /\ synced' = synced /\ skip' = skip
        /\ (pc = "skip" => skip = 0)
    BY <1>3 DEF Collect, ReadAligned
  <2>2. Tracked'
    BY <1>1, <2>1, MoveByte DEF FramingInv, Tracked
  <2>3. Lands'
    <3> SUFFICES ASSUME trust, pc = "skip"
                 PROVE  (Here' - Len(buf') + skip) % FrameLen = 0
      BY <2>1 DEF Lands
    <3>1. Here' = Here + 1
      BY <1>1, <2>1, MoveByte DEF FramingInv, Tracked
    <3>2. Len(buf') = Len(buf) + 1
      BY <1>1, <2>1, OneByte
    <3>3. Here' - Len(buf') + skip = Here - Len(buf) + skip
      BY <1>1, <3>1, <3>2
    <3>4. (Here - Len(buf) + skip) % FrameLen = 0
      BY DEF FramingInv, Lands
    <3> QED
      BY <3>3, <3>4
  <2>4. Drains'
    BY <1>1, <2>1 DEF Phases, Drains
  <2> QED
    BY <2>2, <2>3, <2>4
<1>4. ASSUME Quiet, NEW q \in Seq(Byte), q = buf \/ q = <<>>, Align(q), fifo' = fifo,
             trust' = trust, frame' = frame
      PROVE  (Tracked /\ Lands /\ Drains)'
  <2>1. /\ pc = "collect" /\ fifo = <<>> /\ line.pos = 0 /\ frame = <<>>
        /\ pc' = "loop" /\ replay' = WholeFrames(q)
    BY <1>1, <1>4 DEF Quiet, Phases, Align
  <2>2. Tracked' /\ Lands'
    BY <2>1 DEF Tracked, Lands
  <2>3. Drains'
    <3> SUFFICES ASSUME trust
                 PROVE  /\ Ends(fifo', line'.pos) /\ Ends(replay', Here')
                        /\ Ends(frame', Here' - Len(replay'))
                        /\ (Here' - Len(replay') - Len(frame')) % FrameLen = 0
      BY <1>4 DEF Drains
    <3>1. Here = 0 /\ Here' = 0
      <4>1. line.pos = 0 /\ Len(fifo) = 0 /\ fifo' = fifo
        BY <1>0, <1>4, <2>1
      <4>2. line'.pos = 0 /\ Len(fifo') = 0
        BY <1>1, <4>1
      <4>3. Here = 0 - 0 /\ Here' = 0 - 0
        BY <4>1, <4>2, Zenon DEF Here
      <4> QED
        BY <4>3
    <3>2. Ends(q, Here)
      BY <1>4, <2>1, EndsEmpty DEF FramingInv, Tracked
    <3>3. /\ Ends(replay', Here) /\ Len(replay') = Len(q) - (Len(q) % FrameLen) /\ Len(q) \in Nat
      BY <1>1, <2>1, <3>2, WholeFramesOf
    <3>4. (0 - Len(replay') - 0) % FrameLen = 0
      BY <3>3, WholeDistance
    <3>5. Len(frame') = 0 /\ frame' = <<>> /\ fifo' = <<>>
      BY <1>0, <1>4, <2>1
    <3>6. (Here' - Len(replay') - Len(frame')) % FrameLen = 0
      BY <3>1, <3>4, <3>5
    <3> QED
      BY <3>1, <3>3, <3>5, <3>6, EndsEmpty
  <2> QED
    BY <2>2, <2>3
<1>5. CASE GapSync
  <2>1. CASE Len(buf) <= BackFrames * FrameLen
    BY <1>1, <1>4, <1>5, <2>1 DEF GapSync
  <2>2. CASE ~(Len(buf) <= BackFrames * FrameLen)
    BY <1>1, <1>5, <2>2 DEF GapSync, Quiet, Phases, Tracked, Lands, Drains
  <2> QED
    BY <2>1, <2>2
<1>6. CASE QuietSync
  BY <1>0, <1>4, <1>6 DEF QuietSync
<1>7. CASE LockFound
  <2>1. /\ pc = "collect" /\ pc' = "skip" /\ buf' = <<>> /\ fifo' = fifo /\ synced' = synced
        /\ skip' = SkipTo
        /\ trust' = (trust /\ FlagsLead)
    BY <1>7 DEF LockFound, NoGap, Dominant
  <2>2. Here' = Here
    BY <1>1, <2>1 DEF Here
  <2>3. Drains'
    BY <1>1, <2>1 DEF Phases, Drains
  <2>4. Tracked' /\ Lands'
    <3> SUFFICES ASSUME trust, FlagsLead
                 PROVE  /\ Ends(fifo', line'.pos) /\ Ends(buf', Here')
                        /\ (Here' - Len(buf') + skip') % FrameLen = 0
      BY <2>1 DEF Tracked, Lands
    <3>1. Ends(fifo, line.pos) /\ Ends(buf, Here)
      BY <2>1 DEF FramingInv, Tracked
    <3>3. Best = (Len(buf) - Here) % FrameLen
      BY <1>1, <3>1, BestIsFlag
    <3>4. Best \in Int
      BY <1>1, BestRange, Sizes
    <3>5. (Here + skip') % FrameLen = 0
      BY <1>1, <2>1, <3>3, <3>4, SkipLands DEF SkipTo
    <3>6. Here' - Len(buf') + skip' = Here + skip'
      <4>1. skip' \in Int
        <5> DEFINE u == Best - (Len(buf) % FrameLen) + FrameLen
        <5>1. Len(buf) % FrameLen \in Int
          BY <1>1, Sizes
        <5>2. u \in Int
          BY <3>4, <5>1, Sizes
        <5> HIDE DEF u
        <5>3. u % FrameLen \in Int
          BY <5>2, Sizes
        <5> QED
          BY <2>1, <5>3 DEF SkipTo, u
      <4>2. Len(buf') = 0
        BY <1>0, <2>1
      <4> QED
        BY <1>1, <2>2, <4>1, <4>2
    <3> QED
      BY <1>1, <2>1, <3>1, <3>5, <3>6, EndsEmpty
  <2> QED
    BY <2>3, <2>4
<1>8. CASE LockFailed \/ SkipDeadline
  BY <1>1, <1>8 DEF LockFailed, SkipDeadline, NoGap, Phases, Tracked, Lands, Drains
<1>9. CASE SkipByte
  <2>1. /\ pc = "skip" /\ pc' = pc /\ fifo # <<>> /\ fifo' = Tail(fifo) /\ skip > 0
        /\ skip' = skip - 1 /\ buf' = buf /\ buf = <<>> /\ trust' = trust /\ synced' = synced
    BY <1>1, <1>9 DEF SkipByte, Phases
  <2>2. Drains'
    BY <1>1, <2>1 DEF Phases, Drains
  <2>3. Tracked' /\ Lands'
    <3> SUFFICES ASSUME trust
                 PROVE  /\ Ends(fifo', line'.pos) /\ Ends(buf', Here')
                        /\ (Here' - Len(buf') + skip') % FrameLen = 0
      BY <2>1 DEF Tracked, Lands
    <3>1. Ends(fifo, line.pos) /\ Ends(buf, Here) /\ (Here - Len(buf) + skip) % FrameLen = 0
      BY <2>1 DEF FramingInv, Tracked, Lands
    <3>2. Ends(fifo', line'.pos) /\ Here' = Here + 1
      <4>1. TypeOK /\ fifo # <<>> /\ buf \in Seq(Byte) /\ line' = line /\ fifo' = Tail(fifo)
        BY <1>1, <2>1
      <4> QED
        BY <3>1, <4>1, MoveByte
    <3>3. Here' - Len(buf') + skip' = Here - Len(buf) + skip
      BY <1>1, <2>1, <3>2
    <3> QED
      BY <2>1, <3>1, <3>2, <3>3, EndsEmpty
  <2> QED
    BY <2>2, <2>3
<1>10. CASE LockSync
  <2>1. /\ pc = "skip" /\ skip = 0 /\ pc' = "loop" /\ replay' = WholeFrames(buf)
        /\ fifo' = fifo /\ frame' = <<>>
        /\ trust' = (trust /\ Len(buf) % FrameLen = 0)
    BY <1>1, <1>10 DEF LockSync, Align, Phases
  <2>2. Tracked' /\ Lands'
    BY <2>1 DEF Tracked, Lands
  <2>3. Drains'
    <3> SUFFICES ASSUME trust, Len(buf) % FrameLen = 0
                 PROVE  /\ Ends(fifo', line'.pos) /\ Ends(replay', Here')
                        /\ Ends(frame', Here' - Len(replay'))
                        /\ (Here' - Len(replay') - Len(frame')) % FrameLen = 0
      BY <2>1 DEF Drains
    <3>1. Ends(fifo, line.pos) /\ Ends(buf, Here) /\ (Here - Len(buf) + skip) % FrameLen = 0
      BY <2>1 DEF FramingInv, Tracked, Lands
    <3>2. Here' = Here
      BY <1>1, <2>1 DEF Here
    <3>3. Ends(replay', Here) /\ Len(replay') = Len(buf) - (Len(buf) % FrameLen)
      BY <1>1, <2>1, <3>1, WholeFramesOf
    <3>4. Len(replay') = Len(buf) /\ Len(frame') = 0
      BY <1>0, <1>1, <2>1, <3>3
    <3>5. Here' - Len(replay') - Len(frame') = Here - Len(buf) + skip
      BY <1>1, <2>1, <3>2, <3>4
    <3> QED
      BY <1>1, <2>1, <3>1, <3>2, <3>3, <3>5, EndsEmpty
  <2> QED
    BY <2>2, <2>3
<1> QED
  BY <1>2, <1>3, <1>5, <1>6, <1>7, <1>8, <1>9, <1>10 DEF frame_sync

\* The mining loop pushes an item: the alignment, or the trust in it, is gone.
LEMMA PushKeeps ==
    ASSUME FramingInv, Push \/ PushStalled
    PROVE  (Tracked /\ Lands /\ Drains)'
  BY DEF Push, PushStalled, Tracked, Lands, Drains, host

\* The drain loop takes the next byte of the run, and a whole frame leaves
\* the assembler at the start of the next.
LEMMA DrainKeeps ==
    ASSUME FramingInv, Drain
    PROVE  (Tracked /\ Lands /\ Drains)'
<1>0. <<>> \in Seq(Byte) /\ Len(<<>>) = 0
  OBVIOUS
<1> DEFINE b    == IF replay # <<>> THEN Head(replay) ELSE Head(fifo)
           full == Append(frame, b)
           e    == Here - Len(replay)
<1>1. /\ TypeOK /\ pc = "loop" /\ pc' = pc /\ synced /\ line' = line /\ trust' = trust
      /\ replay # <<>> \/ fifo # <<>>
      /\ fifo' = IF replay # <<>> THEN fifo ELSE Tail(fifo)
  BY DEF Drain, FramingInv
<1>2. /\ synced' => replay' = Replayed
      /\ \/ frame' = <<>> /\ Len(full) = FrameLen
         \/ frame' = full
  BY DEF Drain, GoodFrame, BadFrame
<1>3. Tracked' /\ Lands'
  BY <1>1 DEF Tracked, Lands
<1>4. Drains'
  <2> SUFFICES ASSUME trust, synced'
               PROVE  /\ Ends(fifo', line'.pos) /\ Ends(replay', Here')
                      /\ Ends(frame', Here' - Len(replay'))
                      /\ (Here' - Len(replay') - Len(frame')) % FrameLen = 0
    BY <1>1 DEF Drains
  <2>1. /\ Ends(fifo, line.pos) /\ Ends(replay, Here) /\ Ends(frame, e)
        /\ (e - Len(frame)) % FrameLen = 0
    BY <1>1 DEF FramingInv, Drains
  <2>2. /\ Here \in Int /\ Len(replay) \in Nat /\ Len(frame) \in Nat /\ line.pos \in Int
        /\ fifo \in Seq(Byte) /\ replay \in Seq(Byte) /\ frame \in Seq(Byte)
    BY <1>1, Lengths DEF TypeOK
  <2>3. e \in Int
    BY <2>2
  <2>4. /\ Ends(fifo', line'.pos) /\ Ends(replay', Here') /\ Ends(full, e + 1)
        /\ Here' - Len(replay') = e + 1 /\ Len(full) = Len(frame) + 1
    <3>1. CASE replay # <<>>
      <4>1. /\ Ends(Tail(replay), Here) /\ Len(Tail(replay)) = Len(replay) - 1
            /\ Head(replay) \in Byte /\ Head(replay).pos = (Here - Len(replay)) % FrameLen
        BY <2>1, <2>2, <3>1, EndsTail
      <4>2. replay' = Tail(replay) /\ fifo' = fifo /\ b = Head(replay) /\ Here' = Here
        BY <1>1, <1>2, <3>1 DEF Replayed, Here
      <4>3. Here' - Len(replay') = e + 1
        <5>1. Here' = Here /\ Len(replay') = Len(replay) - 1
          BY <4>1, <4>2
        <5>2. Here - (Len(replay) - 1) = (Here - Len(replay)) + 1
          BY <2>2
        <5> QED
          BY <5>1, <5>2
      <4>4. b \in Byte /\ b.pos = e % FrameLen
        BY <4>1, <4>2
      <4> HIDE DEF b, e
      <4>5. Ends(full, e + 1)
        BY <2>1, <2>2, <2>3, <4>4, EndsAppend
      <4>6. Len(full) = Len(frame) + 1
        BY <2>2, <4>4, OneByte
      <4> QED
        BY <1>1, <2>1, <4>1, <4>2, <4>3, <4>5, <4>6
    <3>2. CASE replay = <<>>
      <4>1. fifo # <<>> /\ fifo' = Tail(fifo) /\ b = Head(fifo) /\ replay' = <<>>
        BY <1>1, <1>2, <3>2 DEF Replayed
      <4>2. Len(replay) = 0 /\ Len(replay') = 0
        BY <1>0, <3>2, <4>1
      <4>3. e = Here
        BY <2>2, <4>2
      <4>4. Ends(frame, Here)
        BY <2>1, <4>3
      <4>5. /\ Ends(fifo', line'.pos) /\ Here' = Here + 1
            /\ Ends(Append(frame, Head(fifo)), Here + 1)
        <5>1. TypeOK /\ line' = line
          BY <1>1
        <5> HIDE DEF e, b
        <5> QED
          BY <2>1, <2>2, <4>1, <4>4, <5>1, MoveByte
      <4>6. Head(fifo) \in Byte
        BY <2>2, <4>1, OneByte
      <4>7. Len(full) = Len(frame) + 1
        BY <2>2, <4>1, <4>6, OneByte
      <4>8. Here' - Len(replay') = e + 1
        BY <2>2, <4>2, <4>3, <4>5
      <4>9. Ends(full, e + 1)
        BY <4>1, <4>3, <4>5
      <4> QED
        BY <4>1, <4>5, <4>7, <4>8, <4>9, EndsEmpty
    <3> QED
      BY <3>1, <3>2
  <2> DEFINE d == Here' - Len(replay')
             x == e - Len(frame)
  <2>5. d = e + 1 /\ x \in Int /\ x % FrameLen = 0
    BY <2>1, <2>2, <2>3, <2>4
  <2>6. CASE frame' = full
    <3>1. d - Len(frame') = x
      <4>1. Len(frame') = Len(frame) + 1
        BY <2>4, <2>6
      <4> HIDE DEF d, e
      <4> QED
        BY <2>2, <2>3, <2>5, <4>1
    <3>2. Ends(frame', d)
      <4> HIDE DEF d, e
      <4> QED
        BY <2>4, <2>5, <2>6
    <3> HIDE DEF d
    <3>3. (d - Len(frame')) % FrameLen = 0
      BY <2>5, <3>1
    <3> QED
      BY <2>4, <3>2, <3>3 DEF d
  <2>7. CASE frame' = <<>> /\ Len(full) = FrameLen
    <3>1. d - Len(frame') = x + FrameLen
      <4>1. Len(frame') = 0 /\ FrameLen = Len(frame) + 1
        BY <1>0, <2>4, <2>7
      <4> HIDE DEF d, e
      <4> QED
        BY <2>2, <2>3, <2>5, <4>1
    <3>2. (x + FrameLen) % FrameLen = 0
      <4> HIDE DEF x
      <4>1. (x + FrameLen) % FrameLen = x % FrameLen
        BY <2>5, FrameResidues, Zenon
      <4> QED
        BY <2>5, <4>1
    <3>3. Ends(frame', d)
      BY <2>7, EndsEmpty
    <3> HIDE DEF d
    <3>4. (d - Len(frame')) % FrameLen = 0
      BY <3>1, <3>2
    <3> QED
      BY <2>4, <3>3, <3>4 DEF d
  <2> QED
    BY <1>2, <2>6, <2>7
<1> QED
  BY <1>3, <1>4

---------------------------------------------------------------------------
(* The theorems. *)

\* Every step keeps the invariant.
LEMMA FramingStep ==
    ASSUME FramingInv, [Next]_vars
    PROVE  FramingInv'
<1>1. TypeOK' /\ Phases'
  BY TypeStep, PhasesStep DEF FramingInv
<1>2. CASE UNCHANGED vars
  <2>1. Here' = Here
    BY <1>2 DEF Here, vars
  <2>2. Tracked' /\ Lands'
    BY <1>2, <2>1 DEF FramingInv, Tracked, Lands, vars
  <2>3. Drains'
    BY <1>2, <2>1 DEF FramingInv, Drains, vars
  <2> QED
    BY <1>1, <2>2, <2>3 DEF FramingInv
<1>3. CASE Next
  <2>1. (Tracked /\ Lands /\ Drains)'
    BY <1>3, LineKeeps, PushKeeps, SyncKeeps, DrainKeeps DEF Next
  <2> QED
    BY <1>1, <2>1 DEF FramingInv
<1> QED
  BY <1>2, <1>3

\* The invariant holds in every reachable state.
LEMMA FramingAlways == Spec => []FramingInv
  BY FramingInit, FramingStep, PTL DEF Spec

\* Three runs in a row that end at the line and start a frame lie on frame
\* boundaries.
LEMMA DrainsAligned ==
    ASSUME FramingInv
    PROVE  SyncedIsAligned
<1> SUFFICES ASSUME synced, trust PROVE Aligned
  BY DEF SyncedIsAligned
<1> DEFINE two == frame \o replay
           all == two \o fifo
           p == line.pos
           n == Len(all)
<1>1. /\ p \in 0 .. FrameLen - 1 /\ p \in Int /\ Here \in Int
      /\ Len(frame) \in Nat /\ Len(replay) \in Nat /\ Len(fifo) \in Nat
      /\ fifo \in Seq(Byte) /\ replay \in Seq(Byte) /\ frame \in Seq(Byte)
  BY Lengths DEF FramingInv, TypeOK
<1>2. /\ Ends(fifo, p) /\ Ends(replay, Here) /\ Ends(frame, Here - Len(replay))
      /\ (Here - Len(replay) - Len(frame)) % FrameLen = 0
  BY DEF FramingInv, Drains
<1>3. /\ two \in Seq(Byte) /\ Len(two) = Len(frame) + Len(replay) /\ Ends(two, Here)
  BY <1>1, <1>2, EndsConcat
<1>4. /\ all \in Seq(Byte) /\ n = Len(two) + Len(fifo) /\ Ends(all, p)
  <2> HIDE DEF two
  <2>1. Ends(two, p - Len(fifo))
    BY <1>3 DEF Here
  <2> QED
    BY <1>1, <1>2, <1>3, <2>1, EndsConcat
<1>5. n \in Nat /\ DOMAIN all = 1 .. n
  BY <1>4
<1>6. p - n = Here - Len(replay) - Len(frame)
  <2> HIDE DEF two, all, n
  <2>1. n = Len(frame) + Len(replay) + Len(fifo)
    BY <1>3, <1>4
  <2>2. Here = p - Len(fifo)
    BY DEF Here
  <2> HIDE DEF p
  <2> QED
    BY <1>1, <2>1, <2>2
<1> HIDE DEF all, n, p
<1>7. (p - n) % FrameLen = 0 % FrameLen /\ p - n \in Int
  <2>1. p - n \in Int
    BY <1>1, <1>5
  <2>2. 0 \in 0 .. FrameLen - 1
    BY Sizes
  <2>3. 0 % FrameLen = 0
    BY <2>2, FrameResidues, Zenon
  <2>4. (p - n) % FrameLen = 0
    BY <1>2, <1>6, Zenon
  <2> QED
    BY <2>1, <2>3, <2>4, Zenon
<1>8. ASSUME NEW c \in Int
      PROVE  (p - n + c) % FrameLen = (0 + c) % FrameLen
  <2>1. 0 \in Int
    OBVIOUS
  <2> QED
    BY <1>7, <2>1, SameDistance, Zenon
<1>9. ASSUME NEW i \in 1 .. n
      PROVE  all[i].pos = (i - 1) % FrameLen
  <2>1. i - 1 \in Int /\ p - n + (i - 1) = p + i - 1 - n /\ 0 + (i - 1) = i - 1
    BY <1>1, <1>5
  <2>2. all[i].pos = (p + i - 1 - n) % FrameLen
    BY <1>4 DEF Ends, n
  <2>3. (p - n + (i - 1)) % FrameLen = (0 + (i - 1)) % FrameLen
    BY <1>8, <2>1
  <2> QED
    BY <2>1, <2>2, <2>3
<1>10. p = n % FrameLen
  <2>1. p - n + n = p /\ 0 + n = n /\ n \in Int
    BY <1>1, <1>5
  <2>2. (p - n + n) % FrameLen = (0 + n) % FrameLen
    BY <1>8, <2>1
  <2>3. p % FrameLen = p
    BY <1>1, FrameResidues
  <2> QED
    BY <2>1, <2>2, <2>3
<1> QED
  BY <1>5, <1>9, <1>10 DEF Aligned, all, n, p

\* The bytes discarded after a lock are fewer than a frame, each phase of
\* frame_sync() stays within its buffer and the assembler never overflows.
THEOREM FramingTypeCorrect == Spec => []TypeOK
<1>1. FramingInv => TypeOK
  BY DEF FramingInv
<1> QED
  BY <1>1, FramingAlways, PTL

\* A sync leaves the drain loop on frame boundaries by the gap, the quiet line
\* or the histogram, for any frame and buffers and any data bytes of 0x01 the
\* flags outnumber, as long as no byte was lost.
THEOREM SyncAligns == Spec => []SyncedIsAligned
<1>1. FramingInv => SyncedIsAligned
  BY DrainsAligned
<1> QED
  BY <1>1, FramingAlways, PTL

===========================================================================
