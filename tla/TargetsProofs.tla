-------------------------- MODULE TargetsProofs --------------------------
(* Proofs about the target arithmetic, for any word sizes: that the        *)
(* bit-serial division divides, how close a share target is to the pool's, *)
(* and what the core's comparison can hide.                                *)
EXTENDS Targets, ArithmeticLemmas, TLAPS

USE TargetConstants

\* The constants, one by one.
LEMMA Positive ==
    /\ Scale \in Nat /\ Scale > 0 /\ Grain \in Nat /\ Grain > 0
    /\ Least \in Nat /\ Least >= Grain /\ Word \in Nat /\ Word > 0
    /\ Low \in Nat /\ Low > 0 /\ Full \in Nat /\ Full > 0
    /\ Len(Diff1) \in Nat
    /\ \A n \in 1 .. Len(Diff1) : Diff1[n] \in {0, 1}
  OBVIOUS

\* A number below the modulus is its own residue, and a residue is below it.
LEMMA Residue ==
    ASSUME NEW x \in Nat, NEW n \in Nat, n > 0
    PROVE  /\ x % n \in 0 .. n - 1
           /\ x < n => x % n = x
  OBVIOUS

\* What the proofs need of the state: the registers of the division are
\* numbers and the divisor is positive.
Registers ==
    /\ divisor \in Nat /\ divisor > 0
    /\ i \in 0 .. Len(Diff1)
    /\ pre \in Nat /\ rem \in Nat /\ quot \in Nat /\ target \in Nat

\* And the divisor is the nearest integer to the difficulty.
Nearest ==
    /\ diff \in Nat
    /\ 2 * Grain * divisor <= 2 * diff + Grain
    /\ 2 * diff + Grain < 2 * Grain * (divisor + 1)

\* The divisor is the nearest integer to the difficulty believed, and never
\* zero: the least difficulty believed is more than one unit.
LEMMA ScaledIsNearest ==
    ASSUME NEW d \in Nat
    PROVE  /\ Believed(d) \in Nat /\ Believed(d) > 0
           /\ Scaled(Believed(d)) \in Nat /\ Scaled(Believed(d)) > 0
           /\ 2 * Grain * Scaled(Believed(d)) <= 2 * Believed(d) + Grain
           /\ 2 * Believed(d) + Grain < 2 * Grain * (Scaled(Believed(d)) + 1)
  <1> DEFINE e == Believed(d)
             q == (2 * e + Grain) \div (2 * Grain)
  <1>1. e \in Nat /\ e >= Grain
    <2>1. Scale * Grain \in Nat /\ Scale * Grain >= Grain
      BY Positive
    <2>2. QED
      BY <2>1, Positive DEF Believed
  <1> HIDE DEF e
  <1>2. 2 * e + Grain \in Nat /\ 2 * Grain \in Nat \ {0}
    BY <1>1, Positive
  <1>3. /\ q \in Nat
        /\ 2 * Grain * q <= 2 * e + Grain
        /\ 2 * e + Grain < 2 * Grain * (q + 1)
    BY <1>2, Enclosed
  <1>4. q # 0
    <2> HIDE DEF q
    <2>1. SUFFICES ASSUME q = 0 PROVE FALSE
      OBVIOUS
    <2>2. 2 * Grain * (0 + 1) = 2 * Grain
      BY Positive
    <2>3. QED
      BY <1>1, <1>3, <2>1, <2>2, Positive
  <1>5. Scaled(e) = q
    BY <1>4 DEF Scaled
  <1> HIDE DEF q
  <1>6. QED
    BY <1>1, <1>3, <1>4, <1>5, Positive DEF e

\* Within range the shifted remainder does not overflow its register.
LEMMA NoOverflow ==
    ASSUME Registers, InRange, rem < divisor, NEW bit \in {0, 1}
    PROVE  Shifted(bit) = 2 * rem + bit
  <1>1. 2 * rem + bit \in Nat /\ 2 * rem + bit < 2 * divisor
    BY DEF Registers
  <1>2. 2 * rem + bit < Word
    BY <1>1, Positive DEF Registers, InRange
  <1>3. QED
    BY <1>1, <1>2, Residue, Positive DEF Shifted

\* One iteration keeps the division exact.
LEMMA DivBitExact ==
    ASSUME Registers, DivisionExact, DivBit
    PROVE  Registers' /\ DivisionExact'
  <1> DEFINE bit == Diff1[i + 1]
             r == Shifted(bit)
  <1>1. bit \in {0, 1}
    BY Positive DEF DivBit, Registers
  <1>2. r \in Nat
    BY <1>1, Residue, Positive DEF Shifted, Registers
  <1>3. /\ rem' = IF r >= divisor THEN r - divisor ELSE r
        /\ quot' = 2 * quot + IF r >= divisor THEN 1 ELSE 0
        /\ pre' = 2 * pre + bit
        /\ i' = i + 1 /\ divisor' = divisor /\ target' = target
    BY DEF DivBit, Fits
  <1> HIDE DEF bit, r
  <1>4. Registers'
    <2>1. i' \in 0 .. Len(Diff1)
      BY <1>3, Positive DEF DivBit, Registers
    <2>2. rem' \in Nat /\ quot' \in Nat /\ pre' \in Nat
      BY <1>1, <1>2, <1>3 DEF Registers
    <2>3. QED
      BY <1>3, <2>1, <2>2 DEF Registers
  <1>5. ASSUME InRange
        PROVE  pre' = quot' * divisor + rem' /\ rem' < divisor
    <2>1. pre = quot * divisor + rem /\ rem < divisor
      BY <1>5 DEF DivisionExact
    <2>2. r = 2 * rem + bit
      BY <1>1, <1>5, <2>1, NoOverflow DEF r
    <2>3. quot * divisor \in Nat
      BY DEF Registers
    <2>4. CASE r >= divisor
      <3>1. (2 * quot + 1) * divisor = 2 * (quot * divisor) + divisor
        BY DEF Registers
      <3>2. quot' * divisor = 2 * (quot * divisor) + divisor
        BY <1>3, <2>4, <3>1
      <3>3. QED
        BY <1>1, <1>3, <2>1, <2>2, <2>3, <2>4, <3>2 DEF Registers
    <2>5. CASE ~(r >= divisor)
      <3>1. (2 * quot + 0) * divisor = 2 * (quot * divisor)
        BY DEF Registers
      <3>2. quot' * divisor = 2 * (quot * divisor)
        BY <1>3, <2>5, <3>1
      <3>3. QED
        BY <1>1, <1>2, <1>3, <2>1, <2>2, <2>3, <2>5, <3>2 DEF Registers
    <2>6. QED
      BY <2>4, <2>5
  <1>6. QED
    BY <1>3, <1>4, <1>5 DEF DivisionExact, InRange

\* Shifted back, the quotient is the exact target rounded down.
LEMMA RoundedDown ==
    ASSUME Registers, DivisionExact, InRange, RoomToShift
    PROVE  /\ bn_shl32(quot) * divisor <= pre * Scale
           /\ pre * Scale < (bn_shl32(quot) + Scale) * divisor
  <1>1. bn_shl32(quot) = quot * Scale
    <2>1. quot * Scale \in Nat
      BY Positive DEF Registers
    <2>2. QED
      BY <2>1, Residue, Positive DEF bn_shl32, RoomToShift
  <1>2. pre = quot * divisor + rem /\ rem < divisor
    BY DEF DivisionExact
  <1>3. pre * Scale = (quot * Scale) * divisor + rem * Scale
    BY <1>2, Positive DEF Registers
  <1>4. (quot * Scale + Scale) * divisor = (quot * Scale) * divisor + divisor * Scale
    BY Positive DEF Registers
  <1>5. rem * Scale \in Nat /\ rem * Scale < divisor * Scale
    BY <1>2, Positive DEF Registers
  <1>6. (quot * Scale) * divisor \in Nat /\ divisor * Scale \in Nat
    BY Positive DEF Registers
  <1>7. QED
    BY <1>1, <1>3, <1>4, <1>5, <1>6

\* A target rounded down for the divisor is close for the difficulty the
\* divisor is nearest to.
LEMMA CloseToDifficulty ==
    ASSUME NEW t \in Nat, NEW s \in Nat, NEW n \in Nat, NEW g \in Nat, g > 0,
           NEW e \in Nat, NEW d \in Nat,
           t * d <= n, n < (t + s) * d,
           2 * g * d <= 2 * e + g, 2 * e + g < 2 * g * (d + 1)
    PROVE  /\ t * (2 * e - g) <= 2 * g * n
           /\ 2 * g * n < (t + s) * (2 * e + g)
  <1>1. 2 * e - g <= 2 * g * d
    <2>1. 2 * g * (d + 1) = 2 * g * d + 2 * g
      OBVIOUS
    <2>2. 2 * g * d \in Nat
      OBVIOUS
    <2>3. QED
      BY <2>1, <2>2
  <1>2. t * (2 * e - g) <= t * (2 * g * d)
    <2> DEFINE a == 2 * e - g
               b == 2 * g * d
    <2>1. a \in Int /\ b \in Int /\ a <= b
      BY <1>1
    <2> HIDE DEF a, b
    <2>2. t * a <= t * b
      BY <2>1
    <2>3. QED
      BY <2>2 DEF a, b
  <1>3. t * (2 * g * d) = 2 * g * (t * d)
    OBVIOUS
  <1>4. 2 * g * (t * d) <= 2 * g * n
    <2> DEFINE p == t * d
    <2>1. p \in Nat /\ p <= n
      OBVIOUS
    <2> HIDE DEF p
    <2>2. 2 * g * p <= 2 * g * n
      BY <2>1
    <2>3. QED
      BY <2>2 DEF p
  <1>5. t * (2 * e - g) <= 2 * g * n
    <2>1. t * (2 * e - g) \in Int /\ 2 * g * n \in Int /\ 2 * g * (t * d) \in Int
      OBVIOUS
    <2>2. QED
      BY <1>2, <1>3, <1>4, <2>1
  <1>6. 2 * g * n < 2 * g * ((t + s) * d)
    <2> DEFINE p == (t + s) * d
    <2>1. p \in Nat /\ n < p
      OBVIOUS
    <2> HIDE DEF p
    <2>2. 2 * g * n < 2 * g * p
      BY <2>1
    <2>3. QED
      BY <2>2 DEF p
  <1>7. 2 * g * ((t + s) * d) = (t + s) * (2 * g * d)
    OBVIOUS
  <1>8. (t + s) * (2 * g * d) <= (t + s) * (2 * e + g)
    <2> DEFINE a == 2 * g * d
               b == 2 * e + g
               c == t + s
    <2>1. a \in Nat /\ b \in Nat /\ a <= b /\ c \in Nat
      OBVIOUS
    <2> HIDE DEF a, b, c
    <2>2. c * a <= c * b
      BY <2>1
    <2>3. QED
      BY <2>2 DEF a, b, c
  <1>9. QED
    <2>1. 2 * g * n \in Int /\ (t + s) * (2 * g * d) \in Int /\ (t + s) * (2 * e + g) \in Int
      OBVIOUS
    <2>2. QED
      BY <1>5, <1>6, <1>7, <1>8, <2>1

---------------------------------------------------------------------------
(* The inductive invariant: the registers, the division, and the target    *)
(* it was turned into.                                                     *)

TargetInv == Registers /\ Nearest /\ DivisionExact /\ (RoomToShift => ShareTarget)

\* It holds at the start.
LEMMA InitTargetInv == Init => TargetInv
  <1> SUFFICES ASSUME Init PROVE TargetInv
    OBVIOUS
  <1>1. Registers
    BY Positive DEF Init, Registers
  <1>2. DivisionExact
    BY DEF Init, DivisionExact
  <1>3. ShareTarget
    BY DEF Init, ShareTarget
  <1>4. Nearest
    <2>1. 2 * Grain * 1 = 2 * Grain /\ 2 * Grain * (1 + 1) = 4 * Grain
      BY Positive
    <2>2. QED
      BY <2>1, Positive DEF Init, Nearest
  <1>5. QED
    BY <1>1, <1>2, <1>3, <1>4 DEF TargetInv

\* An nBits target is cut to 256 bits.
LEMMA CompactFits ==
    ASSUME NEW e \in Nat, NEW m \in Nat, NEW shift \in Nat
    PROVE  CompactTarget(e, m, shift) \in 0 .. Full - 1
  <1>1. ASSUME NEW a \in Int, NEW p \in Nat, NEW q \in Nat
        PROVE  Placed(a, p, q) \in 0 .. Full - 1
    <2>1. Byte ^ p \in Int /\ 2 ^ q \in Int
      BY <1>1
    <2>2. a * Byte ^ p * 2 ^ q \in Int
      BY <1>1, <2>1
    <2>3. QED
      BY <2>2, Positive DEF Placed
  <1>2. CASE e <= 3
    <2>1. Shr[e + 1] \in Nat /\ Shr[e + 1] > 0
      <3>1. \A n \in 1 .. 4 : Shr[n] \in Nat /\ Shr[n] > 0
        BY DEF Shr
      <3>2. e + 1 \in 1 .. 4
        BY <1>2
      <3>3. QED
        BY <3>1, <3>2, Zenon
    <2>2. m \div Shr[e + 1] \in Int
      BY <2>1
    <2>3. Placed(m \div Shr[e + 1], 0, shift) \in 0 .. Full - 1
      BY <1>1, <2>2
    <2>4. QED
      BY <1>2, <2>3, Positive DEF CompactTarget
  <1>3. CASE e > 3
    <2>1. e - 3 \in Nat
      BY <1>3
    <2>2. m \in Int
      OBVIOUS
    <2>3. Placed(m, e - 3, shift) \in 0 .. Full - 1
      BY <1>1, <2>1, <2>2, Zenon
    <2>4. QED
      BY <1>3, <2>3, Positive DEF CompactTarget
  <1>4. QED
    BY <1>2, <1>3

\* Every step keeps it.
LEMMA NextTargetInv ==
    ASSUME TargetInv, [Next]_vars
    PROVE  TargetInv'
  <1>1. Registers /\ Nearest /\ DivisionExact /\ (RoomToShift => ShareTarget)
    BY DEF TargetInv
  <1>2. ASSUME NEW d \in 0 .. (Word - 1) * Grain, SetDifficulty(d)
        PROVE  TargetInv'
    <2>1. divisor' \in Nat /\ divisor' > 0 /\ Nearest'
      <3>1. d \in Nat /\ diff' = Believed(d) /\ divisor' = Scaled(Believed(d))
        BY <1>2, Positive DEF SetDifficulty
      <3>2. QED
        BY <3>1, ScaledIsNearest, Zenon DEF Nearest
    <2>2. Registers' /\ DivisionExact'
      BY <1>2, <2>1, Positive DEF SetDifficulty, Registers, DivisionExact
    <2>3. ShareTarget'
      BY <1>2 DEF SetDifficulty, ShareTarget
    <2>4. QED
      BY <2>1, <2>2, <2>3 DEF TargetInv
  <1>3. CASE DivBit
    <2>1. Registers' /\ DivisionExact'
      BY <1>1, <1>3, DivBitExact
    <2>2. ShareTarget'
      BY <1>3 DEF DivBit, ShareTarget
    <2>3. Nearest'
      BY <1>1, <1>3, Zenon DEF DivBit, Nearest
    <2>4. QED
      BY <2>1, <2>2, <2>3 DEF TargetInv
  <1>4. CASE DivDone
    <2>1. target' = bn_shl32(quot) /\ UNCHANGED <<diff, divisor, i, pre, rem, quot>>
      BY <1>4 DEF DivDone
    <2>2. bn_shl32(quot) \in Nat
      BY <1>1, Positive DEF bn_shl32, Registers
    <2>3. Registers' /\ DivisionExact'
      BY <1>1, <2>1, <2>2 DEF Registers, DivisionExact, InRange
    <2>4. RoomToShift' => ShareTarget'
      <3>1. SUFFICES ASSUME RoomToShift, InRange
                     PROVE  /\ target' * (2 * diff - Grain) <= 2 * Grain * (pre * Scale)
                            /\ 2 * Grain * (pre * Scale)
                                 < (target' + Scale) * (2 * diff + Grain)
        BY <2>1 DEF ShareTarget, RoomToShift, InRange
      <3>2. /\ target' * divisor <= pre * Scale
            /\ pre * Scale < (target' + Scale) * divisor
        BY <1>1, <2>1, <3>1, RoundedDown
      <3>3. target' \in Nat /\ pre * Scale \in Nat
        BY <1>1, <2>1, <2>2, Positive DEF Registers
      <3>4. Scale \in Nat /\ Grain \in Nat /\ Grain > 0 /\ divisor \in Nat /\ diff \in Nat
        BY <1>1, Positive, Zenon DEF Registers, Nearest
      <3>5. QED
        BY <1>1, <3>2, <3>3, <3>4, CloseToDifficulty, Zenon DEF Nearest
    <2>5. Nearest'
      BY <1>1, <2>1, Zenon DEF Nearest
    <2>6. QED
      BY <2>3, <2>4, <2>5 DEF TargetInv
  <1>5. ASSUME NEW e \in 0 .. MaxExp, NEW m \in 0 .. 2 * SignBit - 1, NEW shift \in 0 .. MaxShift,
               FromBits(e, m, shift)
        PROVE  TargetInv'
    <2>1. target' \in Nat
      BY <1>5, CompactFits DEF FromBits
    <2>2. Registers' /\ DivisionExact'
      BY <1>5, <2>1, Positive DEF FromBits, Registers, DivisionExact
    <2>3. ShareTarget'
      BY <1>5 DEF FromBits, ShareTarget
    <2>4. Nearest'
      <3>1. 2 * Grain * 1 = 2 * Grain /\ 2 * Grain * (1 + 1) = 4 * Grain
        BY Positive
      <3>2. QED
        BY <1>5, <3>1, Positive DEF FromBits, Nearest
    <2>5. QED
      BY <2>2, <2>3, <2>4 DEF TargetInv
  <1>6. ASSUME UNCHANGED <<pc, pool, diff, divisor, i, pre, rem, quot, target>>
        PROVE  TargetInv'
    BY <1>1, <1>6 DEF TargetInv, Registers, Nearest, DivisionExact, RoomToShift, ShareTarget, InRange
  <1>7. QED
    BY <1>2, <1>3, <1>4, <1>5, <1>6 DEF Next, Try, vars

\* So it holds always.
LEMMA TargetInvariant == Spec => []TargetInv
  <1>1. QED
    BY InitTargetInv, NextTargetInv, PTL DEF Spec

\* bn_div_u64 divides: for every difficulty up to half the register, at every
\* iteration, whatever the sizes of the words.
THEOREM DivisionDivides == Spec => []DivisionExact
  <1>1. TargetInv => DivisionExact
    BY DEF TargetInv
  <1>2. QED
    BY <1>1, TargetInvariant, PTL

\* The target a share is held to is as close to the pool's as 32 fractional
\* bits allow: diff1 / difficulty, rounded down by less than 2^32, for a
\* difficulty at most half a unit of 2^-32 away.
THEOREM ShareTargetIsClose == Spec => [](RoomToShift => ShareTarget)
  <1>1. TargetInv => (RoomToShift => ShareTarget)
    BY DEF TargetInv
  <1>2. QED
    BY <1>1, TargetInvariant, PTL

---------------------------------------------------------------------------
(* The comparisons.                                                        *)

\* Every variable keeps its width: the remainder its register, targets and
\* hashes their 256 bits.
THEOREM TargetTypeCorrect == Spec => []TypeOK
  <1>1. Init => TypeOK
    <2> SUFFICES ASSUME Init PROVE TypeOK
      OBVIOUS
    <2>1. pc \in {"idle", "divide", "mine"} /\ pool \in BOOLEAN
      BY DEF Init
    <2>2. /\ diff \in Nat \ {0} /\ divisor \in Nat \ {0} /\ i \in 0 .. Len(Diff1) /\ pre \in Nat /\ quot \in Nat
          /\ rem \in 0 .. Word - 1 /\ target \in 0 .. Full - 1 /\ hash \in 0 .. Full - 1
      BY Positive DEF Init
    <2>3. QED
      BY <2>1, <2>2 DEF TypeOK
  <1>2. ASSUME TypeOK, [Next]_vars
        PROVE  TypeOK'
    <2>1. ASSUME NEW d \in 0 .. (Word - 1) * Grain, SetDifficulty(d)
          PROVE  TypeOK'
      <3>1. d \in Nat /\ diff' = Believed(d) /\ divisor' = Scaled(Believed(d))
        BY <2>1, Positive DEF SetDifficulty
      <3>2. diff' \in Nat /\ diff' > 0 /\ divisor' \in Nat /\ divisor' > 0
        BY <3>1, ScaledIsNearest, Zenon
      <3>3. QED
        BY <1>2, <2>1, <3>2, Positive DEF TypeOK, SetDifficulty
    <2>2. CASE DivBit
      <3>1. Diff1[i + 1] \in {0, 1} /\ i + 1 \in 0 .. Len(Diff1)
        BY <1>2, <2>2, Positive DEF TypeOK, DivBit
      <3>2. Shifted(Diff1[i + 1]) \in 0 .. Word - 1
        BY <1>2, <3>1, Residue, Positive DEF TypeOK, Shifted
      <3>3. rem' \in 0 .. Word - 1
        <4>1. rem' = IF Shifted(Diff1[i + 1]) >= divisor
                     THEN Shifted(Diff1[i + 1]) - divisor ELSE Shifted(Diff1[i + 1])
          BY <2>2 DEF DivBit, Fits
        <4>2. divisor \in Nat
          BY <1>2 DEF TypeOK
        <4>3. QED
          BY <3>2, <4>1, <4>2, Positive
      <3>4. quot' \in Nat /\ pre' \in Nat /\ i' \in 0 .. Len(Diff1)
        <4>1. quot \in Nat /\ pre \in Nat
          BY <1>2 DEF TypeOK
        <4>2. /\ quot' = 2 * quot + IF Shifted(Diff1[i + 1]) >= divisor THEN 1 ELSE 0
              /\ pre' = 2 * pre + Diff1[i + 1] /\ i' = i + 1
          BY <2>2 DEF DivBit, Fits
        <4>3. QED
          BY <3>1, <4>1, <4>2
      <3>5. UNCHANGED <<pc, pool, diff, divisor, target, hash>>
        BY <2>2 DEF DivBit
      <3>6. QED
        BY <1>2, <3>3, <3>4, <3>5 DEF TypeOK
    <2>3. CASE DivDone
      <3>1. target' \in 0 .. Full - 1
        BY <1>2, <2>3, Positive DEF TypeOK, DivDone, bn_shl32
      <3>2. QED
        BY <1>2, <2>3, <3>1 DEF TypeOK, DivDone
    <2>4. ASSUME NEW e \in 0 .. MaxExp, NEW m \in 0 .. 2 * SignBit - 1, NEW shift \in 0 .. MaxShift,
                 FromBits(e, m, shift)
          PROVE  TypeOK'
      <3>1. target' \in 0 .. Full - 1
        BY <2>4, CompactFits DEF FromBits
      <3>2. /\ pc' = "mine" /\ pool' = FALSE /\ diff' = Grain /\ divisor' = 1 /\ i' = 0 /\ pre' = 0
            /\ rem' = 0 /\ quot' = 0 /\ hash' = 0
        BY <2>4 DEF FromBits
      <3>3. 0 \in 0 .. Word - 1 /\ 0 \in 0 .. Full - 1 /\ 0 \in 0 .. Len(Diff1)
        BY Positive
      <3>4. pc' \in {"idle", "divide", "mine"} /\ pool' \in BOOLEAN
        BY <3>2, Zenon
      <3>5. diff' \in Nat \ {0} /\ divisor' \in Nat \ {0}
        BY <3>2, Positive
      <3>6. /\ i' \in 0 .. Len(Diff1) /\ pre' \in Nat /\ quot' \in Nat
            /\ rem' \in 0 .. Word - 1 /\ hash' \in 0 .. Full - 1
        BY <3>2, <3>3
      <3>7. QED
        BY <3>1, <3>4, <3>5, <3>6 DEF TypeOK
    <2>5. ASSUME NEW h \in 0 .. Full - 1, Try(h)
          PROVE  TypeOK'
      BY <1>2, <2>5 DEF TypeOK, Try
    <2>6. CASE UNCHANGED vars
      BY <1>2, <2>6 DEF TypeOK, vars
    <2>7. QED
      BY <1>2, <2>1, <2>2, <2>3, <2>4, <2>5, <2>6 DEF Next
  <1>3. QED
    BY <1>1, <1>2, PTL DEF Spec

\* The prefilter hides only the margin: of the hashes the host would accept,
\* the core suppresses those whose top word equals the target's.
THEOREM PrefilterHidesMargin == Spec => []MissedAtMarginOnly
  <1>1. TypeOK => MissedAtMarginOnly
    <2> SUFFICES ASSUME TypeOK, Meets(hash), ~Reported(hash)
                 PROVE  Top64(hash) = Top64(target)
      BY DEF MissedAtMarginOnly
    <2>1. hash \in Nat /\ target \in Nat /\ hash <= target
      BY DEF TypeOK, Meets
    <2>2. hash \div Low <= target \div Low
      BY <2>1, Positive
    <2>3. hash \div Low \in Int /\ target \div Low \in Int
      BY <2>1, Positive
    <2>4. QED
      BY <2>2, <2>3 DEF Reported, Top64
  <1>2. QED
    BY <1>1, TargetTypeCorrect, PTL

====
