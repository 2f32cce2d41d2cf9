----------------------------- MODULE Targets -----------------------------
(***************************************************************************)
(* Target arithmetic and the two comparisons a hash has to pass: the       *)
(* core's on the top word (Hash0 < TargetTop64) and the host's on all 256  *)
(* bits (hash_meets_target).  A pool target is diff1 divided bit by bit by *)
(* the scaled difficulty in 64-bit registers (bn_div_u64); a network       *)
(* target is unpacked from nBits (compact_to_target_shifted).              *)
(*                                                                         *)
(* Byte arrays are numbers, and the hash the host compares is the one the  *)
(* core computed: no source sets m_xor_key, so get_pow_hash's mask is      *)
(* zero; the target it compares with is the one the item carried, as in    *)
(* pool mining and in solo mining at the network's --target-shift.  The    *)
(* word sizes are constants, so that the same definitions are checked on   *)
(* few bits and proved for any.                                            *)
(*                                                                         *)
(* A difficulty is a double, finer than the 2^-32 the divisor keeps of it: *)
(* it counts in units of 1 / (Scale * Grain), and the conversion to        *)
(* dscaled rounds.  (A double holds d * 2^32 + 0.5 exactly up to 2^52,     *)
(* that is for difficulties below 2^20; what the sum rounds to above that  *)
(* is not modelled.)                                                       *)
(***************************************************************************)
EXTENDS Integers, Sequences

CONSTANTS
    Diff1,   \* the bits of diff1_target, most significant first
    Scale,   \* 2^32: the fraction kept of a difficulty
    Grain,   \* how much finer than 2^-32 the pool's difficulty is
    Least,   \* 1e-9 (4.29 * Grain): no difficulty up to this is believed
    Word,    \* 2^64: the remainder's register overflows here
    Low,     \* 2^192: what the low words of a hash can hold
    Full,    \* 2^256
    Byte,    \* 2^8: a byte of nBits
    MaxExp, MaxShift  \* bound: the largest exponent and shift

ASSUME TargetConstants ==
    /\ Diff1 \in Seq({0, 1})
    /\ {Scale, Grain, Least, Word, Low, Full, Byte} \subseteq Nat \ {0}
    /\ Least >= Grain
    /\ MaxExp \in Nat /\ MaxShift \in Nat

VARIABLES
    pc,       \* "idle", "divide" (inside bn_div_u64) or "mine"
    pool,     \* the target is a pool's
    diff,     \* history: the difficulty the target is for
    divisor,  \* dscaled
    i,        \* bits of diff1 consumed
    pre,      \* history: the number those bits make
    rem,      \* rem of bn_div_u64
    quot,     \* out of bn_div_u64, as far as it is written
    target,   \* the share or network target, all of it
    hash      \* the hash being judged

vars == <<pc, pool, diff, divisor, i, pre, rem, quot, target, hash>>

Init ==
    /\ pc = "idle" /\ pool = FALSE
    /\ diff = Grain /\ divisor = 1 /\ i = 0 /\ pre = 0 /\ rem = 0 /\ quot = 0
    /\ target = 0 /\ hash = 0

---------------------------------------------------------------------------
(* stratum_target_full *)

\* mining.set_difficulty: zero, or less than any pool sends, counts as
\* difficulty one.
Believed(d) == IF d > Least THEN d ELSE Scale * Grain

\* MUTANT of Scaled: the conversion cuts the fraction off.
ScaledCut(d) == IF d \div Grain = 0 THEN 1 ELSE d \div Grain

\* (uint64_t)(d * 2^32 + 0.5): to the nearest integer, a half upwards.
Scaled(d) ==
    LET dscaled == (2 * d + Grain) \div (2 * Grain)
    IN  IF dscaled = 0 THEN 1 ELSE dscaled

SetDifficulty(d) ==
    /\ pc # "divide"
    /\ pc' = "divide"
    /\ diff' = Believed(d)
    /\ divisor' = Scaled(Believed(d))
    /\ i' = 0 /\ pre' = 0 /\ rem' = 0 /\ quot' = 0
    /\ target' = 0 /\ hash' = 0
    /\ UNCHANGED pool

\* The remainder with the next bit shifted in, in its 64-bit register.
Shifted(bit) == (2 * rem + bit) % Word

\* MUTANT of Fits: a remainder equal to the divisor is not divided.
FitsStrictly(r) == r > divisor

Fits(r) == r >= divisor

\* One iteration of bn_div_u64. The quotient's bit is written where the bit
\* came from, so what is written so far is the quotient of the prefix.
DivBit ==
    /\ pc = "divide" /\ i < Len(Diff1)
    /\ LET bit == Diff1[i + 1]
           r   == Shifted(bit)
       IN  /\ rem' = IF Fits(r) THEN r - divisor ELSE r
           /\ quot' = 2 * quot + IF Fits(r) THEN 1 ELSE 0
           /\ pre' = 2 * pre + bit
    /\ i' = i + 1
    /\ UNCHANGED <<pc, pool, diff, divisor, target, hash>>

\* The fraction taken out of the divisor is put back: out = q << 32.
bn_shl32(q) == (q * Scale) % Full

DivDone ==
    /\ pc = "divide" /\ i = Len(Diff1)
    /\ target' = bn_shl32(quot)
    /\ pool' = TRUE
    /\ pc' = "mine"
    /\ UNCHANGED <<diff, divisor, i, pre, rem, quot, hash>>

---------------------------------------------------------------------------
(* compact_to_target_shifted *)

SignBit == (Byte * Byte * Byte) \div 2

\* MUTANT of Placed: bits above the top of the target are kept.
PlacedUncut(m, bytes, shift) == m * Byte ^ bytes * 2 ^ shift

\* The mantissa's bits are set from that position on; those past the top are
\* lost.
Placed(m, bytes, shift) == (m * Byte ^ bytes * 2 ^ shift) % Full

\* What an exponent below three divides the mantissa by.
Shr == <<Byte * Byte * Byte, Byte * Byte, Byte, 1>>

\* A negative mantissa gives a target that nothing meets but zero.
CompactTarget(exp, mant, shift) ==
    IF mant >= SignBit THEN 0
    ELSE IF exp <= 3 THEN Placed(mant \div Shr[exp + 1], 0, shift)
    ELSE Placed(mant, exp - 3, shift)

FromBits(exp, mant, shift) ==
    /\ pc # "divide"
    /\ target' = CompactTarget(exp, mant, shift)
    /\ pool' = FALSE
    /\ pc' = "mine"
    /\ diff' = Grain /\ divisor' = 1 /\ i' = 0 /\ pre' = 0 /\ rem' = 0 /\ quot' = 0
    /\ hash' = 0

---------------------------------------------------------------------------
(* The two comparisons of a hash with its target. *)

\* The top word of a hash or a target.
Top64(x) == x \div Low

\* MUTANT of Reported: the core leaves a margin of one in the top word.
ReportedShort(h) == Top64(h) + 1 < Top64(target)

\* The core's prefilter.
Reported(h) == Top64(h) < Top64(target)

\* hash_meets_target.
Meets(h) == h <= target

\* A core tries a nonce.
Try(h) ==
    /\ pc = "mine"
    /\ hash' = h
    /\ UNCHANGED <<pc, pool, diff, divisor, i, pre, rem, quot, target>>

---------------------------------------------------------------------------

Next ==
    \/ \E d \in 0 .. (Word - 1) * Grain : SetDifficulty(d)
    \/ DivBit \/ DivDone
    \/ \E exp \in 0 .. MaxExp, mant \in 0 .. 2 * SignBit - 1, shift \in 0 .. MaxShift :
            FromBits(exp, mant, shift)
    \/ \E h \in 0 .. Full - 1 : Try(h)

Spec == Init /\ [][Next]_vars

---------------------------------------------------------------------------
(* Properties *)

\* Targets and hashes have 256 bits and the remainder fits its register.
TypeOK ==
    /\ pc \in {"idle", "divide", "mine"}
    /\ pool \in BOOLEAN
    /\ diff \in Nat \ {0} /\ divisor \in Nat \ {0}
    /\ i \in 0 .. Len(Diff1)
    /\ pre \in Nat /\ quot \in Nat
    /\ rem \in 0 .. Word - 1
    /\ target \in 0 .. Full - 1
    /\ hash \in 0 .. Full - 1

\* Twice the remainder still fits the register: bn_div_u64 is used within its
\* range for difficulties up to 2^31.
InRange == 2 * divisor <= Word

\* The bit-serial division is a division: at every iteration the bits read
\* so far are quotient times divisor plus a proper remainder. (Beyond 2^31
\* the shifted remainder overflows and the quotient is wrong.)
DivisionExact ==
    InRange => pre = quot * divisor + rem /\ rem < divisor

\* The shift back does not cut the quotient, as the top 32 bits of diff1 are
\* zero: an assumption of the proof, a fact of every state TLC visits.
RoomToShift == quot * Scale < Full

\* The share target is diff1 over the pool's difficulty, as closely as 32
\* fractional bits allow: it would be the quotient, rounded down by less than
\* 2^32, for some difficulty no more than half a unit of 2^-32 away. So the
\* host misjudges a share only within that half unit and that rounding.
ShareTarget ==
    pc = "mine" /\ pool /\ InRange =>
        /\ target * (2 * diff - Grain) <= 2 * Grain * (pre * Scale)
        /\ 2 * Grain * (pre * Scale) < (target + Scale) * (2 * diff + Grain)

\* The core hides a hash the host would accept only when its top word equals
\* the target's: the strict comparison costs the margin and nothing else.
MissedAtMarginOnly ==
    Meets(hash) /\ ~Reported(hash) => Top64(hash) = Top64(target)

====
