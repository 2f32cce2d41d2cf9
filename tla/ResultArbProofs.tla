------------------------- MODULE ResultArbProofs -------------------------
(* Proofs about the FPGA's result path, for any number of cores, any frame *)
(* length and any saturation value.                                        *)
EXTENDS ResultArb, WellFoundedInduction, TLAPS

USE CoresAssumption, FrameAssumption, DropAssumption, EchoAssumption, FoundAssumption

\* Two cores are never equally far from the start of the walk.
LEMMA DistanceInjective ==
    ASSUME NEW p \in Cores, NEW j \in Cores, NEW k \in Cores,
           Distance(p, j) = Distance(p, k)
    PROVE  j = k
  BY DEF Cores, Distance

\* The walk is at most kNumCores - 1 slots long.
LEMMA DistanceRange ==
    ASSUME NEW p \in Cores, NEW k \in Cores
    PROVE  Distance(p, k) \in 0 .. kNumCores - 1
  BY DEF Cores, Distance

\* The arbiter serves at most one core in a cycle.
LEMMA GrantUnique ==
    ASSUME TypeOK, NEW j \in Cores, NEW k \in Cores, Grant(j), Grant(k)
    PROVE  j = k
  <1>1. RrPtr \in Cores
    BY DEF TypeOK
  <1>2. Distance(RrPtr, j) = Distance(RrPtr, k)
    BY <1>1, DistanceRange DEF Grant
  <1>3. QED
    BY <1>1, <1>2, DistanceInjective

\* The walk always decides: when some slot is valid and the transmitter is
\* ready, some core is granted (so no edge of the clock is ever blocked).
LEMMA GrantExists ==
    ASSUME TypeOK, GrantValid
    PROVE  \E k \in Cores : Grant(k)
  <1> DEFINE D == {Distance(RrPtr, k) : k \in {j \in Cores : Vld[j]}}
  <1>1. RrPtr \in Cores
    BY DEF TypeOK
  <1>2. D \subseteq Nat /\ D # {}
    BY <1>1, DistanceRange DEF GrantValid
  <1> DEFINE R == {ss \in Nat \X Nat : ss[1] < ss[2]}
  <1>3. PICK d \in D : \A e \in D : ~(<<e, d>> \in R)
    <2>1. IsWellFoundedOn(R, Nat)
      BY NatLessThanWellFounded, Zenon DEF OpToRel
    <2> HIDE DEF R, D
    <2>2. QED
      BY <1>2, <2>1, WFMin
  <1>4. ASSUME NEW e \in D
        PROVE  d <= e
    <2>1. d \in Nat /\ e \in Nat
      BY <1>2
    <2>2. ~(<<e, d>> \in R)
      BY <1>3
    <2> HIDE DEF D
    <2>3. ~(e < d)
      BY <2>1, <2>2
    <2>4. QED
      BY <2>1, <2>3
  <1>5. PICK k \in Cores : Vld[k] /\ d = Distance(RrPtr, k)
    BY <1>3
  <1>6. \A j \in Cores : Vld[j] => Distance(RrPtr, k) <= Distance(RrPtr, j)
    BY <1>4, <1>5
  <1>7. QED
    BY <1>5, <1>6 DEF Grant

\* What the arbiter registers of a cycle do.
LEMMA PtrStep ==
    ASSUME TypeOK, AdvancePtr
    PROVE  RrPtr' \in Cores
  <1>1. CASE UNCHANGED RrPtr
    BY <1>1 DEF TypeOK
  <1>2. ASSUME NEW k \in Cores, RrPtr' = IF k = kNumCores - 1 THEN 0 ELSE k + 1
        PROVE  RrPtr' \in Cores
    BY <1>2 DEF Cores
  <1>3. QED
    BY <1>1, <1>2 DEF AdvancePtr

\* The capture slots and drop counters stay within their registers.
LEMMA CaptureType ==
    ASSUME TypeOK, NEW S \in SUBSET Cores, Capture(S)
    PROVE  /\ Vld' \in [Cores -> BOOLEAN]
           /\ Slot' \in [Cores -> Nat]
           /\ Drop' \in [Cores -> 0 .. DropMax]
  <1>1. Vld' \in [Cores -> BOOLEAN]
    BY DEF TypeOK, Capture
  <1>2. Slot' \in [Cores -> Nat]
    BY DEF TypeOK, Capture
  <1>3. Drop' \in [Cores -> 0 .. DropMax]
    BY DEF TypeOK, Capture
  <1>4. QED
    BY <1>1, <1>2, <1>3

\* The history counters are numbers.
LEMMA RecordType ==
    ASSUME TypeOK, NEW S \in SUBSET Cores, Record(S)
    PROVE  /\ found' \in [Cores -> Nat]
           /\ sent' \in [Cores -> Nat]
           /\ lastSent' \in [Cores -> Nat]
           /\ bypass' \in [Cores -> Nat]
  <1>1. found' \in [Cores -> Nat]
    BY DEF TypeOK, Record
  <1>2. sent' \in [Cores -> Nat]
    BY DEF TypeOK, Record
  <1>3. lastSent' \in [Cores -> Nat]
    BY DEF TypeOK, Record
  <1>4. bypass' \in [Cores -> Nat]
    BY DEF TypeOK, Record
  <1>5. QED
    BY <1>1, <1>2, <1>3, <1>4

\* One edge of the transmitter keeps its counters in range and in step with
\* the bit times the frame has taken.
LEMMA TransmitterStep ==
    ASSUME TypeOK, TxPhase, FrameAirtime, NEW bit \in BOOLEAN, Transmitter(bit)
    PROVE  /\ txState' \in {"Idle", "LoadByte", "ShiftOut"}
           /\ txByteCount' \in 0 .. kTxBytes
           /\ txBitCount' \in 0 .. kByteBits
           /\ airtime' \in Nat
           /\ TxPhase'
           /\ FrameAirtime'
  <1> DEFINE Latch == /\ txState = "Idle" /\ TxTrigger
                      /\ txState' = "LoadByte" /\ txByteCount' = 0 /\ airtime' = 0
                      /\ UNCHANGED txBitCount
             Load == /\ txState = "LoadByte" /\ bit
                     /\ txState' = "ShiftOut" /\ airtime' = airtime + 1
                     /\ txByteCount' = txByteCount + 1 /\ txBitCount' = txBitCount + 1
             Shift == /\ txState = "ShiftOut"
                      /\ airtime' = airtime + 1
                      /\ UNCHANGED txByteCount
  <1>1. CASE Latch
    BY <1>1 DEF TypeOK, TxPhase, FrameAirtime
  <1>2. CASE Load
    BY <1>2 DEF TypeOK, TxPhase, FrameAirtime
  <1>3. CASE Shift /\ txBitCount = kByteBits /\ txBitCount' = 0
              /\ txState' = IF txByteCount < kTxBytes THEN "LoadByte" ELSE "Idle"
    <2>1. airtime' = (txByteCount - 1) * (kByteBits + 1) + kByteBits + 1
      BY <1>3 DEF TypeOK, TxPhase
    <2>2. (txByteCount - 1) * (kByteBits + 1) + kByteBits + 1 = txByteCount * (kByteBits + 1)
      BY DEF TypeOK
    <2>3. CASE txByteCount < kTxBytes
      BY <1>3, <2>1, <2>2, <2>3 DEF TypeOK, TxPhase, FrameAirtime
    <2>4. CASE txByteCount = kTxBytes
      BY <1>3, <2>1, <2>2, <2>4 DEF TypeOK, TxPhase, FrameAirtime
    <2>5. QED
      BY <2>3, <2>4 DEF TypeOK
  <1>4. CASE Shift /\ txBitCount # kByteBits
              /\ txBitCount' = txBitCount + 1 /\ UNCHANGED txState
    BY <1>4 DEF TypeOK, TxPhase, FrameAirtime
  <1>5. CASE UNCHANGED <<txVars, airtime>>
    BY <1>5 DEF TypeOK, TxPhase, FrameAirtime, txVars
  <1>6. QED
    BY <1>1, <1>2, <1>3, <1>4, <1>5 DEF Transmitter

---------------------------------------------------------------------------
(* Type correctness. TypeOK alone is not inductive: that the byte and bit  *)
(* counters stay in range depends on where the transmitter stands.         *)

TxInv == TypeOK /\ TxPhase /\ FrameAirtime

\* The invariant of the transmitter holds at reset ...
LEMMA InitTxInv == Init => TxInv
  <1> SUFFICES ASSUME Init PROVE TxInv
    OBVIOUS
  <1>1. RrPtr \in Cores /\ 0 \in 0 .. DropMax
    BY DEF Init, Cores
  <1>2. TypeOK
    <2>1. Vld \in [Cores -> BOOLEAN]
      BY DEF Init
    <2>2. /\ Slot \in [Cores -> Nat] /\ Drop \in [Cores -> 0 .. DropMax]
          /\ found \in [Cores -> Nat] /\ sent \in [Cores -> Nat]
          /\ lastSent \in [Cores -> Nat] /\ bypass \in [Cores -> Nat]
      BY <1>1 DEF Init
    <2>3. /\ txState \in {"Idle", "LoadByte", "ShiftOut"} /\ txByteCount \in 0 .. kTxBytes
          /\ txBitCount \in 0 .. kByteBits /\ airtime \in Nat
      BY DEF Init
    <2>4. DbgPulse \in BOOLEAN
      BY DEF Init
    <2>5. QED
      BY <1>1, <2>1, <2>2, <2>3, <2>4 DEF TypeOK
  <1>3. TxPhase /\ FrameAirtime
    BY DEF Init, TxPhase, FrameAirtime
  <1>4. QED
    BY <1>2, <1>3 DEF TxInv

\* ... is kept by every edge ...
LEMMA EdgeTxInv ==
    ASSUME TxInv, NEW S \in SUBSET Cores, NEW bit \in BOOLEAN, NEW newWork \in BOOLEAN,
           Edge(S, bit, newWork)
    PROVE  TxInv'
  <1>1. TypeOK /\ TxPhase /\ FrameAirtime
    BY DEF TxInv
  <1>2. DbgPulse' \in BOOLEAN
    BY DEF Edge, DbgEcho
  <1>3. Capture(S) /\ AdvancePtr /\ Transmitter(bit) /\ Record(S)
    BY DEF Edge
  <1>4. TypeOK'
    BY <1>1, <1>2, <1>3, CaptureType, PtrStep, TransmitterStep, RecordType DEF TypeOK
  <1>5. QED
    BY <1>1, <1>3, <1>4, TransmitterStep DEF TxInv

\* ... and so holds always.
LEMMA TxInvariant == Spec => []TxInv
  <1>1. Init => TxInv
    BY InitTxInv
  <1>2. TxInv /\ [Next]_vars => TxInv'
    <2>1. CASE Next
      BY <2>1, EdgeTxInv DEF Next
    <2>2. CASE UNCHANGED vars
      BY <2>2 DEF TxInv, TypeOK, TxPhase, FrameAirtime, vars, arbVars, txVars, histVars
    <2>3. QED
      BY <2>1, <2>2
  <1>3. QED
    BY <1>1, <1>2, PTL DEF Spec

\* Every reachable state of the arbiter and the transmitter is well typed:
\* counters stay within their registers, RrPtr names a core.
THEOREM TypeCorrect == Spec => []TypeOK
  <1>1. TxInv => TypeOK
    BY DEF TxInv
  <1>2. QED
    BY <1>1, TxInvariant, PTL

\* A frame occupies the transmitter for exactly kTxBytes * (kByteBits + 1)
\* bit times, whatever the cores and the receiver do meanwhile: 187 for the
\* 17-byte result frame, and not the 170 of OspreyBlake2bTop.vhd's comment.
THEOREM AirtimeExact == Spec => []FrameAirtime
  <1>1. TxInv => FrameAirtime
    BY DEF TxInv
  <1>2. QED
    BY <1>1, TxInvariant, PTL

---------------------------------------------------------------------------
(* Conservation, in a build without the debug echo.                        *)

NoEcho == ~DbgPulse

\* An edge without the echo accounts for every candidate raised in it.
LEMMA EdgeConservation ==
    ASSUME ~kDebugEcho, TypeOK, NoEcho, Conservation,
           NEW S \in SUBSET Cores, NEW bit \in BOOLEAN, NEW newWork \in BOOLEAN,
           Edge(S, bit, newWork)
    PROVE  NoEcho' /\ Conservation'
  <1>1. NoEcho'
    BY DEF Edge, DbgEcho, NoEcho
  <1>2. ASSUME NEW k \in Cores
        PROVE  LET missing == found'[k] - sent'[k] - Held(k)'
               IN  Drop'[k] = IF missing < DropMax THEN missing ELSE DropMax
    <2>1. /\ Vld'[k] <=> (k \in S \/ (Vld[k] /\ ~Grant(k)))
          /\ Drop'[k] = IF k \in S /\ Vld[k] /\ ~Grant(k) /\ Drop[k] # DropMax
                        THEN Drop[k] + 1 ELSE Drop[k]
      BY DEF Edge, Capture
    <2>2. /\ found'[k] = IF k \in S THEN found[k] + 1 ELSE found[k]
          /\ sent'[k] = IF Grant(k) THEN sent[k] + 1 ELSE sent[k]
      BY DEF Edge, Record, Carries, NoEcho
    <2>3. /\ found[k] \in Nat /\ sent[k] \in Nat /\ Drop[k] \in 0 .. DropMax
          /\ Vld[k] \in BOOLEAN
      BY DEF TypeOK
    <2>4. Drop[k] = IF found[k] - sent[k] - Held(k) < DropMax
                    THEN found[k] - sent[k] - Held(k) ELSE DropMax
      BY DEF Conservation
    <2>5. Grant(k) => Vld[k]
      BY DEF Grant
    <2>6. CASE Grant(k)
      BY <2>1, <2>2, <2>3, <2>4, <2>5, <2>6 DEF Held
    <2>7. CASE ~Grant(k) /\ Vld[k] /\ k \in S
      BY <2>1, <2>2, <2>3, <2>4, <2>7 DEF Held
    <2>8. CASE ~Grant(k) /\ Vld[k] /\ k \notin S
      BY <2>1, <2>2, <2>3, <2>4, <2>8 DEF Held
    <2>9. CASE ~Grant(k) /\ ~Vld[k]
      BY <2>1, <2>2, <2>3, <2>4, <2>9 DEF Held
    <2>10. QED
      BY <2>6, <2>7, <2>8, <2>9
  <1>3. QED
    BY <1>1, <1>2 DEF Conservation

\* Nothing is lost silently: for any number of cores and any arrival of
\* candidates, found = sent + held + counted, up to saturation.
THEOREM NothingLostSilently ==
    ASSUME ~kDebugEcho
    PROVE  Spec => []Conservation
  <1> DEFINE CInv == NoEcho /\ Conservation
  <1>1. Init => CInv
    <2> SUFFICES ASSUME Init PROVE CInv
      OBVIOUS
    <2>1. ASSUME NEW k \in Cores
          PROVE  found[k] = 0 /\ sent[k] = 0 /\ Held(k) = 0 /\ Drop[k] = 0
      BY DEF Init, Held
    <2>2. Conservation
      BY <2>1 DEF Conservation
    <2>3. QED
      BY <2>2 DEF Init, NoEcho
  <1>2. TypeOK /\ CInv /\ [Next]_vars => CInv'
    <2>1. ASSUME TypeOK, CInv, Next
          PROVE  CInv'
      BY <2>1, EdgeConservation DEF Next
    <2>2. ASSUME CInv, UNCHANGED vars
          PROVE  CInv'
      BY <2>2 DEF NoEcho, Conservation, Held, vars, arbVars, histVars
    <2>3. QED
      BY <2>1, <2>2
  <1>3. QED
    BY <1>1, <1>2, TypeCorrect, PTL DEF Spec

---------------------------------------------------------------------------
(* Order and fairness of the arbiter.                                      *)

\* A core's frames leave in the order of discovery, each at most once.
THEOREM OrderedFrames == Spec => []FramesInOrder
  <1>1. Init => FramesInOrder
    BY DEF Init, FramesInOrder
  <1>2. ASSUME TypeOK, FramesInOrder, [Next]_vars
        PROVE  FramesInOrder'
    <2>1. ASSUME NEW S \in SUBSET Cores, NEW bit \in BOOLEAN, NEW newWork \in BOOLEAN,
                 Edge(S, bit, newWork), NEW k \in Cores
          PROVE  /\ lastSent'[k] <= found'[k]
                 /\ Vld'[k] => lastSent'[k] < Slot'[k] /\ Slot'[k] <= found'[k]
      <3>1. /\ Vld'[k] <=> (k \in S \/ (Vld[k] /\ ~Grant(k)))
            /\ Slot'[k] = IF k \in S /\ (~Vld[k] \/ Grant(k)) THEN found[k] + 1 ELSE Slot[k]
        BY <2>1 DEF Edge, Capture
      <3>2. /\ found'[k] = IF k \in S THEN found[k] + 1 ELSE found[k]
            /\ lastSent'[k] = IF Carries(k) THEN Slot[k] ELSE lastSent[k]
        BY <2>1 DEF Edge, Record
      <3>3. /\ found[k] \in Nat /\ lastSent[k] \in Nat /\ Slot[k] \in Nat
            /\ Vld[k] \in BOOLEAN
        BY <1>2 DEF TypeOK
      <3>4. /\ lastSent[k] <= found[k]
            /\ Vld[k] => lastSent[k] < Slot[k] /\ Slot[k] <= found[k]
        BY <1>2 DEF FramesInOrder
      <3>5. Carries(k) => Grant(k)
        BY DEF Carries
      <3>6. Grant(k) => Vld[k]
        BY DEF Grant
      <3>7. CASE Grant(k)
        <4>1. lastSent'[k] \in {lastSent[k], Slot[k]}
          BY <3>2
        <4>2. QED
          BY <3>1, <3>2, <3>3, <3>4, <3>6, <3>7, <4>1
      <3>8. CASE ~Grant(k)
        <4>1. lastSent'[k] = lastSent[k]
          BY <3>2, <3>5, <3>8
        <4>2. QED
          BY <3>1, <3>2, <3>3, <3>4, <3>8, <4>1
      <3>9. QED
        BY <3>7, <3>8
    <2>2. CASE Next
      BY <2>1, <2>2 DEF Next, FramesInOrder
    <2>3. CASE UNCHANGED vars
      BY <1>2, <2>3 DEF FramesInOrder, vars, arbVars, histVars
    <2>4. QED
      BY <1>2, <2>2, <2>3
  <1>3. QED
    BY <1>1, <1>2, TypeCorrect, PTL DEF Spec

\* Serving another core first brings the walk strictly closer to k.
LEMMA WalkAdvances ==
    ASSUME NEW p \in Cores, NEW g \in Cores, NEW k \in Cores, NEW q,
           g # k, Distance(p, g) <= Distance(p, k),
           q = IF g = kNumCores - 1 THEN 0 ELSE g + 1
    PROVE  Distance(q, k) < Distance(p, k)
  BY DEF Cores, Distance

\* No core is starved: a waiting slot is passed over fewer than kNumCores
\* times, for every number of cores.
THEOREM NoStarvation == Spec => []BoundedBypass
  <1>1. Init => WalkLeft
    BY DEF Init, WalkLeft
  <1>2. ASSUME TypeOK, WalkLeft, [Next]_vars
        PROVE  WalkLeft'
    <2>1. ASSUME NEW S \in SUBSET Cores, NEW bit \in BOOLEAN, NEW newWork \in BOOLEAN,
                 Edge(S, bit, newWork), NEW k \in Cores, Vld'[k]
          PROVE  bypass'[k] + Distance(RrPtr', k) < kNumCores
      <3>1. RrPtr \in Cores /\ RrPtr' \in Cores /\ bypass[k] \in Nat /\ Vld[k] \in BOOLEAN
        BY <1>2, <2>1, PtrStep DEF TypeOK, Edge
      <3>2. bypass'[k] = IF ~Vld[k] \/ Grant(k) THEN 0
                         ELSE IF GrantValid THEN bypass[k] + 1 ELSE bypass[k]
        BY <2>1 DEF Edge, Record
      <3>3. /\ Distance(RrPtr, k) \in 0 .. kNumCores - 1
            /\ Distance(RrPtr', k) \in 0 .. kNumCores - 1
        BY <3>1, DistanceRange
      <3>4. CASE ~Vld[k] \/ Grant(k)
        BY <3>2, <3>3, <3>4
      <3>5. CASE Vld[k] /\ ~Grant(k) /\ ~GrantValid
        <4>1. RrPtr' = RrPtr
          BY <2>1, <3>5 DEF Edge, AdvancePtr, Grant
        <4>2. QED
          BY <1>2, <3>2, <3>5, <4>1 DEF WalkLeft
      <3>6. CASE Vld[k] /\ ~Grant(k) /\ GrantValid
        <4>1. PICK g \in Cores : Grant(g) /\ RrPtr' = IF g = kNumCores - 1 THEN 0 ELSE g + 1
          BY <2>1, <3>6 DEF Edge, AdvancePtr
        <4>2. g # k /\ Distance(RrPtr, g) <= Distance(RrPtr, k)
          BY <3>6, <4>1 DEF Grant
        <4>3. Distance(RrPtr', k) < Distance(RrPtr, k)
          BY <3>1, <4>1, <4>2, WalkAdvances
        <4>4. bypass[k] + Distance(RrPtr, k) < kNumCores
          BY <1>2, <3>6 DEF WalkLeft
        <4>5. QED
          BY <3>1, <3>2, <3>3, <3>6, <4>3, <4>4
      <3>7. QED
        BY <3>1, <3>4, <3>5, <3>6
    <2>2. CASE Next
      BY <2>1, <2>2 DEF Next, WalkLeft
    <2>3. CASE UNCHANGED vars
      BY <1>2, <2>3 DEF WalkLeft, Distance, vars, arbVars, histVars
    <2>4. QED
      BY <1>2, <2>2, <2>3
  <1>3. TypeOK /\ WalkLeft => BoundedBypass
    <2>1. ASSUME TypeOK, WalkLeft, NEW k \in Cores, Vld[k]
          PROVE  bypass[k] < kNumCores
      <3>1. RrPtr \in Cores /\ bypass[k] \in Nat /\ bypass[k] + Distance(RrPtr, k) < kNumCores
        BY <2>1 DEF TypeOK, WalkLeft
      <3>2. Distance(RrPtr, k) \in 0 .. kNumCores - 1
        BY <3>1, DistanceRange
      <3>3. QED
        BY <3>1, <3>2
    <2>2. QED
      BY <2>1 DEF BoundedBypass
  <1>4. QED
    BY <1>1, <1>2, <1>3, TypeCorrect, PTL DEF Spec

---------------------------------------------------------------------------
(* Refinement of the counted channel.                                      *)

\* Without the echo, an edge is a step of the channel that delivers the
\* granted core's candidate.
LEMMA EdgeIsChannelStep ==
    ASSUME TypeOK, NoEcho, FramesInOrder,
           NEW S \in SUBSET Cores, NEW bit \in BOOLEAN, NEW newWork \in BOOLEAN,
           Edge(S, bit, newWork)
    PROVE  Channel!Next
  <1> DEFINE D == {k \in Cores : Grant(k)}
  <1>1. ASSUME NEW k \in D
        PROVE  Waiting[k] # 0 /\ Waiting[k] = Slot[k] /\ Vld[k]
    BY <1>1 DEF Grant, Waiting, TypeOK, FramesInOrder
  <1>2. \A j, k \in D : j = k
    BY GrantUnique
  <1>3. ASSUME NEW k \in Cores
        PROVE  Channel!Free(k, D) <=> (~Vld[k] \/ Grant(k))
    BY <1>3 DEF Channel!Free, Waiting, TypeOK, FramesInOrder
  <1>4. found' = [k \in Cores |-> IF k \in S THEN found[k] + 1 ELSE found[k]]
    BY DEF Edge, Record
  <1>5. lastSent' = [k \in Cores |-> IF k \in D THEN Waiting[k] ELSE lastSent[k]]
    <2>1. lastSent' = [k \in Cores |-> IF Carries(k) THEN Slot[k] ELSE lastSent[k]]
      BY DEF Edge, Record
    <2>2. \A k \in Cores : Carries(k) <=> k \in D
      BY DEF Carries, NoEcho
    <2>3. QED
      BY <1>1, <2>1, <2>2
  <1>6. Waiting' = [k \in Cores |->
                      IF k \in S /\ Channel!Free(k, D) THEN found[k] + 1
                      ELSE IF k \in D THEN 0 ELSE Waiting[k]]
    <2>1. ASSUME NEW k \in Cores
          PROVE  (IF Vld'[k] THEN Slot'[k] ELSE 0) =
                   IF k \in S /\ Channel!Free(k, D) THEN found[k] + 1
                   ELSE IF k \in D THEN 0 ELSE Waiting[k]
      <3>1. /\ Vld'[k] <=> (k \in S \/ (Vld[k] /\ ~Grant(k)))
            /\ Slot'[k] = IF k \in S /\ (~Vld[k] \/ Grant(k)) THEN found[k] + 1 ELSE Slot[k]
        BY DEF Edge, Capture
      <3>2. Grant(k) => Vld[k]
        BY DEF Grant
      <3>3. QED
        BY <1>3, <3>1, <3>2 DEF Waiting
    <2>2. QED
      BY <2>1 DEF Waiting
  <1>7. Drop' = [k \in Cores |->
                   IF k \in S /\ ~Channel!Free(k, D) /\ Drop[k] < DropMax
                   THEN Drop[k] + 1 ELSE Drop[k]]
    <2>1. Drop' = [k \in Cores |->
                     IF k \in S /\ Vld[k] /\ ~Grant(k) /\ Drop[k] # DropMax
                     THEN Drop[k] + 1 ELSE Drop[k]]
      BY DEF Edge, Capture
    <2>2. \A k \in Cores : Drop[k] < DropMax <=> Drop[k] # DropMax
      BY DEF TypeOK
    <2>3. QED
      BY <1>3, <2>1, <2>2
  <1>8. Channel!Step(S, D)
    <2> HIDE DEF D
    <2>1. QED
      BY <1>1, <1>2, <1>4, <1>5, <1>6, <1>7 DEF Channel!Step
  <1>9. QED
    BY <1>8 DEF Channel!Next

\* The arbiter with its transmitter implements the counted channel, for any
\* number of cores: at most one candidate is delivered per edge, complete and
\* in order, and a loss is always counted.
THEOREM ArbImplementsChannel ==
    ASSUME ~kDebugEcho
    PROVE  Spec => ImplementsChannel
  <1>1. Init => Channel!Init
    BY DEF Init, Channel!Init, Waiting
  <1>2. ASSUME TypeOK, NoEcho, FramesInOrder, [Next]_vars
        PROVE  [Channel!Next]_(Channel!vars)
    <2>1. CASE Next
      BY <1>2, <2>1, EdgeIsChannelStep DEF Next
    <2>2. CASE UNCHANGED vars
      BY <2>2 DEF Channel!vars, Waiting, vars, arbVars, histVars
    <2>3. QED
      BY <1>2, <2>1, <2>2
  <1>3. Spec => []NoEcho
    <2>1. Init => NoEcho
      BY DEF Init, NoEcho
    <2>2. NoEcho /\ [Next]_vars => NoEcho'
      BY DEF NoEcho, Next, Edge, DbgEcho, vars
    <2>3. QED
      BY <2>1, <2>2, PTL DEF Spec
  <1>4. QED
    BY <1>1, <1>2, <1>3, TypeCorrect, OrderedFrames, PTL DEF Spec, ImplementsChannel, Channel!Spec

====
