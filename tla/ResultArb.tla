---------------------------- MODULE ResultArb ----------------------------
(***************************************************************************)
(* The FPGA's result path: the per-core capture slots and the round-robin  *)
(* arbiter (OspreyBlake2bResultArb), the UART transmitter it feeds         *)
(* (OspreyBlake2bUartGetWork) and the reply multiplexer with the optional  *)
(* debug echo (OspreyBlake2bUartTop).                                      *)
(*                                                                         *)
(* The RTL is synchronous, so one step is one rising edge of MiningClk and *)
(* every register of the path is updated in it.  The inputs of an edge     *)
(* are the set of cores whose Success is high, whether NewWork is high     *)
(* and whether the free-running TX divider raises txBitTime; the divider   *)
(* is abstracted to a free choice, so nothing below depends on the baud    *)
(* rate.  A candidate's nonce and hash are abstracted to its ordinal among *)
(* the candidates of its core.  Counters start at the last aReset.         *)
(***************************************************************************)
EXTENDS Integers

CONSTANTS
    kNumCores,    \* number of mining cores
    kTxBytes,     \* bytes of a result frame (17)
    kByteBits,    \* bits of a byte on the wire, byteOut'length (10)
    DropMax,      \* saturation value of a drop counter (0xFFFF)
    kDebugEcho,   \* whether the debug echo is elaborated
    MaxFound      \* bound: candidates per core in one behaviour

ASSUME CoresAssumption == kNumCores \in Nat \ {0}
ASSUME FrameAssumption == kTxBytes \in Nat \ {0} /\ kByteBits \in Nat \ {0}
ASSUME DropAssumption  == DropMax \in Nat \ {0}
ASSUME EchoAssumption  == kDebugEcho \in BOOLEAN
ASSUME FoundAssumption == MaxFound \in Nat

Cores == 0 .. kNumCores - 1

VARIABLES
    Vld,          \* Vld[k]: core k's slot holds a candidate
    Slot,         \* Slot[k]: the candidate in it (Nonce(k), Hash(k))
    Drop,         \* Drop[k]: saturating count of candidates with no slot
    RrPtr,        \* where the next round-robin walk starts
    txState,      \* transmitter FSM
    txByteCount,  \* bytes of the current frame loaded so far
    txBitCount,   \* bit position in the current byte
    DbgPulse,     \* registered NewWork, when kDebugEcho
    found,        \* history: candidates core k has raised
    sent,         \* history: candidate frames of core k latched by the TX
    lastSent,     \* history: the newest candidate of core k latched
    bypass,       \* history: grants to others since core k's slot was filled
    airtime       \* history: txBitTime pulses of the current frame

arbVars  == <<Vld, Slot, Drop, RrPtr>>
txVars   == <<txState, txByteCount, txBitCount>>
histVars == <<found, sent, lastSent, bypass, airtime>>
vars     == <<arbVars, txVars, DbgPulse, histVars>>

---------------------------------------------------------------------------
(* Select_p: the combinational round-robin choice. *)

\* How far the walk (RrPtr + n) mod kNumCores goes before it reaches k.
Distance(p, k) == IF k >= p THEN k - p ELSE k - p + kNumCores

ResultReady == txState = "Idle"

\* MUTANT: the walk looks at RrPtr's own slot only.
GrantValidAtPtr == ResultReady /\ Vld[RrPtr]

GrantValid == ResultReady /\ \E k \in Cores : Vld[k]

\* MUTANT: fixed priority, the lowest-numbered valid slot always wins.
GrantFixedPriority(k) ==
    /\ GrantValid
    /\ Vld[k]
    /\ \A j \in Cores : Vld[j] => k <= j

Grant(k) ==
    /\ GrantValid
    /\ Vld[k]
    /\ \A j \in Cores : Vld[j] => Distance(RrPtr, k) <= Distance(RrPtr, j)

---------------------------------------------------------------------------
(* Capture: one slot per core. A Success on the cycle of its own grant     *)
(* refills the slot.                                                       *)

\* MUTANT: a busy slot loses the candidate without counting it.
CaptureUncounted(S) ==
    /\ Vld'  = [k \in Cores |-> k \in S \/ (Vld[k] /\ ~Grant(k))]
    /\ Slot' = [k \in Cores |->
                  IF k \in S /\ (~Vld[k] \/ Grant(k)) THEN found[k] + 1 ELSE Slot[k]]
    /\ UNCHANGED Drop

\* MUTANT: the grant does not free the slot.
CaptureSticky(S) ==
    /\ Vld'  = [k \in Cores |-> k \in S \/ Vld[k]]
    /\ Slot' = [k \in Cores |->
                  IF k \in S /\ (~Vld[k] \/ Grant(k)) THEN found[k] + 1 ELSE Slot[k]]
    /\ Drop' = [k \in Cores |->
                  IF k \in S /\ Vld[k] /\ ~Grant(k) /\ Drop[k] # DropMax
                  THEN Drop[k] + 1 ELSE Drop[k]]

\* MUTANT: the drop counter does not saturate.
CaptureUnsaturated(S) ==
    /\ Vld'  = [k \in Cores |-> k \in S \/ (Vld[k] /\ ~Grant(k))]
    /\ Slot' = [k \in Cores |->
                  IF k \in S /\ (~Vld[k] \/ Grant(k)) THEN found[k] + 1 ELSE Slot[k]]
    /\ Drop' = [k \in Cores |->
                  IF k \in S /\ Vld[k] /\ ~Grant(k) THEN Drop[k] + 1 ELSE Drop[k]]

Capture(S) ==
    /\ Vld'  = [k \in Cores |-> k \in S \/ (Vld[k] /\ ~Grant(k))]
    /\ Slot' = [k \in Cores |->
                  IF k \in S /\ (~Vld[k] \/ Grant(k)) THEN found[k] + 1 ELSE Slot[k]]
    /\ Drop' = [k \in Cores |->
                  IF k \in S /\ Vld[k] /\ ~Grant(k) /\ Drop[k] # DropMax
                  THEN Drop[k] + 1 ELSE Drop[k]]

\* Rr_p: the pointer moves just past the core served.
AdvancePtr ==
    \/ /\ ~GrantValid
       /\ UNCHANGED RrPtr
    \/ \E k \in Cores :
          /\ Grant(k)
          /\ RrPtr' = IF k = kNumCores - 1 THEN 0 ELSE k + 1

---------------------------------------------------------------------------
(* The reply multiplexer and the transmitter. *)

\* DbgEcho: the echo request is NewWork one cycle late.
DbgEcho(newWork) == DbgPulse' = (kDebugEcho /\ newWork)

TxTrigger == DbgPulse \/ GrantValid

\* ResultData carries core k's candidate: its grant, unless the echo is
\* selected instead.
Carries(k) == Grant(k) /\ ~DbgPulse

Transmitter(bit) ==
    \/ /\ txState = "Idle" /\ TxTrigger
       /\ txState' = "LoadByte" /\ txByteCount' = 0 /\ airtime' = 0
       /\ UNCHANGED txBitCount
    \/ /\ txState = "LoadByte" /\ bit
       /\ txState' = "ShiftOut" /\ airtime' = airtime + 1
       /\ txByteCount' = txByteCount + 1 /\ txBitCount' = txBitCount + 1
    \/ /\ txState = "ShiftOut" /\ bit
       /\ airtime' = airtime + 1
       /\ UNCHANGED txByteCount
       /\ IF txBitCount = kByteBits
          THEN /\ txBitCount' = 0
               /\ txState' = IF txByteCount < kTxBytes THEN "LoadByte" ELSE "Idle"
          ELSE txBitCount' = txBitCount + 1 /\ UNCHANGED txState
    \/ /\ IF txState = "Idle" THEN ~TxTrigger ELSE ~bit
       /\ UNCHANGED <<txVars, airtime>>

---------------------------------------------------------------------------
Init ==
    /\ Vld  = [k \in Cores |-> FALSE]
    /\ Slot = [k \in Cores |-> 0]
    /\ Drop = [k \in Cores |-> 0]
    /\ RrPtr = 0
    /\ txState = "Idle" /\ txByteCount = 0 /\ txBitCount = 0
    /\ DbgPulse = FALSE
    /\ found = [k \in Cores |-> 0]
    /\ sent  = [k \in Cores |-> 0]
    /\ lastSent = [k \in Cores |-> 0]
    /\ bypass = [k \in Cores |-> 0]
    /\ airtime = 0

\* The history an edge adds: what was found, what the transmitter latched,
\* and which waiting slots saw another core served first.
Record(S) ==
    /\ found' = [k \in Cores |-> IF k \in S THEN found[k] + 1 ELSE found[k]]
    /\ sent' = [k \in Cores |-> IF Carries(k) THEN sent[k] + 1 ELSE sent[k]]
    /\ lastSent' = [k \in Cores |-> IF Carries(k) THEN Slot[k] ELSE lastSent[k]]
    /\ bypass' = [k \in Cores |->
                    IF ~Vld[k] \/ Grant(k) THEN 0
                    ELSE IF GrantValid THEN bypass[k] + 1 ELSE bypass[k]]

\* One rising edge: the cores of S raise Success, bit is txBitTime.
Edge(S, bit, newWork) ==
    /\ \A k \in S : found[k] < MaxFound
    /\ Capture(S)
    /\ AdvancePtr
    /\ Transmitter(bit)
    /\ DbgEcho(newWork)
    /\ Record(S)

Next == \E S \in SUBSET Cores, bit, newWork \in BOOLEAN : Edge(S, bit, newWork)

Spec == Init /\ [][Next]_vars

\* The clock runs and the TX divider is free-running: txBitTime keeps
\* coming whatever the receiver and the cores do.
FairSpec ==
    /\ Spec
    /\ WF_vars(\E S \in SUBSET Cores, newWork \in BOOLEAN : Edge(S, TRUE, newWork))

---------------------------------------------------------------------------
(* Properties *)

\* Every register stays in its declared range: the drop counters saturate,
\* the transmitter's counters never pass the frame.
TypeOK ==
    /\ Vld \in [Cores -> BOOLEAN]
    /\ Slot \in [Cores -> Nat]
    /\ Drop \in [Cores -> 0 .. DropMax]
    /\ RrPtr \in Cores
    /\ txState \in {"Idle", "LoadByte", "ShiftOut"}
    /\ txByteCount \in 0 .. kTxBytes
    /\ txBitCount \in 0 .. kByteBits
    /\ DbgPulse \in BOOLEAN
    /\ found \in [Cores -> Nat]
    /\ sent \in [Cores -> Nat]
    /\ lastSent \in [Cores -> Nat]
    /\ bypass \in [Cores -> Nat]
    /\ airtime \in Nat

Held(k) == IF Vld[k] THEN 1 ELSE 0

\* Nothing is lost silently: of the candidates a core raised, those that
\* neither reached the transmitter nor wait in the slot are exactly the ones
\* its drop counter shows, until the counter saturates.
Conservation ==
    \A k \in Cores :
        LET missing == found[k] - sent[k] - Held(k)
        IN  Drop[k] = IF missing < DropMax THEN missing ELSE DropMax

\* A core's frames leave in the order it found the candidates, each at most
\* once: what waits in a slot is newer than every frame already latched.
FramesInOrder ==
    \A k \in Cores :
        /\ lastSent[k] <= found[k]
        /\ Vld[k] => lastSent[k] < Slot[k] /\ Slot[k] <= found[k]

\* No core is starved by a busier neighbour: while a slot waits, every other
\* core is granted at most once before it.
BoundedBypass ==
    \A k \in Cores : Vld[k] => bypass[k] < kNumCores

\* A frame holds the transmitter for kByteBits + 1 bit times per byte, the
\* shifts and the LoadByte cell: 187 for a frame of 17 bytes, where
\* OspreyBlake2bTop.vhd and the arbiter's test bench count 170.
FrameAirtime ==
    txState = "Idle" => airtime \in {0, kTxBytes * (kByteBits + 1)}

\* Strengthenings for the proofs: where the transmitter stands in its frame,
\* and how far the round-robin walk still is from a waiting slot.
TxPhase ==
    /\ txState = "Idle" => txBitCount = 0
    /\ txState = "LoadByte" =>
          /\ txBitCount = 0
          /\ txByteCount < kTxBytes
          /\ airtime = txByteCount * (kByteBits + 1)
    /\ txState = "ShiftOut" =>
          /\ txBitCount > 0
          /\ txByteCount > 0
          /\ airtime = (txByteCount - 1) * (kByteBits + 1) + txBitCount

WalkLeft ==
    \A k \in Cores : Vld[k] => bypass[k] + Distance(RrPtr, k) < kNumCores

\* Every candidate that got a slot is eventually handed to the transmitter.
HeldIsSent ==
    \A k \in Cores : \A i \in 1 .. MaxFound :
        (Vld[k] /\ Slot[k] = i) ~> (lastSent[k] >= i)

\* What the path promises whatever order it serves the cores in: a one-place
\* channel per core whose losses are counted. An empty slot waits with 0.
Waiting == [k \in Cores |-> IF Vld[k] THEN Slot[k] ELSE 0]

Channel == INSTANCE CountedChannel
    WITH raised <- found, waiting <- Waiting, last <- lastSent, shown <- Drop

\* The arbiter and the transmitter implement the counted channel: every edge
\* delivers the candidate of at most one core to the transmitter, whole, and
\* loses one only to a slot that is full and counts it.
ImplementsChannel == Channel!Spec

====
