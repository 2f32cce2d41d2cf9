---------------------------- MODULE BootProofs ----------------------------
(***************************************************************************)
(* Proofs about the start-up of the miner, for any two item lengths the    *)
(* bitstreams may have, any number of failed gates, stalls, missed replies *)
(* and kills: the receive-phase search finds the phase, and keeps it.      *)
(***************************************************************************)
EXTENDS Boot, ArithmeticLemmas, TLAPS

USE BootConstants

Confs     == [chain : {"knots", "sia"}, pool : BOOLEAN, synthetic : BOOLEAN,
              task : Tasks, selftest : SelfTests, live : BOOLEAN]
Txs       == [kind : Kinds \cup {"pad"}, left : 0 .. KnotsLen, first : BOOLEAN]
Fpgas     == [ctr : 0 .. RxBytes - 1, whole : BOOLEAN, held : Kinds \cup {"none"},
              slots : SUBSET Kinds]
Reasons   == {"none", "submit-test passed", "submit-test failed", "no job", "no share",
              "share not accepted", "probe passed", "usage", "tested", "vectors",
              "uart_open", "loopback", "rxdump"}
Histories == [faults : 0 .. MaxFaults, crashes : 0 .. MaxCrashes, stalled : BOOLEAN,
              missed : BOOLEAN, old : BOOLEAN, why : Reasons]

---------------------------------------------------------------------------
(* The inductive invariant. *)

\* What the upload is, wherever main() is.  A pad byte is one byte.  While an
\* item started at zero is under way, the counter and the bytes left complete
\* it.
UploadInv ==
    /\ hist \in Histories
    /\ tx.left > 0 => pc \in {"probing", "dumping", "padding", "pushing"}
    /\ pc \in {"probing", "dumping"} => tx.kind = "probe"
    /\ pc = "pushing" => tx.kind = "work"
    /\ pc = "padding" => tx.kind = "pad" /\ tx.left <= 1 /\ (tx.left = 1 => tx.first)
    /\ tx.left > 0 /\ ~tx.first /\ fpga.whole =>
           fpga.ctr # 0 /\ fpga.ctr + tx.left = RxBytes
    /\ pc \in {"probe", "probing", "collect", "padding"} => conf.chain = "knots"

Booting == {"start", "tests", "open", "uart"}

\* A probe is held, waiting or read only if the counter was at zero when its
\* upload ended; between pushes the counter is back at zero.
PhaseInv ==
    /\ conf.chain = "sia" /\ pc \in Booting => fpga.ctr = 0
    /\ conf.chain = "knots" /\ ~hist.old =>
           /\ pc \in Booting \cup {"probe", "padding"} => ~ProbeAround
           /\ pc = "probing" /\ ProbeAround => tx.left = 0 /\ fpga.ctr = 0
           /\ pc = "collect" /\ (ProbeAround \/ "probe" \in rx) => fpga.ctr = 0
    /\ Fits /\ ~hist.stalled /\ ~hist.old =>
           /\ pc = "mining" => fpga.ctr = 0
           /\ pc = "pushing" => fpga.ctr + tx.left \in {0, RxBytes}

\* The counter is at zero or has not reached it in the phases tried so far.
Ahead(c) == c = 0 \/ c > phase

\* Where the counter will be when the upload ends.
Ends == IF fpga.ctr + tx.left < KnotsLen THEN fpga.ctr + tx.left
        ELSE fpga.ctr + tx.left - KnotsLen

\* In an undisturbed search every phase tried so far began off zero, and the
\* phase that begins at zero ends with the probe held.
SearchInv ==
    /\ SearchIsComplete
    /\ pc \in Booting => phase = 0
    /\ ~hist.missed /\ conf.live =>
        /\ pc = "probe" => Ahead(fpga.ctr)
        /\ pc = "probing" =>
            /\ Ahead(Ends)
            /\ Ends = 0 => \/ tx.left = KnotsLen /\ tx.first /\ fpga.ctr = 0
                           \/ tx.left > 0 /\ ~tx.first /\ fpga.whole
                           \/ tx.left = 0 /\ fpga.held = "probe"
        /\ pc = "collect" => Ahead(fpga.ctr) /\ (fpga.ctr = 0 => fpga.held = "probe")
        /\ pc = "padding" =>
            /\ tx.left = 1 => fpga.ctr > phase
            /\ tx.left = 0 => phase < LastPhase /\ (fpga.ctr = 0 \/ fpga.ctr > phase + 1)

BootInv == TypeOK /\ UploadInv /\ PhaseInv /\ SearchInv

---------------------------------------------------------------------------
(* The link, the history. *)

\* The lengths the receive counter and the sources work with.
LEMMA Lengths ==
    ASSUME conf \in Confs
    PROVE  /\ KnotsLen \in Nat /\ SiaLen \in Nat /\ SiaLen > 1 /\ SiaLen < KnotsLen
           /\ RxBytes \in Nat /\ RxBytes > 1 /\ RxBytes <= KnotsLen
           /\ conf.chain = "knots" => RxBytes = KnotsLen
           /\ conf.chain = "sia" => RxBytes = SiaLen
           /\ conf.chain \in {"knots", "sia"}
           /\ MaxFaults \in Nat /\ MaxCrashes \in Nat
  BY DEF RxBytes, Confs

\* The receive counter goes up by one and wraps at the item length.
LEMMA WrapValue ==
    ASSUME conf \in Confs, NEW c \in 0 .. RxBytes - 1
    PROVE  Wrap(c) = IF c = RxBytes - 1 THEN 0 ELSE c + 1
<1>1. RxBytes \in Nat \ {0}
  BY Lengths
<1> QED
  BY <1>1, WrapStep DEF Wrap

\* What the two ways out of main() and a disturbance do to the history.
LEMMA HistoryOps ==
    ASSUME hist \in Histories
    PROVE  /\ \A w \in Reasons :
                LET h == [hist EXCEPT !.why = w]
                IN  /\ h \in Histories /\ h.why = w
                    /\ h.old = hist.old /\ h.stalled = hist.stalled /\ h.missed = hist.missed
           /\ MayFail =>
                LET h == Disturbed(hist)
                IN  /\ h \in Histories /\ h.why = hist.why /\ h.missed = TRUE
                    /\ h.old = hist.old /\ h.stalled = hist.stalled
           /\ MayFail => \A w \in Reasons :
                LET h == [Disturbed(hist) EXCEPT !.why = w]
                IN  /\ h \in Histories /\ h.why = w /\ h.missed = TRUE
                    /\ h.old = hist.old /\ h.stalled = hist.stalled
<1>1. \A w \in Reasons :
          LET h == [hist EXCEPT !.why = w]
          IN  /\ h \in Histories /\ h.why = w
              /\ h.old = hist.old /\ h.stalled = hist.stalled /\ h.missed = hist.missed
  BY DEF Histories
<1>2. ASSUME MayFail
      PROVE  LET h == Disturbed(hist)
             IN  /\ h \in Histories /\ h.why = hist.why /\ h.missed = TRUE
                 /\ h.old = hist.old /\ h.stalled = hist.stalled
  <2>1. hist.faults + 1 \in 0 .. MaxFaults
    BY <1>2 DEF MayFail, Histories
  <2> QED
    BY <2>1 DEF Disturbed, Histories
<1>3. ASSUME MayFail, NEW w \in Reasons
      PROVE  LET h == [Disturbed(hist) EXCEPT !.why = w]
             IN  /\ h \in Histories /\ h.why = w /\ h.missed = TRUE
                 /\ h.old = hist.old /\ h.stalled = hist.stalled
  <2> DEFINE d == Disturbed(hist)
  <2>1. /\ d \in Histories /\ d.missed = TRUE
        /\ d.old = hist.old /\ d.stalled = hist.stalled
    BY <1>2, <1>3
  <2> HIDE DEF d
  <2>2. LET h == [d EXCEPT !.why = w]
        IN  /\ h \in Histories /\ h.why = w /\ h.missed = TRUE
            /\ h.old = hist.old /\ h.stalled = hist.stalled
    BY <2>1 DEF Histories
  <2> QED
    BY <2>2 DEF d
<1> QED
  BY <1>1, <1>2, <1>3

\* A step that leaves the history alone, or adds no "loopback" to it and
\* forgets no disturbance.
Recorded ==
    /\ hist' \in Histories
    /\ hist'.old = hist.old /\ hist'.stalled = hist.stalled
    /\ hist.missed => hist'.missed
    /\ hist'.why = hist.why \/ hist'.why # "loopback"

\* A step that leaves the history alone.
LEMMA RecordedSame ==
    ASSUME hist \in Histories, UNCHANGED hist
    PROVE  Recorded
  BY DEF Recorded

\* An exit for any reason but a failed search.
LEMMA RecordedExit ==
    ASSUME hist \in Histories, NEW w \in Reasons, w # "loopback"
    PROVE  /\ Exit(w) => Recorded /\ pc' = "exit"
           /\ ExitFault(w) => Recorded /\ pc' = "exit"
<1>1. ASSUME Exit(w)
      PROVE  Recorded /\ pc' = "exit"
  <2>1. hist' = [hist EXCEPT !.why = w] /\ pc' = "exit"
    BY <1>1 DEF Exit
  <2> QED
    BY <2>1, HistoryOps DEF Recorded
<1>2. ASSUME ExitFault(w)
      PROVE  Recorded /\ pc' = "exit"
  <2>1. MayFail /\ hist' = [Disturbed(hist) EXCEPT !.why = w] /\ pc' = "exit"
    BY <1>2 DEF ExitFault
  <2>2. /\ hist' \in Histories /\ hist'.why = w /\ hist'.missed = TRUE
        /\ hist'.old = hist.old /\ hist'.stalled = hist.stalled
    BY <2>1, HistoryOps, Zenon
  <2> QED
    BY <2>1, <2>2 DEF Recorded
<1> QED
  BY <1>1, <1>2

---------------------------------------------------------------------------
(* The gates of main() up to the UART. *)

\* What a gate may do: go on booting or exit, the link untouched.
GateStep ==
    /\ UNCHANGED <<conf, phase, tx, fpga, rx>>
    /\ pc \in Booting /\ pc' \in Booting \cup {"exit"}
    /\ src' \in {"none", "gbt", "synthetic", "stratum", "sia"}
    /\ passed' \subseteq SelfTests
    /\ Recorded

Gates == SelectSource \/ SubmitTest \/ StratumProbe \/ PureTest \/ Vectors \/ SkipVectors
         \/ OpenUart

\* Every gate is such a step.
LEMMA GatesAreGateSteps ==
    ASSUME TypeOK, UploadInv, Gates
    PROVE  GateStep
<1>1. hist \in Histories
  BY DEF UploadInv
<1>2. CASE SelectSource
  BY <1>1, <1>2, RecordedSame DEF SelectSource, TypeOK, GateStep, Booting
<1>3. CASE SubmitTest
  BY <1>1, <1>3, RecordedExit DEF Reasons, SubmitTest, TypeOK, GateStep, Booting
<1>4. CASE StratumProbe
  BY <1>1, <1>4, RecordedExit DEF Reasons, StratumProbe, TypeOK, GateStep, Booting
<1>5. CASE PureTest
  <2>1. Recorded /\ pc' = "exit"
    BY <1>1, <1>5, RecordedExit DEF PureTest, Reasons
  <2>2. passed' \subseteq SelfTests
    BY <1>5 DEF PureTest, TypeOK
  <2> QED
    BY <1>5, <2>1, <2>2 DEF PureTest, TypeOK, GateStep, Booting
<1>6. CASE Vectors
  <2>1. /\ UNCHANGED <<conf, src, phase, tx, fpga, rx>>
        /\ pc = "tests"
        /\ passed' \in {{}, {"vectors"}, {"vectors", "block"}}
        /\ \/ Exit("tested") \/ ExitFault("vectors")
           \/ pc' = "open" /\ UNCHANGED hist
    BY <1>6 DEF Vectors
  <2>2. Recorded /\ pc' \in {"open", "exit"}
    BY <1>1, <2>1, RecordedExit, RecordedSame DEF Reasons
  <2>3. passed' \subseteq SelfTests
    BY <2>1 DEF SelfTests
  <2> QED
    BY <2>1, <2>2, <2>3 DEF TypeOK, GateStep, Booting
<1>7. CASE SkipVectors
  BY <1>1, <1>7, RecordedSame DEF SkipVectors, TypeOK, GateStep, Booting
<1>8. CASE OpenUart
  <2>1. Recorded /\ pc' \in {"uart", "exit"}
    BY <1>1, <1>8, RecordedExit, RecordedSame DEF OpenUart, Reasons
  <2> QED
    BY <1>8, <2>1 DEF OpenUart, TypeOK, GateStep, Booting
<1> QED
  BY <1>2, <1>3, <1>4, <1>5, <1>6, <1>7, <1>8 DEF Gates

\* A gate keeps the invariant.
LEMMA GateInv ==
    ASSUME BootInv, GateStep
    PROVE  BootInv'
<1>1. TypeOK'
  BY DEF BootInv, TypeOK, UploadInv, GateStep, Recorded, Histories, Booting, RxBytes
<1>2. UploadInv'
  BY DEF BootInv, UploadInv, GateStep, Recorded, Booting, RxBytes
<1>3. PhaseInv'
  BY DEF BootInv, PhaseInv, GateStep, Recorded, Booting, ProbeAround
<1>4. SearchInv'
  BY DEF BootInv, SearchInv, SearchIsComplete, GateStep, Recorded, Booting
<1> QED
  BY <1>1, <1>2, <1>3, <1>4 DEF BootInv

\* From the UART's test to the search, to the mining loop or to the dump.
LEMMA SelftestUartInv ==
    ASSUME BootInv, SelftestUart
    PROVE  BootInv'
<1>1. hist \in Histories /\ conf \in Confs
  BY DEF BootInv, UploadInv, TypeOK, Confs
<1>2. /\ UNCHANGED <<conf, src, phase, tx, fpga, rx>>
      /\ pc = "uart"
      /\ \/ Exit("tested")
         \/ pc' = "rxdump" /\ UNCHANGED hist
         \/ pc' = (IF conf.chain = "sia" THEN "mining" ELSE "probe") /\ UNCHANGED hist
  BY DEF SelftestUart
<1>3. Recorded
  BY <1>1, <1>2, RecordedExit, RecordedSame DEF Reasons
<1>4. pc' \in {"exit", "rxdump", IF conf.chain = "sia" THEN "mining" ELSE "probe"}
  BY <1>2 DEF Exit
<1>5. passed' \subseteq SelfTests
  BY DEF SelftestUart, BootInv, TypeOK, SelfTests
<1>6. TypeOK'
  BY <1>2, <1>3, <1>4, <1>5 DEF BootInv, TypeOK, Recorded, Histories, RxBytes
<1>7. UploadInv'
  BY <1>1, <1>2, <1>3, <1>4 DEF BootInv, UploadInv, Recorded, RxBytes, Confs
<1>8. PhaseInv'
  BY <1>2, <1>3, <1>4 DEF BootInv, PhaseInv, Recorded, Booting, ProbeAround
<1>9. SearchInv'
  <2>1. phase = 0 /\ fpga.ctr \in Nat
    BY <1>1, <1>2, Lengths DEF BootInv, SearchInv, Booting, TypeOK
  <2>2. SearchIsComplete'
    BY <1>2, <1>3 DEF BootInv, SearchInv, SearchIsComplete, Recorded
  <2> QED
    BY <1>2, <1>4, <2>1, <2>2 DEF SearchInv, Booting, Ahead
<1> QED
  BY <1>6, <1>7, <1>8, <1>9 DEF BootInv

---------------------------------------------------------------------------
(* Bytes on the link. *)

\* What a byte does to the receiver, field by field.
LEMMA SendByteFields ==
    ASSUME BootInv, SendByte
    PROVE  /\ UNCHANGED <<conf, src, pc, passed, phase, rx, hist>>
           /\ tx.left > 0 /\ tx' \in Txs
           /\ tx'.kind = tx.kind /\ tx'.left = tx.left - 1 /\ tx'.first = FALSE
           /\ fpga'.ctr = IF fpga.ctr = RxBytes - 1 THEN 0 ELSE fpga.ctr + 1
           /\ fpga'.ctr \in 0 .. RxBytes - 1
           /\ fpga'.slots = fpga.slots
           /\ fpga'.whole = (IF fpga.ctr = 0 THEN tx.first /\ tx.left = RxBytes
                             ELSE fpga.whole /\ ~tx.first)
           /\ fpga'.held = IF fpga'.ctr # 0 THEN fpga.held
                           ELSE IF fpga'.whole THEN tx.kind ELSE "garbage"
           /\ fpga'.held \in Kinds \cup {"none"} => fpga' \in Fpgas
<1> DEFINE whole == IF fpga.ctr = 0 THEN tx.first /\ tx.left = RxBytes
                    ELSE fpga.whole /\ ~tx.first
           ctr   == Wrap(fpga.ctr)
           held  == IF ctr # 0 THEN fpga.held ELSE IF whole THEN tx.kind ELSE "garbage"
<1>1. conf \in Confs /\ fpga \in Fpgas /\ tx \in Txs
  BY DEF BootInv, TypeOK, Confs, Fpgas, Txs
<1>2. fpga.ctr \in 0 .. RxBytes - 1
  BY <1>1 DEF Fpgas
<1>3. ctr = IF fpga.ctr = RxBytes - 1 THEN 0 ELSE fpga.ctr + 1
  BY <1>1, <1>2, WrapValue
<1>4. ctr \in 0 .. RxBytes - 1
  BY <1>1, <1>2, <1>3, Lengths
<1>5. /\ UNCHANGED <<conf, src, pc, passed, phase, rx, hist>>
      /\ tx.left > 0
      /\ tx' = [tx EXCEPT !.left = tx.left - 1, !.first = FALSE]
      /\ fpga' = [fpga EXCEPT !.ctr = ctr, !.whole = whole, !.held = held]
  BY DEF SendByte
<1>6. /\ tx' \in Txs
      /\ tx'.kind = tx.kind /\ tx'.left = tx.left - 1 /\ tx'.first = FALSE
  <2>1. tx.left - 1 \in 0 .. KnotsLen
    BY <1>1, <1>5, Lengths DEF Txs
  <2>2. \A n \in 0 .. KnotsLen :
            LET t == [tx EXCEPT !.left = n, !.first = FALSE]
            IN  t \in Txs /\ t.kind = tx.kind /\ t.left = n /\ t.first = FALSE
    BY <1>1 DEF Txs
  <2> QED
    BY <1>5, <2>1, <2>2
<1> HIDE DEF ctr, whole, held
<1>7. /\ fpga'.ctr = ctr /\ fpga'.slots = fpga.slots
      /\ fpga'.whole = whole /\ fpga'.held = held
  BY <1>1, <1>5 DEF Fpgas
<1>8. fpga'.held \in Kinds \cup {"none"} => fpga' \in Fpgas
  <2>1. whole \in BOOLEAN
    BY <1>1, Zenon DEF whole, Fpgas, Txs
  <2> QED
    BY <1>1, <1>4, <1>5, <1>7, <2>1 DEF Fpgas
<1>9. fpga'.whole = (IF fpga.ctr = 0 THEN tx.first /\ tx.left = RxBytes
                     ELSE fpga.whole /\ ~tx.first)
  BY <1>7, Zenon DEF whole
<1>10. fpga'.held = IF fpga'.ctr # 0 THEN fpga.held
                    ELSE IF fpga'.whole THEN tx.kind ELSE "garbage"
  BY <1>7, Zenon DEF held
<1> QED
  BY <1>3, <1>4, <1>5, <1>6, <1>7, <1>8, <1>9, <1>10

\* An item is latched whole only by the last byte of an upload that began
\* with the counter at zero.
LEMMA LatchedWhole ==
    ASSUME BootInv, SendByte, fpga'.whole, fpga'.ctr = 0
    PROVE  fpga.whole /\ ~tx.first /\ fpga.ctr = RxBytes - 1 /\ tx.left = 1
<1>1. conf \in Confs /\ fpga.ctr \in 0 .. RxBytes - 1 /\ tx.left \in Nat
  BY Lengths DEF BootInv, TypeOK, Confs
<1>2. fpga.ctr = RxBytes - 1 /\ fpga.ctr # 0
  BY <1>1, SendByteFields, Lengths
<1>3. fpga.whole /\ ~tx.first /\ tx.left > 0
  BY <1>2, SendByteFields
<1>4. fpga.ctr + tx.left = RxBytes
  BY <1>3 DEF BootInv, UploadInv
<1> QED
  BY <1>1, <1>2, <1>3, <1>4, Lengths

\* A byte keeps the invariant.
LEMMA SendByteInv ==
    ASSUME BootInv, SendByte
    PROVE  BootInv'
<1>1. /\ conf \in Confs /\ fpga \in Fpgas /\ tx \in Txs /\ phase \in 0 .. KnotsLen - 1
      /\ hist \in Histories
  BY DEF BootInv, TypeOK, UploadInv, Confs, Fpgas, Txs
<1>2. /\ UNCHANGED <<conf, src, pc, passed, phase, rx, hist>>
      /\ tx.left > 0 /\ tx' \in Txs
      /\ tx'.kind = tx.kind /\ tx'.left = tx.left - 1 /\ tx'.first = FALSE
      /\ fpga'.ctr = IF fpga.ctr = RxBytes - 1 THEN 0 ELSE fpga.ctr + 1
      /\ fpga'.ctr \in 0 .. RxBytes - 1
      /\ fpga'.slots = fpga.slots
      /\ fpga'.held = IF fpga'.ctr # 0 THEN fpga.held
                      ELSE IF fpga'.whole THEN tx.kind ELSE "garbage"
      /\ fpga'.held \in Kinds \cup {"none"} => fpga' \in Fpgas
  BY SendByteFields
<1>3. fpga'.whole = (IF fpga.ctr = 0 THEN tx.first /\ tx.left = RxBytes
                     ELSE fpga.whole /\ ~tx.first)
  BY SendByteFields
<1>4. RxBytes' = RxBytes /\ Fits' = Fits
  BY <1>2 DEF RxBytes, Fits, ItemLen
<1>5. fpga.ctr \in 0 .. RxBytes - 1 /\ tx.left \in 0 .. KnotsLen /\ fpga.held \in Kinds \cup {"none"}
  BY <1>1 DEF Fpgas, Txs
<1>6. pc \in {"probing", "dumping", "padding", "pushing"}
  BY <1>2 DEF BootInv, UploadInv
<1>7. pc = "padding" => tx.kind = "pad" /\ tx.left = 1 /\ tx.first
  BY <1>2, <1>5 DEF BootInv, UploadInv
<1>8. fpga'.whole /\ fpga'.ctr = 0 => fpga.whole /\ ~tx.first /\ fpga.ctr = RxBytes - 1 /\ tx.left = 1
  BY LatchedWhole
<1>9. fpga'.held \in Kinds \cup {"none"}
  <2>1. pc # "padding" => tx.kind \in {"probe", "work"}
    BY <1>6 DEF BootInv, UploadInv
  <2>2. pc = "padding" => ~(fpga'.whole /\ fpga'.ctr = 0)
    BY <1>7, <1>8
  <2> QED
    BY <1>2, <1>5, <2>1, <2>2 DEF Kinds
<1>10. TypeOK'
  BY <1>2, <1>4, <1>9 DEF BootInv, TypeOK, Fpgas, Txs
<1>11. UploadInv'
  <2>1. fpga'.whole /\ tx'.left > 0 => fpga'.ctr # 0 /\ fpga'.ctr + tx'.left = RxBytes
    <3> SUFFICES ASSUME fpga'.whole, tx'.left > 0
                 PROVE  fpga'.ctr # 0 /\ fpga'.ctr + tx'.left = RxBytes
      OBVIOUS
    <3>1. CASE fpga.ctr = 0
      <4>1. tx.left = RxBytes
        BY <1>3, <3>1
      <4> QED
        BY <1>1, <1>2, <1>5, <3>1, <4>1, Lengths
    <3>2. CASE fpga.ctr # 0
      <4>1. fpga.whole /\ ~tx.first
        BY <1>3, <3>2
      <4>2. fpga.ctr + tx.left = RxBytes
        BY <1>2, <4>1 DEF BootInv, UploadInv
      <4> QED
        BY <1>1, <1>2, <1>5, <4>2, Lengths
    <3> QED
      BY <3>1, <3>2
  <2> QED
    BY <1>1, <1>2, <1>4, <1>5, <1>6, <1>7, <2>1 DEF BootInv, UploadInv
<1>12. PhaseInv'
  <2>1. CASE pc = "probing"
    <3>1. conf.chain = "knots" /\ tx.kind = "probe"
      BY <2>1 DEF BootInv, UploadInv
    <3>2. ASSUME ~hist.old
          PROVE  ProbeAround' => tx'.left = 0 /\ fpga'.ctr = 0
      <4>1. ~ProbeAround
        BY <1>2, <2>1, <3>1, <3>2 DEF BootInv, PhaseInv
      <4>2. fpga'.held = "probe" => fpga'.whole /\ fpga'.ctr = 0
        BY <1>2, <4>1 DEF ProbeAround
      <4>3. ProbeAround' => fpga'.held = "probe"
        BY <1>2, <4>1 DEF ProbeAround
      <4> QED
        BY <1>2, <1>5, <1>8, <4>2, <4>3
    <3> QED
      BY <1>2, <2>1, <3>1, <3>2 DEF PhaseInv, Booting
  <2>2. CASE pc = "dumping"
    BY <1>2, <2>2 DEF PhaseInv, Booting
  <2>3. CASE pc = "padding"
    <3>1. conf.chain = "knots"
      BY <2>3 DEF BootInv, UploadInv
    <3>2. ASSUME ~hist.old
          PROVE  ~ProbeAround'
      <4>1. ~ProbeAround
        BY <2>3, <3>1, <3>2 DEF BootInv, PhaseInv
      <4>2. fpga'.held \in {fpga.held, "garbage"}
        BY <1>2, <1>7, <1>8, <2>3
      <4> QED
        BY <1>2, <4>1, <4>2 DEF ProbeAround
    <3> QED
      BY <1>2, <2>3, <3>1, <3>2 DEF PhaseInv, Booting
  <2>4. CASE pc = "pushing"
    <3>1. ASSUME Fits, ~hist.stalled, ~hist.old
          PROVE  fpga'.ctr + tx'.left \in {0, RxBytes}
      <4>1. fpga.ctr + tx.left \in {0, RxBytes}
        BY <2>4, <3>1 DEF BootInv, PhaseInv
      <4> QED
        BY <1>1, <1>2, <1>5, <4>1, Lengths
    <3> QED
      BY <1>2, <1>4, <2>4, <3>1 DEF PhaseInv, Booting
  <2> QED
    BY <1>6, <2>1, <2>2, <2>3, <2>4
<1>13. SearchInv'
  <2>1. SearchIsComplete'
    BY <1>2 DEF BootInv, SearchInv, SearchIsComplete
  <2>2. CASE pc = "probing" /\ ~hist.missed /\ conf.live
    <3>1. conf.chain = "knots" /\ tx.kind = "probe" /\ RxBytes = KnotsLen
      BY <1>1, <2>2, Lengths DEF BootInv, UploadInv
    <3>2. Ends' = Ends
      BY <1>1, <1>2, <1>5, <3>1, Lengths DEF Ends
    <3>3. /\ Ahead(Ends)
          /\ Ends = 0 => \/ tx.left = KnotsLen /\ tx.first /\ fpga.ctr = 0
                         \/ tx.left > 0 /\ ~tx.first /\ fpga.whole
                         \/ tx.left = 0 /\ fpga.held = "probe"
      BY <2>2 DEF BootInv, SearchInv
    <3>4. ASSUME Ends = 0
          PROVE  \/ tx'.left > 0 /\ fpga'.whole
                 \/ tx'.left = 0 /\ fpga'.held = "probe"
      <4>1. CASE tx.left = KnotsLen /\ tx.first /\ fpga.ctr = 0
        <5>1. fpga'.whole
          BY <1>3, <3>1, <4>1
        <5>2. tx'.left > 0
          BY <1>1, <1>2, <4>1, Lengths
        <5> QED
          BY <5>1, <5>2
      <4>2. CASE ~tx.first /\ fpga.whole
        <5>1. fpga.ctr # 0 /\ fpga.ctr + tx.left = RxBytes
          BY <1>2, <4>2 DEF BootInv, UploadInv
        <5>2. fpga'.whole
          BY <1>3, <4>2, <5>1
        <5>3. tx'.left = 0 => fpga'.ctr = 0
          BY <1>1, <1>2, <1>5, <5>1, Lengths
        <5> QED
          BY <1>1, <1>2, <1>5, <3>1, <5>2, <5>3, Lengths
      <4> QED
        BY <1>2, <3>3, <3>4, <4>1, <4>2
    <3>5. Ahead(Ends)'
      BY <1>2, <3>2, <3>3 DEF Ahead
    <3>6. Ends' = 0 => \/ tx'.left > 0 /\ ~tx'.first /\ fpga'.whole
                       \/ tx'.left = 0 /\ fpga'.held = "probe"
      BY <1>2, <3>2, <3>4
    <3> QED
      BY <1>2, <2>1, <2>2, <3>5, <3>6 DEF SearchInv, Booting
  <2>3. CASE pc = "padding" /\ ~hist.missed /\ conf.live
    <3>1. RxBytes = KnotsLen /\ fpga.ctr > phase
      BY <1>1, <1>7, <2>3, Lengths DEF BootInv, UploadInv, SearchInv
    <3>2. phase < LastPhase /\ (fpga'.ctr = 0 \/ fpga'.ctr > phase + 1)
      BY <1>1, <1>2, <1>5, <3>1, Lengths DEF LastPhase
    <3> QED
      BY <1>2, <1>7, <2>1, <2>3, <3>2 DEF SearchInv, Booting, LastPhase
  <2>4. CASE pc \in {"dumping", "pushing"} \/ hist.missed \/ ~conf.live
    BY <1>2, <1>6, <2>1, <2>4 DEF SearchInv, Booting
  <2> QED
    BY <1>6, <2>2, <2>3, <2>4
<1> QED
  BY <1>10, <1>11, <1>12, <1>13 DEF BootInv

\* A stalled upload keeps the invariant: the search and the dump give up, a
\* pad byte and a push go on and are remembered.
LEMMA StallInv ==
    ASSUME BootInv, Stall
    PROVE  BootInv'
<1>1. hist \in Histories /\ tx \in Txs /\ conf \in Confs
  BY DEF BootInv, UploadInv, TypeOK, Txs, Confs
<1>2. /\ tx.left > 0 /\ MayFail
      /\ UNCHANGED <<conf, src, passed, phase, fpga, rx>>
      /\ tx' = [tx EXCEPT !.left = 0]
  BY DEF Stall
<1>3. pc \in {"probing", "dumping", "padding", "pushing"}
  BY <1>2 DEF BootInv, UploadInv
<1>4. tx' \in Txs /\ tx'.kind = tx.kind /\ tx'.left = 0 /\ tx'.first = tx.first
  BY <1>1, <1>2, Lengths DEF Txs
<1>5. /\ pc \in {"probing", "dumping"} => pc' = "exit"
      /\ pc = "padding" => pc' = "padding"
      /\ pc = "pushing" => pc' = "mining"
  BY <1>3 DEF Stall, ExitFault
<1>6. /\ hist' \in Histories /\ hist'.missed = TRUE /\ hist'.old = hist.old
      /\ pc = "pushing" => hist'.stalled = TRUE
  <2>1. CASE pc = "probing"
    <3>1. hist' = [Disturbed(hist) EXCEPT !.why = "loopback"] /\ "loopback" \in Reasons
      BY <2>1 DEF Stall, ExitFault, Reasons
    <3> QED
      BY <1>1, <1>2, <2>1, <3>1, HistoryOps
  <2>2. CASE pc = "dumping"
    <3>1. hist' = [Disturbed(hist) EXCEPT !.why = "rxdump"] /\ "rxdump" \in Reasons
      BY <2>2 DEF Stall, ExitFault, Reasons
    <3> QED
      BY <1>1, <1>2, <2>2, <3>1, HistoryOps
  <2>3. CASE pc = "padding"
    <3>1. hist' = Disturbed(hist)
      BY <2>3 DEF Stall
    <3> QED
      BY <1>1, <1>2, <2>3, <3>1, HistoryOps
  <2>4. CASE pc = "pushing"
    <3> DEFINE d == Disturbed(hist)
    <3>1. hist' = [d EXCEPT !.stalled = TRUE]
      BY <2>4 DEF Stall
    <3>2. d \in Histories /\ d.missed = TRUE /\ d.old = hist.old
      BY <1>1, <1>2, HistoryOps
    <3> HIDE DEF d
    <3> QED
      BY <3>1, <3>2 DEF Histories
  <2> QED
    BY <1>3, <2>1, <2>2, <2>3, <2>4
<1>7. TypeOK'
  BY <1>2, <1>3, <1>4, <1>5, <1>6 DEF BootInv, TypeOK, Txs, Histories, RxBytes
<1>8. UploadInv'
  BY <1>2, <1>3, <1>4, <1>5, <1>6 DEF BootInv, UploadInv
<1>9. PhaseInv'
  BY <1>2, <1>3, <1>5, <1>6 DEF BootInv, PhaseInv, Booting, ProbeAround
<1>10. SearchInv'
  BY <1>2, <1>3, <1>5, <1>6 DEF SearchInv, SearchIsComplete, Booting
<1> QED
  BY <1>7, <1>8, <1>9, <1>10 DEF BootInv

\* The start of an upload.
LEMMA UploadTyped ==
    ASSUME NEW kind \in Kinds \cup {"pad"}, NEW n \in 0 .. KnotsLen, Upload(kind, n)
    PROVE  tx' \in Txs /\ tx'.kind = kind /\ tx'.left = n /\ tx'.first = TRUE
  BY DEF Upload, Txs

---------------------------------------------------------------------------
(* The dump and the mining loop's pushes. *)

\* The dump's upload touches neither the search nor the mining loop.
LEMMA RxdumpInv ==
    ASSUME BootInv, Rxdump
    PROVE  BootInv'
<1>1. /\ pc = "rxdump" /\ pc' = "dumping"
      /\ UNCHANGED <<conf, src, passed, phase, fpga, rx, hist>>
  BY DEF Rxdump
<1>2. tx' \in Txs /\ tx'.kind = "probe" /\ tx'.left = KnotsLen /\ tx'.first = TRUE
  <2>1. "probe" \in Kinds \cup {"pad"} /\ KnotsLen \in 0 .. KnotsLen
    BY DEF Kinds
  <2> QED
    BY <2>1, UploadTyped DEF Rxdump
<1>3. TypeOK'
  BY <1>1, <1>2 DEF BootInv, TypeOK, Txs, RxBytes
<1>4. UploadInv'
  BY <1>1, <1>2 DEF BootInv, UploadInv
<1>5. PhaseInv' /\ SearchInv'
  BY <1>1 DEF BootInv, PhaseInv, SearchInv, SearchIsComplete, Booting
<1> QED
  BY <1>3, <1>4, <1>5 DEF BootInv

\* The end of the dump leaves main().
LEMMA RxdumpDoneInv ==
    ASSUME BootInv, RxdumpDone
    PROVE  BootInv'
<1>1. /\ pc = "dumping" /\ tx.left = 0
      /\ UNCHANGED <<conf, src, passed, phase, tx, fpga, rx>>
      /\ hist \in Histories
  BY DEF RxdumpDone, BootInv, UploadInv
<1>2. Recorded /\ pc' = "exit"
  BY <1>1, RecordedExit DEF RxdumpDone, Reasons
<1>3. TypeOK'
  BY <1>1, <1>2 DEF BootInv, TypeOK, Recorded, Histories, RxBytes
<1>4. UploadInv'
  BY <1>1, <1>2 DEF BootInv, UploadInv, Recorded
<1>5. PhaseInv' /\ SearchInv'
  BY <1>1, <1>2 DEF BootInv, PhaseInv, SearchInv, SearchIsComplete, Recorded, Booting
<1> QED
  BY <1>3, <1>4, <1>5 DEF BootInv

\* A push of a source whose items fit starts at zero.
LEMMA PushInv ==
    ASSUME BootInv, Push
    PROVE  BootInv'
<1>1. /\ pc = "mining" /\ pc' = "pushing"
      /\ UNCHANGED <<conf, src, passed, phase, fpga, rx, hist>>
      /\ conf \in Confs
  BY DEF Push, BootInv, TypeOK, Confs
<1>2. tx' \in Txs /\ tx'.kind = "work" /\ tx'.left = ItemLen(src) /\ tx'.first = TRUE
  <2>1. "work" \in Kinds \cup {"pad"} /\ ItemLen(src) \in 0 .. KnotsLen
    BY <1>1, Lengths DEF Kinds, ItemLen
  <2> QED
    BY <2>1, UploadTyped DEF Push
<1>3. TypeOK'
  BY <1>1, <1>2 DEF BootInv, TypeOK, Txs, RxBytes
<1>4. UploadInv'
  BY <1>1, <1>2 DEF BootInv, UploadInv
<1>5. PhaseInv'
  <2>1. RxBytes' = RxBytes /\ Fits' = Fits /\ ItemLen(src) \in Nat
    BY <1>1, Lengths DEF RxBytes, Fits, ItemLen
  <2>2. ASSUME Fits, ~hist.stalled, ~hist.old
        PROVE  fpga'.ctr + tx'.left = RxBytes
    <3>1. fpga.ctr = 0
      BY <1>1, <2>2 DEF BootInv, PhaseInv
    <3> QED
      BY <1>1, <1>2, <2>1, <2>2, <3>1 DEF Fits
  <2> QED
    BY <1>1, <2>1, <2>2 DEF PhaseInv, Booting
<1>6. SearchInv'
  BY <1>1 DEF BootInv, SearchInv, SearchIsComplete, Booting
<1> QED
  BY <1>3, <1>4, <1>5, <1>6 DEF BootInv

\* A push that was not cut ends at zero.
LEMMA PushDoneInv ==
    ASSUME BootInv, PushDone
    PROVE  BootInv'
<1>1. /\ pc = "pushing" /\ pc' = "mining" /\ tx.left = 0
      /\ UNCHANGED <<conf, src, passed, phase, tx, fpga, rx, hist>>
      /\ conf \in Confs /\ fpga.ctr \in 0 .. RxBytes - 1
  BY DEF PushDone, BootInv, TypeOK, Confs
<1>2. TypeOK'
  BY <1>1 DEF BootInv, TypeOK, RxBytes
<1>3. UploadInv'
  BY <1>1 DEF BootInv, UploadInv
<1>4. PhaseInv'
  <2>1. Fits' = Fits
    BY <1>1 DEF RxBytes, Fits, ItemLen
  <2>2. ASSUME Fits, ~hist.stalled, ~hist.old
        PROVE  fpga.ctr = 0
    <3>1. fpga.ctr + tx.left \in {0, RxBytes}
      BY <1>1, <2>2 DEF BootInv, PhaseInv
    <3> QED
      BY <1>1, <3>1, Lengths
  <2> QED
    BY <1>1, <2>1, <2>2 DEF PhaseInv, Booting
<1>5. SearchInv'
  BY <1>1 DEF BootInv, SearchInv, SearchIsComplete, Booting
<1> QED
  BY <1>2, <1>3, <1>4, <1>5 DEF BootInv

---------------------------------------------------------------------------
(* selftest_loopback(). *)

\* A phase begins with the probe's first byte still to be sent.
LEMMA LoopbackUploadInv ==
    ASSUME BootInv, LoopbackUpload
    PROVE  BootInv'
<1>1. /\ pc = "probe" /\ pc' = "probing"
      /\ UNCHANGED <<conf, src, passed, phase, fpga, rx, hist>>
      /\ conf \in Confs /\ fpga.ctr \in 0 .. RxBytes - 1
  BY DEF LoopbackUpload, BootInv, TypeOK, Confs
<1>2. tx' \in Txs /\ tx'.kind = "probe" /\ tx'.left = KnotsLen /\ tx'.first = TRUE
  <2>1. "probe" \in Kinds \cup {"pad"} /\ KnotsLen \in 0 .. KnotsLen
    BY DEF Kinds
  <2> QED
    BY <2>1, UploadTyped DEF LoopbackUpload
<1>3. conf.chain = "knots" /\ RxBytes = KnotsLen
  BY <1>1, Lengths DEF BootInv, UploadInv
<1>4. TypeOK'
  BY <1>1, <1>2 DEF BootInv, TypeOK, Txs, RxBytes
<1>5. UploadInv'
  BY <1>1, <1>2, <1>3 DEF BootInv, UploadInv
<1>6. PhaseInv'
  BY <1>1, <1>3 DEF BootInv, PhaseInv, ProbeAround, Booting
<1>7. SearchInv'
  <2>1. Ends' = fpga.ctr
    BY <1>1, <1>2, <1>3, Lengths DEF Ends
  <2>2. ~hist.missed /\ conf.live => Ahead(fpga.ctr)
    BY <1>1 DEF BootInv, SearchInv
  <2>3. ~hist.missed /\ conf.live => Ahead(Ends)'
    BY <1>1, <2>1, <2>2 DEF Ahead
  <2>4. Ends' = 0 => tx'.left = KnotsLen /\ tx'.first /\ fpga'.ctr = 0
    BY <1>1, <1>2, <2>1
  <2> QED
    BY <1>1, <2>3, <2>4 DEF BootInv, SearchInv, SearchIsComplete, Booting
<1> QED
  BY <1>4, <1>5, <1>6, <1>7 DEF BootInv

\* The upload has drained.
LEMMA LoopbackCollectInv ==
    ASSUME BootInv, LoopbackCollect
    PROVE  BootInv'
<1>1. /\ pc = "probing" /\ pc' = "collect" /\ tx.left = 0 /\ rx' = {}
      /\ UNCHANGED <<conf, src, passed, phase, tx, fpga, hist>>
      /\ conf \in Confs /\ fpga.ctr \in 0 .. RxBytes - 1
  BY DEF LoopbackCollect, BootInv, TypeOK, Confs
<1>2. conf.chain = "knots" /\ RxBytes = KnotsLen
  BY <1>1, Lengths DEF BootInv, UploadInv
<1>3. TypeOK'
  BY <1>1 DEF BootInv, TypeOK, RxBytes
<1>4. UploadInv'
  BY <1>1, <1>2 DEF BootInv, UploadInv
<1>5. PhaseInv'
  BY <1>1, <1>2 DEF BootInv, PhaseInv, ProbeAround, Booting
<1>6. SearchInv'
  <2>1. Ends = fpga.ctr
    BY <1>1, <1>2, Lengths DEF Ends
  <2>2. ~hist.missed /\ conf.live =>
            Ahead(fpga.ctr) /\ (fpga.ctr = 0 => fpga.held = "probe")
    BY <1>1, <2>1 DEF BootInv, SearchInv
  <2> QED
    BY <1>1, <2>2 DEF BootInv, SearchInv, SearchIsComplete, Booting, Ahead
<1> QED
  BY <1>3, <1>4, <1>5, <1>6 DEF BootInv

\* A reproduced probe, in a search that met no old one, means phase zero.
LEMMA LoopbackPassInv ==
    ASSUME BootInv, LoopbackPass
    PROVE  BootInv'
<1>1. /\ pc = "collect" /\ "probe" \in rx
      /\ UNCHANGED <<conf, src, phase, tx, fpga, rx>>
      /\ passed' \subseteq SelfTests
      /\ Exit("tested") \/ (pc' = "mining" /\ UNCHANGED hist)
      /\ hist \in Histories
  BY DEF LoopbackPass, Reproduced, BootInv, TypeOK, UploadInv, SelfTests
<1>2. Recorded /\ pc' \in {"exit", "mining"}
  BY <1>1, RecordedExit, RecordedSame DEF Reasons
<1>3. ~(tx.left > 0)
  BY <1>1 DEF BootInv, UploadInv
<1>4. TypeOK'
  BY <1>1, <1>2 DEF BootInv, TypeOK, Recorded, Histories, RxBytes
<1>5. UploadInv'
  BY <1>1, <1>2, <1>3 DEF BootInv, UploadInv, Recorded
<1>6. PhaseInv'
  <2>1. conf.chain = "knots"
    BY <1>1 DEF BootInv, UploadInv
  <2>2. ~hist.old => fpga.ctr = 0
    BY <1>1, <2>1 DEF BootInv, PhaseInv
  <2> QED
    BY <1>1, <1>2, <2>2 DEF PhaseInv, Recorded, Booting
<1>7. SearchInv'
  BY <1>1, <1>2 DEF BootInv, SearchInv, SearchIsComplete, Recorded, Booting
<1> QED
  BY <1>4, <1>5, <1>6, <1>7 DEF BootInv

\* A phase that did not answer, undisturbed, was not the right one.
LEMMA LoopbackNextInv ==
    ASSUME BootInv, LoopbackNext
    PROVE  BootInv'
<1>1. /\ pc = "collect" /\ pc' = "padding"
      /\ UNCHANGED <<conf, src, passed, phase, fpga, rx>>
      /\ hist \in Histories /\ conf \in Confs
  BY DEF LoopbackNext, BootInv, TypeOK, UploadInv, Confs
<1>2. tx' \in Txs /\ tx'.kind = "pad" /\ tx'.left = 1 /\ tx'.first = TRUE
  <2>1. "pad" \in Kinds \cup {"pad"} /\ 1 \in 0 .. KnotsLen
    BY <1>1, Lengths
  <2> QED
    BY <2>1, UploadTyped DEF LoopbackNext, Pad
<1>3. /\ hist' \in Histories
      /\ hist'.old = (hist.old \/ ProbeAround)
      /\ hist'.why = hist.why /\ hist'.stalled = hist.stalled
      /\ hist.missed => hist'.missed
      /\ hist'.missed \/ ~(conf.live /\ fpga.held = "probe")
  <2>1. CASE /\ ~(conf.live /\ fpga.held = "probe")
             /\ hist' = [hist EXCEPT !.old = hist.old \/ ProbeAround]
    <3>1. (hist.old \/ ProbeAround) \in BOOLEAN
      BY Zenon
    <3> QED
      BY <1>1, <2>1, <3>1 DEF Histories
  <2>2. CASE MayFail /\ hist' = [Disturbed(hist) EXCEPT !.old = Disturbed(hist).old \/ ProbeAround]
    <3> DEFINE d == Disturbed(hist)
               o == d.old \/ ProbeAround
    <3>1. /\ d \in Histories /\ d.why = hist.why /\ d.missed = TRUE
          /\ d.old = hist.old /\ d.stalled = hist.stalled
      BY <1>1, <2>2, HistoryOps
    <3>2. hist' = [d EXCEPT !.old = o]
      BY <2>2
    <3>3. o \in BOOLEAN
      BY Zenon
    <3> HIDE DEF d, o
    <3>4. /\ hist' \in Histories /\ hist'.old = o /\ hist'.why = d.why
          /\ hist'.stalled = d.stalled /\ hist'.missed = d.missed
      BY <3>1, <3>2, <3>3 DEF Histories
    <3> QED
      BY <3>1, <3>4 DEF o
  <2> QED
    BY <2>1, <2>2 DEF LoopbackNext
<1>4. conf.chain = "knots" /\ RxBytes = KnotsLen
  BY <1>1, Lengths DEF BootInv, UploadInv
<1>5. TypeOK'
  BY <1>1, <1>2, <1>3 DEF BootInv, TypeOK, Txs, Histories, RxBytes
<1>6. UploadInv'
  BY <1>1, <1>2, <1>3, <1>4 DEF UploadInv
<1>7. PhaseInv'
  <2>1. ProbeAround' = ProbeAround
    BY <1>1 DEF ProbeAround
  <2> QED
    BY <1>1, <1>3, <1>4, <2>1 DEF PhaseInv, Booting
<1>8. SearchInv'
  <2>1. ~hist'.missed /\ conf.live => fpga.ctr > phase
    BY <1>1, <1>3 DEF BootInv, SearchInv, Ahead
  <2>2. SearchIsComplete'
    BY <1>1, <1>3 DEF BootInv, SearchInv, SearchIsComplete
  <2> QED
    BY <1>1, <1>2, <2>1, <2>2 DEF SearchInv, Booting
<1> QED
  BY <1>5, <1>6, <1>7, <1>8 DEF BootInv

\* The next phase begins one byte further; an undisturbed search never runs
\* out of phases.
LEMMA LoopbackPaddedInv ==
    ASSUME BootInv, LoopbackPadded
    PROVE  BootInv'
<1>1. /\ pc = "padding" /\ tx.left = 0
      /\ UNCHANGED <<conf, src, passed, tx, fpga, rx>>
      /\ hist \in Histories /\ conf \in Confs /\ phase \in 0 .. KnotsLen - 1
  BY DEF LoopbackPadded, BootInv, TypeOK, UploadInv, Confs
<1>2. conf.chain = "knots" /\ RxBytes = KnotsLen
  BY <1>1, Lengths DEF BootInv, UploadInv
<1>3. CASE phase < LastPhase
  <2>1. pc' = "probe" /\ phase' = phase + 1 /\ hist' = hist
    BY <1>3 DEF LoopbackPadded
  <2>2. phase' \in 0 .. KnotsLen - 1
    BY <1>1, <1>3, <2>1, Lengths DEF LastPhase
  <2>3. TypeOK'
    BY <1>1, <2>1, <2>2 DEF BootInv, TypeOK, RxBytes
  <2>4. UploadInv'
    BY <1>1, <1>2, <2>1 DEF BootInv, UploadInv
  <2>5. PhaseInv'
    BY <1>1, <1>2, <2>1 DEF BootInv, PhaseInv, ProbeAround, Booting
  <2>6. SearchInv'
    BY <1>1, <2>1 DEF BootInv, SearchInv, SearchIsComplete, Ahead, Booting
  <2> QED
    BY <2>3, <2>4, <2>5, <2>6 DEF BootInv
<1>4. CASE ~(phase < LastPhase)
  <2>1. Exit("loopback") /\ phase' = phase
    BY <1>4 DEF LoopbackPadded
  <2>2. "loopback" \in Reasons
    BY DEF Reasons
  <2>3. /\ pc' = "exit" /\ hist' \in Histories /\ hist'.missed = hist.missed
        /\ hist'.why = "loopback"
    BY <1>1, <2>1, <2>2, HistoryOps DEF Exit
  <2>4. hist.missed \/ ~conf.live
    BY <1>1, <1>4 DEF BootInv, SearchInv
  <2>5. TypeOK'
    BY <1>1, <2>1, <2>3 DEF BootInv, TypeOK, Histories, RxBytes
  <2>6. UploadInv'
    BY <1>1, <2>3 DEF BootInv, UploadInv
  <2>7. PhaseInv'
    BY <2>3 DEF PhaseInv, Booting
  <2>8. SearchInv'
    BY <1>1, <2>3, <2>4 DEF SearchInv, SearchIsComplete, Booting
  <2> QED
    BY <2>5, <2>6, <2>7, <2>8 DEF BootInv
<1> QED
  BY <1>3, <1>4

---------------------------------------------------------------------------
(* The part, the service manager. *)

\* A candidate is of the item held.
LEMMA FindInv ==
    ASSUME BootInv, Find
    PROVE  BootInv'
<1>1. /\ UNCHANGED <<conf, src, pc, passed, phase, tx, rx, hist>>
      /\ fpga.held # "none"
      /\ fpga' = [fpga EXCEPT !.slots = fpga.slots \cup {fpga.held}]
      /\ fpga \in Fpgas
  BY DEF Find, BootInv, TypeOK, Fpgas
<1>2. /\ fpga' \in Fpgas
      /\ fpga'.ctr = fpga.ctr /\ fpga'.whole = fpga.whole /\ fpga'.held = fpga.held
      /\ fpga'.slots = fpga.slots \cup {fpga.held}
  <2>1. fpga.slots \cup {fpga.held} \in SUBSET Kinds
    BY <1>1 DEF Fpgas
  <2> QED
    BY <1>1, <2>1 DEF Fpgas
<1>3. TypeOK'
  BY <1>1, <1>2 DEF BootInv, TypeOK, Fpgas, RxBytes
<1>4. UploadInv'
  BY <1>1, <1>2 DEF BootInv, UploadInv, RxBytes
<1>5. PhaseInv'
  <2>1. ProbeAround' = ProbeAround /\ RxBytes' = RxBytes /\ Fits' = Fits
    BY <1>1, <1>2 DEF ProbeAround, RxBytes, Fits, ItemLen
  <2> QED
    BY <1>1, <1>2, <2>1 DEF BootInv, PhaseInv
<1>6. SearchInv'
  BY <1>1, <1>2 DEF BootInv, SearchInv, SearchIsComplete, Ahead, Ends
<1> QED
  BY <1>3, <1>4, <1>5, <1>6 DEF BootInv

\* A frame that is read was in a slot.
LEMMA TransmitInv ==
    ASSUME BootInv, Transmit
    PROVE  BootInv'
<1>1. PICK k \in fpga.slots :
          /\ fpga' = [fpga EXCEPT !.slots = fpga.slots \ {k}]
          /\ rx' = IF pc = "collect" THEN rx \cup {k} ELSE rx
  BY DEF Transmit
<1>2. /\ UNCHANGED <<conf, src, pc, passed, phase, tx, hist>>
      /\ fpga \in Fpgas /\ rx \subseteq Kinds
  BY DEF Transmit, BootInv, TypeOK, Fpgas
<1>3. /\ fpga' \in Fpgas
      /\ fpga'.ctr = fpga.ctr /\ fpga'.whole = fpga.whole /\ fpga'.held = fpga.held
      /\ fpga'.slots = fpga.slots \ {k}
  <2>1. fpga.slots \ {k} \in SUBSET Kinds
    BY <1>2 DEF Fpgas
  <2> QED
    BY <1>1, <1>2, <2>1 DEF Fpgas
<1>4. rx' \subseteq Kinds /\ ("probe" \in rx' => "probe" \in rx \/ ProbeAround)
  BY <1>1, <1>2 DEF Fpgas, ProbeAround
<1>5. TypeOK'
  BY <1>2, <1>3, <1>4 DEF BootInv, TypeOK, Fpgas, RxBytes
<1>6. UploadInv'
  BY <1>2, <1>3 DEF BootInv, UploadInv, RxBytes
<1>7. PhaseInv'
  <2>1. (ProbeAround' => ProbeAround) /\ RxBytes' = RxBytes /\ Fits' = Fits
    BY <1>2, <1>3 DEF ProbeAround, RxBytes, Fits, ItemLen
  <2> QED
    BY <1>2, <1>3, <1>4, <2>1 DEF BootInv, PhaseInv
<1>8. SearchInv'
  BY <1>2, <1>3 DEF BootInv, SearchInv, SearchIsComplete, Ahead, Ends
<1> QED
  BY <1>5, <1>6, <1>7, <1>8 DEF BootInv

\* A new boot inherits the part as it is, or finds it newly programmed.
LEMMA RestartedInv ==
    ASSUME BootInv, NEW h \in Histories, Restarted(h)
    PROVE  BootInv'
<1>1. /\ src' = "none" /\ pc' = "start" /\ passed' = {} /\ phase' = 0 /\ rx' = {}
      /\ tx' = [tx EXCEPT !.left = 0] /\ conf' = conf
      /\ fpga' = IF conf.chain = "sia" THEN NewFpga ELSE fpga
      /\ hist' = [h EXCEPT !.stalled = FALSE, !.missed = FALSE, !.why = "none",
                           !.old = conf.chain = "knots" /\ ProbeAround]
      /\ conf \in Confs /\ fpga \in Fpgas /\ tx \in Txs
  BY DEF Restarted, BootInv, TypeOK, Confs, Fpgas, Txs
<1>2. tx' \in Txs /\ tx'.left = 0
  BY <1>1, Lengths DEF Txs
<1>3. fpga' \in Fpgas /\ (conf.chain = "sia" => fpga'.ctr = 0)
  <2>1. NewFpga \in Fpgas /\ NewFpga.ctr = 0
    BY <1>1, Lengths DEF NewFpga, Fpgas
  <2> QED
    BY <1>1, <2>1
<1>4. /\ hist' \in Histories /\ hist'.why = "none"
      /\ hist'.old = (conf.chain = "knots" /\ ProbeAround)
  <2> DEFINE o == conf.chain = "knots" /\ ProbeAround
  <2>1. o \in BOOLEAN
    BY Zenon
  <2>2. "none" \in Reasons
    BY DEF Reasons
  <2>3. hist' = [h EXCEPT !.stalled = FALSE, !.missed = FALSE, !.why = "none", !.old = o]
    BY <1>1
  <2> HIDE DEF o
  <2>4. hist' \in Histories /\ hist'.why = "none" /\ hist'.old = o
    BY <2>1, <2>2, <2>3 DEF Histories
  <2> QED
    BY <2>4 DEF o
<1>5. TypeOK'
  BY <1>1, <1>2, <1>3, <1>4, Lengths DEF TypeOK, Confs, Fpgas, Txs, Histories, RxBytes
<1>6. UploadInv'
  BY <1>1, <1>2, <1>4 DEF UploadInv
<1>7. PhaseInv'
  <2>1. conf.chain = "knots" /\ ~hist'.old => ~ProbeAround'
    BY <1>1, <1>4 DEF ProbeAround
  <2> QED
    BY <1>1, <1>3, <2>1 DEF PhaseInv, Booting
<1>8. SearchInv'
  BY <1>1, <1>4 DEF SearchInv, SearchIsComplete, Booting
<1> QED
  BY <1>5, <1>6, <1>7, <1>8 DEF BootInv

---------------------------------------------------------------------------
(* The theorems. *)

\* Every step keeps the invariant.
LEMMA NextBootInv ==
    ASSUME BootInv, [Next]_vars
    PROVE  BootInv'
<1>1. CASE Gates
  BY <1>1, GatesAreGateSteps, GateInv DEF BootInv
<1>2. CASE SelftestUart
  BY <1>2, SelftestUartInv
<1>3. CASE SendByte
  BY <1>3, SendByteInv
<1>4. CASE Stall
  BY <1>4, StallInv
<1>5. CASE Rxdump \/ RxdumpDone
  BY <1>5, RxdumpInv, RxdumpDoneInv
<1>6. CASE LoopbackUpload \/ LoopbackCollect \/ LoopbackPass \/ LoopbackNext \/ LoopbackPadded
  BY <1>6, LoopbackUploadInv, LoopbackCollectInv, LoopbackPassInv, LoopbackNextInv,
     LoopbackPaddedInv
<1>7. CASE Push \/ PushDone
  BY <1>7, PushInv, PushDoneInv
<1>8. CASE Find \/ Transmit
  BY <1>8, FindInv, TransmitInv
<1>9. CASE Restart
  BY <1>9, RestartedInv DEF Restart, BootInv, UploadInv
<1>10. CASE Crash
  <2>1. [hist EXCEPT !.crashes = hist.crashes + 1] \in Histories
    <3>1. hist \in Histories /\ hist.crashes < MaxCrashes
      BY <1>10 DEF Crash, BootInv, UploadInv
    <3>2. hist.crashes + 1 \in 0 .. MaxCrashes
      BY <3>1 DEF Histories
    <3> QED
      BY <3>1, <3>2 DEF Histories
  <2>2. Restarted([hist EXCEPT !.crashes = hist.crashes + 1])
    BY <1>10 DEF Crash
  <2> QED
    BY <2>1, <2>2, RestartedInv
<1>11. CASE UNCHANGED vars
  <2>1. UNCHANGED <<conf, src, pc, passed, phase, tx, fpga, rx, hist>>
    BY <1>11 DEF vars
  <2>2. TypeOK' /\ UploadInv'
    BY <2>1 DEF BootInv, TypeOK, UploadInv, RxBytes
  <2>3. PhaseInv' /\ SearchInv'
    BY <2>1 DEF BootInv, PhaseInv, SearchInv, SearchIsComplete, Ahead, Ends,
                ProbeAround, Fits, ItemLen, RxBytes
  <2> QED
    BY <2>2, <2>3 DEF BootInv
<1> QED
  BY <1>1, <1>2, <1>3, <1>4, <1>5, <1>6, <1>7, <1>8, <1>9, <1>10, <1>11
  DEF Next, Host, Gates

\* A new service, on a part that has run before or was just programmed.
LEMMA InitBootInv ==
    ASSUME Init
    PROVE  BootInv
<1>1. /\ conf \in Confs /\ src = "none" /\ pc = "start" /\ passed = {} /\ phase = 0
      /\ tx = [kind |-> "pad", left |-> 0, first |-> FALSE]
      /\ fpga \in (IF conf.chain = "knots" THEN Inherited ELSE {NewFpga})
      /\ rx = {}
      /\ hist = [faults |-> 0, crashes |-> 0, stalled |-> FALSE, missed |-> FALSE,
                 old |-> FALSE, why |-> "none"]
  BY DEF Init, Confs
<1>2. tx \in Txs /\ tx.left = 0
  BY <1>1, Lengths DEF Txs
<1>3. hist \in Histories /\ hist.why = "none"
  BY <1>1, Lengths DEF Histories, Reasons
<1>4. fpga \in Fpgas /\ (conf.chain = "sia" => fpga.ctr = 0) /\ ~ProbeAround
  <2>1. CASE conf.chain = "knots"
    <3>1. fpga \in Inherited /\ RxBytes = KnotsLen
      BY <1>1, <2>1, Lengths
    <3> QED
      BY <2>1, <3>1 DEF Inherited, Fpgas, Kinds, ProbeAround
  <2>2. CASE conf.chain = "sia"
    <3>1. fpga = NewFpga
      BY <1>1, <2>2
    <3> QED
      BY <1>1, <3>1, Lengths DEF NewFpga, Fpgas, ProbeAround
  <2> QED
    BY <1>1, <2>1, <2>2, Lengths
<1>5. TypeOK
  BY <1>1, <1>2, <1>3, <1>4, Lengths DEF TypeOK, Confs, Fpgas, Txs, Histories
<1>6. UploadInv
  BY <1>1, <1>2, <1>3 DEF UploadInv
<1>7. PhaseInv
  BY <1>1, <1>4 DEF PhaseInv, Booting
<1>8. SearchInv
  BY <1>1, <1>3 DEF SearchInv, SearchIsComplete, Booting
<1> QED
  BY <1>5, <1>6, <1>7, <1>8 DEF BootInv

\* The inductive invariant holds.
LEMMA BootInvariant == Spec => []BootInv
<1>1. Init => BootInv
  BY InitBootInv
<1>2. BootInv /\ [Next]_vars => BootInv'
  BY NextBootInv
<1> QED
  BY <1>1, <1>2, PTL DEF Spec

\* The receive counter stays below the bitstream's item length and main() at
\* one of its steps, across restarts and kills.
THEOREM BootTypeCorrect == Spec => []TypeOK
<1>1. BootInv => TypeOK
  BY DEF BootInv
<1> QED
  BY <1>1, BootInvariant, PTL

\* Between two pushes of main()'s mining loop the receive counter is at zero,
\* whatever the item lengths and whatever was left in the part: a probe that
\* selftest_loopback() reproduces proves the phase, unless it is an old one.
THEOREM SearchFindsThePhase == Spec => []MinesInPhase
<1>1. BootInv => MinesInPhase
  BY DEF BootInv, PhaseInv, MinesInPhase
<1> QED
  BY <1>1, BootInvariant, PTL

\* selftest_loopback() gives up on a part that works only after a stalled
\* byte or a missed reply: KnotsLen phases are enough for every item length.
THEOREM SearchNeverGivesUp == Spec => []SearchIsComplete
<1>1. BootInv => SearchIsComplete
  BY DEF BootInv, SearchInv
<1> QED
  BY <1>1, BootInvariant, PTL

===========================================================================
