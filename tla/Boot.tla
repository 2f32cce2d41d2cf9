-------------------------------- MODULE Boot --------------------------------
(***************************************************************************)
(* From exec to the mining loop: the order of main()'s gates, and the work *)
(* link they bring up.  The FPGA's receiver has no framing: a byte counter *)
(* modulo the item length takes whatever arrives, so an upload that starts *)
(* off zero is latched as garbage.  selftest_loopback() searches the phase *)
(* on Knots; on Siacoin the freshly loaded bitstream is trusted.           *)
(*                                                                         *)
(* A work item is its kind.  "probe" is the fixed header of the loopback   *)
(* (and of rxdump), the only one loopback_verify() can reproduce; "work"   *)
(* comes from a source; "garbage" is any other 168 or 88 bytes.  Results   *)
(* captured under an item stay in the FPGA's slots when it is replaced.    *)
(***************************************************************************)
EXTENDS Integers, FiniteSets

CONSTANTS KnotsLen,   \* WORK_ITEM_LEN = 168
          SiaLen,     \* STAGE4_LEN + 8 = 88
          MaxFaults,  \* bound: failed gates, stalls, missed replies
          MaxCrashes  \* bound: kills of a running miner

ASSUME BootConstants ==
    /\ {KnotsLen, SiaLen} \subseteq Nat \ {0, 1}
    /\ SiaLen < KnotsLen /\ KnotsLen # 2 * SiaLen
    /\ {MaxFaults, MaxCrashes} \subseteq Nat

VARIABLES conf,   \* the command line, the bitstream and whether the part works
          src,    \* g_src
          pc,     \* where main() is
          passed, \* self-tests passed in this boot
          phase,  \* selftest_loopback's phase
          tx,     \* the upload: kind of item, bytes left, none sent yet
          fpga,   \* receive counter, whole, held item, results in the slots
          rx,     \* kinds of the result frames read in this phase
          hist    \* history

vars == <<conf, src, pc, passed, phase, tx, fpga, rx, hist>>

Kinds == {"probe", "work", "garbage"}
SelfTests == {"none", "vectors", "block", "stratum", "framing", "uart", "rxdump",
              "loopback", "all", "other"}
Tasks == {"mine", "submit_test", "stratum_probe"}

\* The loaded bitstream is the one of conf.chain; this is its kRxBytes.
RxBytes == IF conf.chain = "knots" THEN KnotsLen ELSE SiaLen

\* item_len of a source.
ItemLen(s) == IF s = "sia" THEN SiaLen ELSE KnotsLen

NewFpga == [ctr |-> 0, whole |-> FALSE, held |-> "none", slots |-> {}]

\* A part that has run before: any phase, any item, anything in the slots.
Inherited == [ctr : 0 .. KnotsLen - 1, whole : {FALSE}, held : {"garbage", "work"},
              slots : {{}, {"garbage"}}]

Init ==
    /\ conf \in [chain : {"knots", "sia"}, pool : BOOLEAN, synthetic : BOOLEAN,
                 task : Tasks, selftest : SelfTests, live : BOOLEAN]
    /\ conf.task # "mine" => conf.selftest = "none"
    /\ src = "none"
    /\ pc = "start"
    /\ passed = {}
    /\ phase = 0
    /\ tx = [kind |-> "pad", left |-> 0, first |-> FALSE]
    /\ fpga \in IF conf.chain = "knots" THEN Inherited ELSE {NewFpga}
    /\ rx = {}
    /\ hist = [faults |-> 0, crashes |-> 0, stalled |-> FALSE, missed |-> FALSE,
               old |-> FALSE, why |-> "none"]

\* One of the bounded disturbances; missed says this boot saw one.
Disturbed(h) == [h EXCEPT !.faults = @ + 1, !.missed = TRUE]
MayFail == hist.faults < MaxFaults

Exit(why) == /\ pc' = "exit"
             /\ hist' = [hist EXCEPT !.why = why]

ExitFault(why) == /\ MayFail
                  /\ pc' = "exit"
                  /\ hist' = [Disturbed(hist) EXCEPT !.why = why]

-----------------------------------------------------------------------------
(* main(): the work source and the tests that need no hardware *)

\* worksrc_register() and worksrc_find(): --stratum wins, then
\* --synthetic-work, then gbt.  The pool back-end is the chain's.
SelectSource ==
    /\ pc = "start"
    /\ src' = CASE conf.pool -> IF conf.chain = "sia" THEN "sia" ELSE "stratum"
                [] ~conf.pool /\ conf.synthetic -> "synthetic"
                [] OTHER -> "gbt"
    /\ pc' = "tests"
    /\ UNCHANGED <<conf, passed, phase, tx, fpga, rx, hist>>

\* --submit-test: passes only if the node answers high-hash.
SubmitTest ==
    /\ pc = "tests" /\ conf.task = "submit_test"
    /\ \E why \in {"submit-test passed", "submit-test failed"} : Exit(why)
    /\ UNCHANGED <<conf, src, passed, phase, tx, fpga, rx>>

\* --stratum-probe: needs --stratum; a job within 45 s, a share within 120 s
\* and an accepted verdict within 30 s, or it fails.
StratumProbe ==
    /\ pc = "tests" /\ conf.task = "stratum_probe"
    /\ IF conf.pool
       THEN \E why \in {"no job", "no share", "share not accepted", "probe passed"} : Exit(why)
       ELSE Exit("usage")
    /\ UNCHANGED <<conf, src, passed, phase, tx, fpga, rx>>

\* --selftest block, stratum, framing: run that test and exit.
PureTest ==
    /\ pc = "tests" /\ conf.task = "mine"
    /\ conf.selftest \in {"block", "stratum", "framing"}
    /\ \E ok \in BOOLEAN :
        /\ passed' = IF ok THEN {conf.selftest} ELSE {}
        /\ Exit("tested")
    /\ UNCHANGED <<conf, src, phase, tx, fpga, rx>>

\* selftest_vectors(), then selftest_block_production().
RunVectors == conf.selftest \in {"none", "vectors", "all"}

Vectors ==
    /\ pc = "tests" /\ conf.task = "mine" /\ RunVectors
    /\ \/ /\ passed' = {"vectors", "block"}
          /\ IF conf.selftest = "vectors" THEN Exit("tested")
             ELSE pc' = "open" /\ UNCHANGED hist
       \/ /\ passed' \in {{}, {"vectors"}}
          /\ ExitFault("vectors")
    /\ UNCHANGED <<conf, src, phase, tx, fpga, rx>>

\* Any other --selftest goes straight to the hardware.
SkipVectors ==
    /\ pc = "tests" /\ conf.task = "mine"
    /\ conf.selftest \in {"uart", "rxdump", "loopback", "other"}
    /\ pc' = "open"
    /\ UNCHANGED <<conf, src, passed, phase, tx, fpga, rx, hist>>

-----------------------------------------------------------------------------
(* main(): the UART *)

\* uart_open().
OpenUart ==
    /\ pc = "open"
    /\ \/ pc' = "uart" /\ UNCHANGED hist
       \/ ExitFault("uart_open")
    /\ UNCHANGED <<conf, src, passed, phase, tx, fpga, rx>>

\* selftest_uart() resets the FIFOs; its failure is reported and, without
\* --selftest uart, does not stop the boot.
SelftestUart ==
    /\ pc = "uart"
    /\ \E ok \in BOOLEAN : passed' = IF ok THEN passed \cup {"uart"} ELSE passed
    /\ CASE conf.selftest = "uart"   -> Exit("tested")
         [] conf.selftest = "rxdump" -> pc' = "rxdump" /\ UNCHANGED hist
         [] OTHER -> /\ pc' = IF conf.chain = "sia" THEN "mining" ELSE "probe"
                     /\ UNCHANGED hist
    /\ UNCHANGED <<conf, src, phase, tx, fpga, rx>>

-----------------------------------------------------------------------------
(* Uploads *)

Upload(kind, n) == tx' = [kind |-> kind, left |-> n, first |-> TRUE]

\* MUTANT of Wrap: the counter wraps one byte late.
WrapLate(n) == (n + 1) % (RxBytes + 1)

\* The receive counter after a byte.
Wrap(n) == (n + 1) % RxBytes

\* One byte of the upload reaches the receiver.  The item is latched when
\* the counter wraps, and is the intended one only if its first byte found
\* the counter at zero and its length is the counter's.
SendByte ==
    /\ tx.left > 0
    /\ tx' = [tx EXCEPT !.left = @ - 1, !.first = FALSE]
    /\ LET whole == IF fpga.ctr = 0 THEN tx.first /\ tx.left = RxBytes
                    ELSE fpga.whole /\ ~tx.first
           ctr   == Wrap(fpga.ctr)
       IN  fpga' = [fpga EXCEPT
                       !.ctr = ctr,
                       !.whole = whole,
                       !.held = IF ctr # 0 THEN @ ELSE IF whole THEN tx.kind ELSE "garbage"]
    /\ UNCHANGED <<conf, src, pc, passed, phase, rx, hist>>

\* uart_put() waited TX_TIMEOUT_US for room: the rest is not sent.
\* selftest_loopback() and rxdump give up, a pad byte and a push do not.
Stall ==
    /\ tx.left > 0 /\ MayFail
    /\ tx' = [tx EXCEPT !.left = 0]
    /\ CASE pc = "probing" -> ExitFault("loopback")
         [] pc = "dumping" -> ExitFault("rxdump")
         [] pc = "padding" -> /\ hist' = Disturbed(hist)
                              /\ UNCHANGED pc
         [] pc = "pushing" -> /\ hist' = [Disturbed(hist) EXCEPT !.stalled = TRUE]
                              /\ pc' = "mining"
    /\ UNCHANGED <<conf, src, passed, phase, fpga, rx>>

\* selftest_rxdump(): one item of the probe's header, then dump what comes.
Rxdump ==
    /\ pc = "rxdump"
    /\ Upload("probe", KnotsLen)
    /\ pc' = "dumping"
    /\ UNCHANGED <<conf, src, passed, phase, fpga, rx, hist>>

RxdumpDone ==
    /\ pc = "dumping" /\ tx.left = 0
    /\ Exit("tested")
    /\ UNCHANGED <<conf, src, passed, phase, tx, fpga, rx>>

-----------------------------------------------------------------------------
(* selftest_loopback() *)

\* Top of the phase loop: purge, quiet gate (its timeout is only logged),
\* upload the probe.
LoopbackUpload ==
    /\ pc = "probe"
    /\ Upload("probe", KnotsLen)
    /\ pc' = "probing"
    /\ UNCHANGED <<conf, src, passed, phase, fpga, rx, hist>>

\* The upload has drained; frame_sync(quiet_ok = 0) collects.
LoopbackCollect ==
    /\ pc = "probing" /\ tx.left = 0
    /\ pc' = "collect"
    /\ rx' = {}
    /\ UNCHANGED <<conf, src, passed, phase, tx, fpga, hist>>

\* MUTANT of Reproduced: the flag byte alone is believed.
ReproducedByFlag == rx # {}

\* loopback_verify(): some window's hash is the probe's.
Reproduced == "probe" \in rx

LoopbackPass ==
    /\ pc = "collect" /\ Reproduced
    /\ passed' = passed \cup {"loopback"}
    /\ IF conf.selftest \in {"loopback", "all"} THEN Exit("tested")
       ELSE pc' = "mining" /\ UNCHANGED hist
    /\ UNCHANGED <<conf, src, phase, tx, fpga, rx>>

\* MUTANT of Pad: the pad byte is not sent.
PadNothing == Upload("pad", 0)

Pad == Upload("pad", 1)

\* The part works for the probe, or has a result of it to send.
ProbeAround == "probe" \in fpga.slots \cup {fpga.held}

\* Nothing reproduced within the window: shift the phase by one byte.  A part
\* that works and holds the probe answers in time, but for a disturbance.
LoopbackNext ==
    /\ pc = "collect"
    /\ \/ /\ ~Reproduced
          /\ ~(conf.live /\ fpga.held = "probe")
          /\ hist' = [hist EXCEPT !.old = @ \/ ProbeAround]
       \/ /\ MayFail
          /\ hist' = [Disturbed(hist) EXCEPT !.old = @ \/ ProbeAround]
    /\ Pad
    /\ pc' = "padding"
    /\ UNCHANGED <<conf, src, passed, phase, fpga, rx>>

\* MUTANT of LastPhase: one phase short.
LastPhaseShort == KnotsLen - 2

LastPhase == KnotsLen - 1

LoopbackPadded ==
    /\ pc = "padding" /\ tx.left = 0
    /\ IF phase < LastPhase
       THEN pc' = "probe" /\ phase' = phase + 1 /\ UNCHANGED hist
       ELSE Exit("loopback") /\ UNCHANGED phase
    /\ UNCHANGED <<conf, src, passed, tx, fpga, rx>>

-----------------------------------------------------------------------------
(* The mining loop's pushes, the FPGA, crashes *)

Push ==
    /\ pc = "mining"
    /\ Upload("work", ItemLen(src))
    /\ pc' = "pushing"
    /\ UNCHANGED <<conf, src, passed, phase, fpga, rx, hist>>

PushDone ==
    /\ pc = "pushing" /\ tx.left = 0
    /\ pc' = "mining"
    /\ UNCHANGED <<conf, src, passed, phase, tx, fpga, rx, hist>>

\* A core finds a candidate for the held item.
Find ==
    /\ conf.live /\ fpga.held # "none"
    /\ fpga.held \notin fpga.slots
    /\ fpga' = [fpga EXCEPT !.slots = @ \cup {fpga.held}]
    /\ UNCHANGED <<conf, src, pc, passed, phase, tx, rx, hist>>

\* A frame leaves a slot.  The FIFO cannot hold one, so it is read whole
\* only if the host is collecting.
Transmit ==
    /\ \E k \in fpga.slots :
        /\ fpga' = [fpga EXCEPT !.slots = @ \ {k}]
        /\ rx' = IF pc = "collect" THEN rx \cup {k} ELSE rx
    /\ UNCHANGED <<conf, src, pc, passed, phase, tx, hist>>

\* A service that mines is started again when it ends (Restart=always) or is
\* killed.  On Siacoin the loader programs the part first.
Serves == conf.task = "mine" /\ conf.selftest = "none"

Restarted(h) ==
    /\ src' = "none" /\ pc' = "start" /\ passed' = {} /\ phase' = 0
    /\ tx' = [tx EXCEPT !.left = 0]
    /\ fpga' = IF conf.chain = "sia" THEN NewFpga ELSE fpga
    /\ rx' = {}
    /\ hist' = [h EXCEPT !.stalled = FALSE, !.missed = FALSE, !.why = "none",
                         !.old = conf.chain = "knots" /\ ProbeAround]
    /\ UNCHANGED conf

Restart == pc = "exit" /\ Serves /\ Restarted(hist)

Crash ==
    /\ pc # "exit" /\ Serves
    /\ hist.crashes < MaxCrashes
    /\ Restarted([hist EXCEPT !.crashes = @ + 1])

-----------------------------------------------------------------------------

Host == \/ SelectSource \/ SubmitTest \/ StratumProbe \/ PureTest \/ Vectors \/ SkipVectors
        \/ OpenUart \/ SelftestUart \/ SendByte \/ Rxdump \/ RxdumpDone
        \/ LoopbackUpload \/ LoopbackCollect \/ LoopbackPass \/ LoopbackNext \/ LoopbackPadded
        \/ Push \/ PushDone

Next == Host \/ Stall \/ Find \/ Transmit \/ Restart \/ Crash

Spec == Init /\ [][Next]_vars

(***************************************************************************)
(* main() never waits without a timeout, the part transmits what it holds, *)
(* and the service manager restarts what ended.  At the right phase the    *)
(* probe's target passes one hash in 256, so a reply comes in time.        *)
(***************************************************************************)
FairSpec == Spec /\ WF_vars(Host) /\ WF_vars(Find) /\ WF_vars(Transmit) /\ WF_vars(Restart)

-----------------------------------------------------------------------------
(* Properties *)

\* The receive counter stays below the item length of the bitstream, the
\* search within its phases, and main() at one of its steps.
TypeOK ==
    /\ conf \in [chain : {"knots", "sia"}, pool : BOOLEAN, synthetic : BOOLEAN,
                 task : Tasks, selftest : SelfTests, live : BOOLEAN]
    /\ src \in {"none", "gbt", "synthetic", "stratum", "sia"}
    /\ pc \in {"start", "tests", "open", "uart", "rxdump", "dumping", "probe", "probing",
               "collect", "padding", "mining", "pushing", "exit"}
    /\ passed \subseteq SelfTests
    /\ phase \in 0 .. KnotsLen - 1
    /\ tx \in [kind : Kinds \cup {"pad"}, left : 0 .. KnotsLen, first : BOOLEAN]
    /\ fpga \in [ctr : 0 .. RxBytes - 1, whole : BOOLEAN, held : Kinds \cup {"none"},
                 slots : SUBSET Kinds]
    /\ rx \subseteq Kinds
    /\ hist.faults \in 0 .. MaxFaults /\ hist.crashes \in 0 .. MaxCrashes

\* The source's items are as long as the bitstream's.
Fits == ItemLen(src) = RxBytes

(***************************************************************************)
(* Between two pushes of the mining loop the receive counter is at zero:   *)
(* the phase search ended on the right phase and no upload since has moved *)
(* it, unless a push stalled, or a phase of the search found the part with *)
(* the probe of an earlier phase or boot.                                  *)
(***************************************************************************)
MinesInPhase ==
    pc = "mining" /\ Fits /\ ~hist.stalled /\ ~hist.old => fpga.ctr = 0

(***************************************************************************)
(* A part that works is found at whatever phase it was left: the search    *)
(* gives up only after a stalled byte or a missed reply.                   *)
(***************************************************************************)
SearchIsComplete == hist.why = "loopback" /\ conf.live => hist.missed

(***************************************************************************)
(* Once the disturbances are over, a miner started as a service on a part  *)
(* that works ends up in the mining loop for good.                         *)
(***************************************************************************)
Mines == conf.live /\ Serves => <>[](pc \in {"mining", "pushing"})

====
