------------------------------ MODULE Framing ------------------------------
(***************************************************************************)
(* How the miner finds frame boundaries in the byte stream the FPGA sends: *)
(* frame_sync(), and the drain loop of main() that replays what it hands   *)
(* back, assembles frames and re-synchronises after a run of bad ones.     *)
(*                                                                         *)
(* A byte is its position in the frame the FPGA sent and whether its value *)
(* is 0x01; position 0, the flag, always is.  Time is kept as one fact:    *)
(* line.gap, true once the line has been silent for 3 ms, which only       *)
(* happens between two frames.  The UART's receive FIFO loses the byte     *)
(* that finds it full.                                                     *)
(***************************************************************************)
EXTENDS Integers, Sequences, FiniteSets, SequencesExt

CONSTANTS FrameLen,    \* RESULT_LEN = 17
          NSync,       \* NSYNC = 512
          LockFrames,  \* frames the histogram needs: 4
          BackFrames,  \* frames syncbuf holds, and a lock hands back: 8
          BadRun,      \* unparseable frames before a re-sync: 3
          FifoLen,     \* receive FIFO of the UART: 16
          MaxFaults    \* bound: lost bytes, data bytes of 0x01, pushes, deadlines

ASSUME FramingConstants ==
    /\ {FrameLen, NSync, LockFrames, BackFrames, BadRun, FifoLen} \subseteq Nat \ {0}
    /\ MaxFaults \in Nat

VARIABLES line,    \* the transmitter: position of the next byte, silent for 3 ms
          fifo,    \* the UART's receive FIFO
          pc,      \* where the mining loop is
          buf,     \* frame_sync's buf, then the frames read after a lock
          skip,    \* bytes still to discard after a lock
          replay,  \* syncbuf[syncpos .. synclen)
          frame,   \* the assembler's bytes
          synced, bad_run,
          trust,   \* history: nothing this alignment rests on was disturbed
          faults

vars == <<line, fifo, pc, buf, skip, replay, frame, synced, bad_run, trust, faults>>
sync == <<buf, skip>>
host == <<pc, buf, skip, replay, frame, synced, bad_run>>

Byte == [pos : 0 .. FrameLen - 1, one : BOOLEAN]

\* Bytes q, then the transmitter's next byte, with none missing in between.
Unbroken(q) ==
    \A i \in DOMAIN q :
        (q[i].pos + 1) % FrameLen = IF i = Len(q) THEN line.pos ELSE q[i + 1].pos

\* Whole bytes of q counted back from its end: the leading remainder is cut.
WholeFrames(q) == SubSeq(q, (Len(q) % FrameLen) + 1, Len(q))

Fault == /\ faults < MaxFaults
         /\ faults' = faults + 1

Init ==
    /\ line \in [pos : 0 .. FrameLen - 1, gap : {FALSE}]
    /\ fifo = <<>>
    /\ pc = "loop"
    /\ buf = <<>> /\ skip = 0 /\ replay = <<>> /\ frame = <<>>
    /\ synced = FALSE /\ bad_run = 0
    /\ trust = TRUE
    /\ faults = 0

-----------------------------------------------------------------------------
(* The FPGA's transmitter and the UART (external) *)

Send ==
    /\ Len(fifo) < FifoLen
    /\ \E one \in BOOLEAN :
        /\ line.pos = 0 => one
        /\ one /\ line.pos # 0 => faults < MaxFaults
        /\ faults' = faults + IF one /\ line.pos # 0 THEN 1 ELSE 0
        /\ fifo' = Append(fifo, [pos |-> line.pos, one |-> one])
    /\ line' = [pos |-> (line.pos + 1) % FrameLen, gap |-> FALSE]
    /\ UNCHANGED <<host, trust>>

\* STAT_OVERRUN: the FIFO was full and the byte is gone.
Overrun ==
    /\ Len(fifo) = FifoLen
    /\ Fault
    /\ line' = [pos |-> (line.pos + 1) % FrameLen, gap |-> FALSE]
    /\ trust' = FALSE
    /\ UNCHANGED <<fifo, host>>

Silence ==
    /\ line.pos = 0 /\ ~line.gap
    /\ line' = [line EXCEPT !.gap = TRUE]
    /\ UNCHANGED <<fifo, host, trust, faults>>

-----------------------------------------------------------------------------
(* frame_sync(), as the mining loop calls it (quiet_ok = 1) *)

\* The loop pushes a new item: the quiet gate reads and discards what the
\* FIFO holds, and the alignment is given up.
Push ==
    /\ pc = "loop" /\ replay = <<>>
    /\ Fault
    /\ fifo' = <<>>
    /\ synced' = FALSE
    /\ frame' = <<>>
    /\ UNCHANGED <<line, pc, buf, skip, replay, bad_run, trust>>

\* The upload times out after the quiet gate has discarded: the alignment and
\* the assembler's bytes are kept, and what was to follow them is gone.
PushStalled ==
    /\ pc = "loop" /\ replay = <<>>
    /\ Fault
    /\ fifo' = <<>>
    /\ trust' = FALSE
    /\ UNCHANGED <<line, host>>

SyncStart ==
    /\ pc = "loop" /\ ~synced
    /\ pc' = "collect"
    /\ buf' = <<>> /\ frame' = <<>> /\ replay' = <<>>
    /\ trust' = Unbroken(fifo)
    /\ UNCHANGED <<line, fifo, skip, synced, bad_run, faults>>

Collect ==
    /\ pc = "collect" /\ fifo # <<>> /\ Len(buf) < NSync
    /\ buf' = Append(buf, Head(fifo))
    /\ fifo' = Tail(fifo)
    /\ UNCHANGED <<line, pc, skip, replay, frame, synced, bad_run, trust, faults>>

\* Fifteen empty polls: the gap.
Quiet == pc = "collect" /\ Len(buf) < NSync /\ fifo = <<>> /\ line.gap

\* MUTANT of Align: the whole collection is replayed.
AlignAll(q) ==
    /\ replay' = q
    /\ synced' = TRUE
    /\ pc' = "loop"

\* What the loop does with the bytes a sync handed back.
Align(q) ==
    /\ replay' = WholeFrames(q)
    /\ synced' = TRUE
    /\ pc' = "loop"

\* The line is silent and something was collected: hand it back.  syncbuf
\* holds BackFrames frames; a longer collection is copied past its end.
GapSync ==
    /\ Quiet /\ buf # <<>>
    /\ IF Len(buf) <= BackFrames * FrameLen
       THEN Align(buf)
       ELSE pc' = "undefined" /\ UNCHANGED <<replay, synced>>
    /\ UNCHANGED <<line, fifo, sync, frame, bad_run, trust, faults>>

\* The line is silent and nothing was collected.
QuietSync ==
    /\ Quiet /\ buf = <<>>
    /\ Align(<<>>)
    /\ UNCHANGED <<line, fifo, sync, frame, bad_run, trust, faults>>

\* The histogram: 0x01 bytes by residue, the lowest of the fullest wins, and
\* it must have half the frames.
Ones(r)  == Cardinality({i \in DOMAIN buf : buf[i].one /\ (i - 1) % FrameLen = r})
Best     == CHOOSE r \in 0 .. FrameLen - 1 :
                \A q \in 0 .. FrameLen - 1 : Ones(q) < Ones(r) \/ (Ones(q) = Ones(r) /\ r <= q)
Dominant == /\ Len(buf) >= LockFrames * FrameLen
            /\ Ones(Best) * 2 >= Len(buf) \div FrameLen

\* Those at one place of their frames; the flags lead the others, so that a
\* fuller bucket is not a data byte's.
OnesAt(p) == Cardinality({i \in DOMAIN buf : buf[i].one /\ buf[i].pos = p})
FlagsLead == \A p \in 1 .. FrameLen - 1 : OnesAt(p) < OnesAt(0)

\* MUTANT of SkipTo: not reduced to less than a frame.
SkipToUnreduced == Best - (Len(buf) % FrameLen) + FrameLen

\* Bytes to discard so that the next one is at the winning residue.
SkipTo == (Best - (Len(buf) % FrameLen) + FrameLen) % FrameLen

\* No gap before the buffer filled up, or before the deadline.
NoGap ==
    /\ pc = "collect"
    /\ \/ Len(buf) = NSync /\ UNCHANGED faults
       \/ Len(buf) < NSync /\ Fault

LockFound ==
    /\ NoGap
    /\ Dominant
    /\ skip' = SkipTo
    /\ trust' = (trust /\ FlagsLead)
    /\ pc' = "skip" /\ buf' = <<>>
    /\ UNCHANGED <<line, fifo, replay, frame, synced, bad_run>>

LockFailed ==
    /\ NoGap
    /\ ~Dominant
    /\ pc' = "loop"
    /\ UNCHANGED <<line, fifo, sync, replay, frame, synced, bad_run, trust>>

SkipByte ==
    /\ pc = "skip" /\ fifo # <<>> /\ skip > 0
    /\ skip' = skip - 1
    /\ fifo' = Tail(fifo)
    /\ UNCHANGED <<line, pc, buf, replay, frame, synced, bad_run, trust, faults>>

\* Two seconds without the byte to skip.
SkipDeadline ==
    /\ pc = "skip" /\ fifo = <<>> /\ skip > 0
    /\ Fault
    /\ pc' = "loop"
    /\ UNCHANGED <<line, fifo, sync, replay, frame, synced, bad_run, trust>>

ReadAligned ==
    /\ pc = "skip" /\ skip = 0
    /\ fifo # <<>> /\ Len(buf) < BackFrames * FrameLen
    /\ buf' = Append(buf, Head(fifo))
    /\ fifo' = Tail(fifo)
    /\ UNCHANGED <<line, pc, skip, replay, frame, synced, bad_run, trust, faults>>

\* All of it read, or three seconds are over: handed back as it stands, in
\* the middle of a frame if that is where the deadline fell.
LockSync ==
    /\ pc = "skip" /\ skip = 0
    /\ \/ Len(buf) = BackFrames * FrameLen /\ UNCHANGED faults
       \/ Len(buf) < BackFrames * FrameLen /\ Fault
    /\ Align(buf)
    /\ trust' = (trust /\ Len(buf) % FrameLen = 0)
    /\ UNCHANGED <<line, fifo, sync, frame, bad_run>>

frame_sync == SyncStart \/ Collect \/ GapSync \/ QuietSync \/ LockFound \/ LockFailed
              \/ SkipByte \/ SkipDeadline \/ ReadAligned \/ LockSync

-----------------------------------------------------------------------------
(* The drain loop of main() *)

\* The replay after its first byte, if any, was taken.
Replayed == IF replay = <<>> THEN replay ELSE Tail(replay)

\* MUTANT of BadFrame: bad frames are counted and nothing else.
BadFrameCounted ==
    /\ replay' = Replayed
    /\ UNCHANGED <<bad_run, synced>>

\* parse_result() refused the frame.
BadFrame ==
    /\ bad_run' = (bad_run + 1) % BadRun
    /\ IF bad_run + 1 = BadRun
       THEN synced' = FALSE /\ replay' = <<>>
       ELSE UNCHANGED synced /\ replay' = Replayed

GoodFrame ==
    /\ bad_run' = 0
    /\ UNCHANGED synced
    /\ replay' = Replayed

\* One byte, from the replay first.  A frame parses if its first byte is 0x01;
\* a candidate that does not verify changes nothing here.
Drain ==
    /\ pc = "loop" /\ synced
    /\ replay # <<>> \/ fifo # <<>>
    /\ LET b    == IF replay # <<>> THEN Head(replay) ELSE Head(fifo)
           full == Append(frame, b)
       IN  /\ fifo' = IF replay # <<>> THEN fifo ELSE Tail(fifo)
           /\ IF Len(full) = FrameLen
              THEN /\ frame' = <<>>
                   /\ IF full[1].one THEN GoodFrame ELSE BadFrame
              ELSE /\ frame' = full
                   /\ replay' = Replayed
                   /\ UNCHANGED <<synced, bad_run>>
    /\ UNCHANGED <<line, pc, sync, trust, faults>>

Next == Send \/ Overrun \/ Silence \/ Push \/ PushStalled \/ frame_sync \/ Drain

Spec == Init /\ [][Next]_vars

(***************************************************************************)
(* The loop never waits for anything but bytes and deadlines, and keeps up *)
(* with the line but for MaxFaults lost bytes; the FPGA keeps finding.     *)
(***************************************************************************)
FairSpec == Spec /\ WF_vars(Send) /\ WF_vars(Drain)
                 /\ WF_vars(SyncStart \/ Collect \/ GapSync \/ QuietSync \/ SkipByte
                            \/ ((LockFound \/ LockFailed \/ LockSync) /\ faults' = faults)
                            \/ ReadAligned)

-----------------------------------------------------------------------------
(* Properties *)

\* Each phase of frame_sync() stays within its buffer, the bytes to skip are
\* fewer than a frame, the assembler never holds a whole one, and what the
\* loop replays fits syncbuf (a hand-back that does not fit is "undefined").
TypeOK ==
    /\ line \in [pos : 0 .. FrameLen - 1, gap : BOOLEAN]
    /\ fifo \in Seq(Byte) /\ Len(fifo) <= FifoLen
    /\ pc \in {"loop", "collect", "skip", "undefined"}
    /\ buf \in Seq(Byte)
    /\ pc = "collect" => Len(buf) <= NSync
    /\ pc = "skip" => Len(buf) <= BackFrames * FrameLen
    /\ skip \in 0 .. FrameLen - 1
    /\ replay \in Seq(Byte) /\ Len(replay) <= BackFrames * FrameLen
    /\ frame \in Seq(Byte) /\ Len(frame) < FrameLen
    /\ synced \in BOOLEAN /\ bad_run \in 0 .. BadRun - 1
    /\ trust \in BOOLEAN /\ faults \in 0 .. MaxFaults

\* What the assembler holds and will be given lies on frame boundaries.
Aligned ==
    LET all == frame \o replay \o fifo
    IN  /\ \A i \in DOMAIN all : all[i].pos = (i - 1) % FrameLen
        /\ line.pos = Len(all) % FrameLen

(***************************************************************************)
(* By whichever of its three paths frame_sync() succeeded, the drain loop  *)
(* reads on frame boundaries from the first byte replayed to the next byte *)
(* on the line, unless a byte was lost since or discarded before a push    *)
(* that stalled, some data byte was 0x01 in as many of the collected       *)
(* frames as the flag, or the lock's read was cut inside a frame.  Fewer   *)
(* data bytes of 0x01 do not mislead the histogram.                        *)
(***************************************************************************)
SyncedIsAligned == synced /\ trust => Aligned

(***************************************************************************)
(* Once the disturbances are over the loop ends up reading on frame        *)
(* boundaries for good: a shifted stream cannot parse for ever.            *)
(***************************************************************************)
Realigns == <>(pc = "undefined") \/ <>[](synced /\ Aligned)

(***************************************************************************)
(* miner.c's comment on syncbuf: it is sized to what frame_sync() can hand *)
(* back.  The gap path hands back up to NSync - 1 bytes.                   *)
(***************************************************************************)
HandBackFits == pc # "undefined"

====
