# A TLA+ verification of the Osprey BLAKE2b miner

The repository is an FPGA miner for BLAKE2b proof of work: RTL for the mining
cores and their UART (`src/*.vhd`, with a Siacoin variant in `src/sia`), and the
program that drives them from the Zynq (`miner/*.c`), mining solo against a node
or on Stratum pools. This directory models the parts in which several things
happen at once, checks them with TLC on small instances, and proves the central
properties with TLAPS for every value of the constants. Paths below are relative
to the repository; `PROJECT.json` holds the same information in machine-readable
form, with the source lines of every definition.

## The system

| Part | State | Operations | Hard behaviour |
|---|---|---|---|
| Result path, FPGA (`OspreyBlake2bTop.vhd`, `OspreyBlake2bUartGetWork.vhd`, `OspreyBlake2bUartTop.vhd`) | a capture slot and a drop counter per core, round-robin pointer, transmitter FSM, debug pulse | one synchronous edge | a core reports on the cycle it is served; a core faster than the link; starvation; the debug echo |
| Work path, FPGA (the same files) | receive counter without framing, held item, run control, two register stages to the cores | byte received, item latched, broadcast | a lost or missing byte rotates every later item |
| Hash cores (`OspreyBlake2bStage3Core.vhd`, `OspreyBlake2bStage4Core.vhd`) | pipeline, nonce iterator | one edge | nonces that match their pipeline stage; disjoint nonce ranges |
| UART driver (`uio_uart.c`) | UartLite FIFOs of 16 bytes | put, get, write, drain, wait for quiet | time-out half-way through an item; overrun inside a 17-byte frame |
| Frame synchronisation and assembler (`miner.c`) | `synced`, `got`, `bad_run`, replay buffer | `frame_sync`, drain | alignment lost and found on a stream in which the flag byte also occurs as data |
| Mining loop (`miner.c`) | `ctx`, `have_work` | poll, roll work, synchronise, drain | what is verified against, submitted as and mined can be three different items |
| Pool work source (`worksrc_stratum.c`) | `g_cur`, extranonce2 counter, what was pushed and when | `st_poll`, `st_get_work`, `st_on_candidate` | two sessions; jobs replaced while candidates are on their way |
| Stratum session (`stratum.c`) | socket, handshake flags, extranonce, job, counters, retry time, redirect | `dial`, `stratum_poll`, line handlers, `stratum_submit` | disconnects at any point, late replies, rotation of the extranonce, back-off |
| Developer fee (`devfee.c`) | counters for templates and for pool jobs | epoch, skip, credit | the ledger must agree with what was mined when the dev pool is unusable |
| Solo mining (`miner.c`, `block.c`, `coinbase.c`, `merkle.c`) | template body, header of the pushed item | `get_template`, `gbt_build`, `gbt_on_candidate`, `submit_block` | a template that fails half-way |
| Targets and work items (`work_item.c`, `sia_stratum.c`) | none | compact targets, difficulty, comparisons | widths, rounding, `<` in hardware against `<=` in software |
| Start-up (`miner.c`) | source, tests passed, receive phase | the gates of `main`, loopback search over the 168 phases | restoring alignment of a counter that cannot be reset; kills and restarts |
| DNS resolver (`dns.c`) | none | ask each nameserver in turn | servers that do not answer |
| Hashes, bech32, JSON scanner, status file | none or I/O | | |

The host is a single polled loop, so its handlers are atomic. What interleaves is
the order of events: lines from two pools, the roll of work, bytes from the FPGA.
The FPGA is synchronous: all registers change at the same edge, and its inputs
(which cores report, when a bit time comes) are free.

What makes each part correct: the result path loses nothing without counting it,
keeps the order and starves nobody; the work path delivers whole items; a share
names the work it was found on and is sent only where it is worth something; a
session never mines the leftovers of an earlier connection; every dev epoch is
accounted for; mining for the user never depends on the developer's pool; a
session always comes back; frames are read on their boundaries; a boot ends with
the receiver in phase; a solved block is one the node can accept; a share target
is the pool's to within a rounding.

## Modules

`ResultArb` models the result path. A step (`Edge`) is one rising edge of
`MiningClk`, in which `Capture`, `AdvancePtr`, `Transmitter` and `DbgEcho` (one
operator per VHDL process) update their registers from the old values. The inputs
of an edge are the set of cores with `Success` high, `NewWork`, and whether the TX
divider ticks; the divider is a free choice, so nothing depends on the baud rate.
A candidate's 128 bits are abstracted to its ordinal among its core's candidates.
`found`, `sent`, `lastSent`, `bypass` and `airtime` are history.

`CountedChannel` is the abstract specification of that path: every core has a
one-place channel; a candidate waits, has been delivered, or is counted as lost, a
step delivers at most one, and the order of service is left open. `ResultArb`
instantiates it (`Channel`) with the slots as the channel and the drop counters as
the losses; `ImplementsChannel` is checked and proved.

`Stratum` holds the session record of `stratum.c` and one operator per protocol
event. Byte strings are identities: a job is its sequence number, `extranonce1`
is the *era* in which the pool assigned it. A new era starts with each connection
and each `mining.set_extranonce`. `js_hex` decodes in place, so a subscribe reply or
a rotation that stops being hex half-way leaves an `extranonce1` no pool assigned:
`Torn` (`OnSubscribeBadHex`, `OnSetExtranonceBad`).

`PoolMiner` composes two sessions with the pool work source, the fee counters and
the push and candidate steps of the mining loop:

| Action | Code |
|---|---|
| `Connect`, `Disconnect` | `dial`, `drop` from `stratum_poll` or `client.reconnect` |
| `SubscribeReply`, `AuthorizeReply`, `Notify`, `SetExtranonce`, `SetExtranonceBad` | the branches of `on_line` |
| `RollWork` | `st_get_work` succeeds, `uart_wait_quiet`, then `uart_write` completes (`TxDone`) or times out (`TxStalled`) |
| `RollRefused` | `st_get_work` counted the epoch and rolled the extranonce, then `build_from` refused the job |
| `Age` | `PUSH_MAX_AGE_S` seconds pass since the push |
| `Find` | a core finds a candidate of the item the FPGA grinds (external) |
| `CandidateIgnored`, `DiscardStale`, `SubmitShare`, `SubmitFails` | the ways out of `st_on_candidate`, and a candidate lost on the way |

`cur`, `ctx` and `fpga` are `g_cur`, the mining loop's `ctx` and the item in the
cores. An item is the record of what it was built from, so that a candidate
verifies against `ctx` exactly when it was found on an equal item. Whether a
candidate meets the share target is a free choice; whether a job fits the
bitstream (52-byte stage 3, no merkle branch) is a property of the job. A stalled
upload leaves the receive counter anywhere (`aligned`); what an unaligned counter
latches is a mixed item, of which no candidate verifies. `said` is what the
current step submitted or discarded; `made` (the epochs that made an item for
the operator, one of the developer's that was mined, one that was lost with its upload,
or none because the job was refused), `stalled` and `cleaned` are history.

`StratumSession` is the same session seen from the socket:

| Action | Code |
|---|---|
| `DialUnresolved`, `DialNoSocket`, `DialRefused`, `DialConnected`, `DialSendFails` | the ways out of `dial`; `Resolve` is `dns_resolve_a`, `Consume` the one-time redirect, `BackOff` the doubling wait |
| `PollReads`, `PollDrops` | `stratum_poll` receives lines, or finds the connection closed or its buffer full |
| `Dispatch` | one line through `on_line`; `Rest` is the early return after a handler dropped the session |
| `GetWork` | `st_get_work` builds an item, so that a solution can exist from now on |
| `SubmitSent`, `SubmitFails` | `stratum_submit`: it asks for an open socket and nothing else, so a share is also sent in mid-handshake and after a rotation |
| `Second` | a second of wall-clock time; `retry_at` is kept as a countdown |
| `Pool...` | the pool (external): answers in any order, verdicts, jobs, rotations, strays, redirects, floods, closes, a move to another address |

Job contents and extranonce are in `Stratum` and `PoolMiner`; here a job is held or
not. A reply carries the request it answers instead of a number: ids are never
reused and replies die with their connection, so nothing is lost by that.

`Framing` models `frame_sync` (called with `quiet_ok = 1`) byte by byte and the drain loop of `main`. A
byte is its position in its frame and whether it equals 0x01. Time is one fact, that
the line has been silent for 3 ms, which only happens between frames; a deadline is
a step that may happen early. `trust` is history: no byte on which the present
alignment rests was lost or discarded, in the collected bytes the flags outnumber the
0x01 bytes at every other place of the frame (`FlagsLead`), and the lock's read was not
cut inside a frame.

`Boot` models `main` from the command line to the mining loop, and the work link it
brings up: uploads byte by byte into a receive counter without framing, the phase
search, stalls, results of earlier phases still in the slots, restarts by the service
manager and kills. An item is its kind (the probe, real work, garbage).

`SoloGbt` models the two solo sources: `get_template` with each failure and what it
has already changed by then, `gbt_build`, the push, `gbt_on_candidate` and
`submit_block`, with the node's best block moving. The coinbase is known by the
template count it carries, the transactions by the response they came from, and a
header by what its merkle root commits to. Both RPC calls block the loop; frames that
arrive meanwhile may be lost.

`Targets` (bounds in `MCTargets`) models the target arithmetic on numbers: the
difficulty, `Grain` times finer than the 2^-32 the divisor keeps of it and rounded to
the nearest, the share target as a division that consumes one bit of diff1 per step in a register
that wraps, the compact network target with its shift, and the two comparisons, the
core's on the top word and the host's on all bits.

`MCPoolMiner` gives the bounds per session. The theorems about a module are in the
module of its name with `Proofs` appended; `ArithmeticLemmas` holds the facts about
quotients, remainders and least elements they share.

Operators marked `MUTANT` are deliberately wrong variants of the definition that
follows them. They are used by nothing; substituting one for its original must
make TLC report the property named in `PROJECT.json`.

## Runs

| Run | Checks | Shows |
|---|---|---|
| `arb` | `TypeOK`, `Conservation`, `FramesInOrder`, `BoundedBypass`, `HeldIsSent`, `ImplementsChannel` | the arbiter's conservation law and fairness, a held candidate is always sent, and the refinement |
| `pool` | `TypeOK`, `ShareNamesItsWork`, `ReadyIsCurrent`, `DevFeeLedger`, `NoLiveShareDiscarded` | shares, sessions and fee stay consistent through drops, reconnects, rotations that succeed or fail half-way, replaced jobs and stalls; only void solutions are discarded |
| `pool_live` | `DevFeeLedger`, `OperatorKeepsMining` | whatever the developer's pool does, the cores come to grind the operator's block; the ledger over longer histories, with dev jobs refused |
| `session` | `TypeOK`, `VerdictsAccounted`, `BelievesThisPool`, `RedirectOnce`, `ComesBack` | verdicts are never invented, nothing outlives a connection, a redirect is dialled once, the session becomes ready again and again |
| `framing` | `TypeOK`, `SyncedIsAligned`, `Realigns` | a sync is on a boundary while the flags outnumber the other 0x01 bytes; after the last disturbance frames are read whole for good |
| `boot` | `TypeOK`, `MinesInPhase`, `SearchIsComplete`, `Mines` | the search finds the phase from anywhere; a service on a working part ends up mining |
| `solo` | `TypeOK`, `RefusalExplained`, `FeeShare`, `TipFollowed` | a refused block is late, truncated or half-replaced and nothing else; the fee share; new blocks are followed |
| `targets` | `TypeOK`, `DivisionExact`, `ShareTarget`, `MissedAtMarginOnly` | the division divides, the share target is the pool's within half a unit of the difficulty, the prefilter hides the margin only |
| `pool_stall` (violated) | `ShareAlwaysNamesItsWork` | after a stalled upload a share is submitted as the item that was not sent |
| `pool_extranonce` (violated) | `ShareExtranonceCurrent` | a solution of the old extranonce1 is submitted after a rotation |
| `framing_buffer` (violated) | `HandBackFits` | the gap path hands back more than the mining loop's buffer holds |
| `solo_half` (violated) | `KeptIsSubmittable` | a template that fails half-way spoils the block of the one before it |

The violated properties are what comments in the code say; `PROJECT.json` quotes
them under `findings`.

### Bounds

`arb` has three cores (the smallest number at which a neighbour on either side can be
served first), three candidates per core and a drop counter that saturates at 1, so
that refill, drop and saturation all happen; frames of two bytes of two bits keep the
transmitter busy across several candidates.

`pool` has a fee interval of 2 and two values of the extranonce2 counter over an
extranonce2 space of two (so that it wraps and the developer has a turn), two eras (a
reconnect or a rotation) and two jobs for the user's session, one of each for the
developer's, rotations that fail half-way at any time, a candidate in flight across any
push, and stalls. `pool_live` has one era per session, five values of the counter, so
that the developer has two turns and a refused dev job, which uses two values, can
follow other items, and no candidates, which its properties do not involve; two
previous-block hashes tell the pools' blocks apart.

`session` has a back-off of 1, 2 and then 3 s (the cap, below twice 2), waits of up to 1 s
asked by the pool, two nameservers, two lines in flight, one share, submitted in any
state of the handshake once an item was built, and two faults and one move of the pool
anywhere: enough for a redirect that fails, a close behind unread lines, an answer
that overtakes a drop.

`framing` has frames of 3 bytes, a collection of 11 (three frames and a part, so that
the gap path can exceed the three frames the buffer holds), a FIFO of 2, shorter than
a frame as on the part, and three faults of any kind, as many as it takes to defeat
the bad-frame counter. Every starting position in a frame is an initial state.

`boot` has items of 3 and 2 bytes (as with 168 and 88, the longer is no multiple of the
shorter), every command line, every inherited phase, one fault and one kill.

`solo` has an interval of 2, three templates, one new tip besides the miner's own
blocks, two candidates of which one is in flight at a time, and two faults.

`targets` has 4-bit divisors over an 8-bit numerator, difficulties in quarters of the
divisor's unit (so that rounding goes up, down and to neither side), 16 top words, and every exponent
up to 4 and shift up to 2: all three branches of the compact target and bits lost past
its top occur.

`arb` and `targets` check for deadlock. The others do not, because those systems may
stop: a one-shot command of `boot` exits, `framing` ends where the code's behaviour is
undefined, and once the bounds are reached, or while a pool or node stays silent, the
host waits.

### Fairness

`arb`: the clock runs and the TX divider is free-running (`TxBaudGen` is not touched by
the receiver), so an edge with `txBitTime` always comes.

`pool_live`: weak fairness of `RollWork`, as the loop asks the source every five seconds,
and of `Age`, as time passes: without it a developer's item would never grow old enough
to be replaced. Nothing is assumed of the pools.
Stalls are excluded there: after a partial upload the loop has no step that realigns
the receive counter.

`session`: the loop polls in every pass, time passes, and a pool that is up answers the
handshake and announces a job. Faults are never fair, and are bounded: `ComesBack` says
what happens between and after them.

`framing`: the FPGA keeps sending and the loop keeps reading; deadlines are not assumed
to help.

`boot`: the program never waits without a time-out, the part transmits what it holds,
and the service manager restarts (`Restart=always`).

`solo`: the loop goes round, time passes, and the node answers. The last is an
assumption about the node: `rpc_call` sets no time-out.

## Proofs

All theorems hold for every value of the constants that satisfies the `ASSUME`s:
positive numbers of cores, bytes, bits, intervals and word sizes, non-empty sets, and
what the code fixes about its own sizes (`Least >= Grain`, as 1e-9 is more than four
units of 2^-32; `BackoffMin <= BackoffMax`; the Siacoin item
shorter than the Knots item and not half of it, as 88 and 168 are). The bounds of the
runs (faults, kills, templates, shares, lines in flight) are arbitrary naturals there.
Every invariant a passing run checks, and the refinement, has its theorem. TLC checked
each inductive invariant below on the run's instance before it was proved.

`ResultArbProofs`:
- `TypeCorrect` and `AirtimeExact` rest on `TxPhase`, which relates the bit times
  spent to the byte and bit counters in each transmitter state; the airtime of an
  idle transmitter is not inductive by itself.
- `NothingLostSilently` (`Conservation`, assuming the echo is not elaborated)
  needs that the arbiter grants exactly one core whenever it triggers the
  transmitter: `GrantUnique` and `GrantExists`, the latter by well-founded choice
  of the nearest valid slot.
- `OrderedFrames` is inductive with the types.
- `NoStarvation` strengthens `BoundedBypass` to `WalkLeft`: grants already missed
  plus the distance still to walk stay below the number of cores.
- `ArbImplementsChannel` is the refinement: `EdgeIsChannelStep` maps an edge to the
  channel's step with the reporting cores as producers and the granted core, if any, as
  the delivered one. It uses `GrantUnique` (at most one delivery) and the type
  invariant, and that the echo is not elaborated.

`PoolMinerProofs`:
- `PoolTypeCorrect`, one lemma per group of actions.
- `NothingStaleIsBuilt` (`ReadyIsCurrent`) from `FlagsVouch`: `subscribed` vouches
  for extranonce1 (the current one or a torn one), `have_job` for the job, and both imply an open socket. Without
  the last part a reconnect would break it.
- `SharesNameTheirWork` from `Paired`: unless the last push stalled, `g_cur` and
  `ctx` are the same item.
- `OnlyVoidDiscarded` from `JobsInOrder`: `g_cur`'s job was announced no later than
  the current one, and a clean current job is the newest clean one.
- `FeeLedgerBalances` (`DevFeeLedger`) from `DivStep` of `ArithmeticLemmas`, how a
  quotient changes when its dividend grows by one; the dev epochs are those skipped,
  mined and lost, and every epoch an item or a refusal. The status file shows dev epochs
  less the skipped ones, and cannot tell mined and lost apart.

`TargetsProofs`:
- `DivisionDivides` (`DivisionExact`): the loop invariant of long division, inductive
  with the types as long as twice the divisor fits the register (`InRange`). It is the
  statement that the bits not yet read do not matter.
- `ShareTargetIsClose` (`ShareTarget`): `ScaledIsNearest` encloses the difficulty by the
  divisor and half a unit, `RoundedDown` the dividend by the quotient, and
  `CloseToDifficulty` multiplies the two out at the end of the division. It assumes
  that the shift back cuts nothing (`RoomToShift`), which holds of the real diff1 because its top 32
  bits are zero and which TLC finds in every state.
- `TargetTypeCorrect` and `PrefilterHidesMargin`: the second is a fact about quotients,
  lifted to the specification through the types.

`StratumSessionProofs`, all from `SessionInv`, one lemma per action and conjunct:
- `SessionTypeCorrect`. The back-off doubles below its cap; the counters of verdicts
  have no bound of their own.
- `VerdictsAreAccounted` (`VerdictsAccounted`) is not inductive alone: a drop forgets
  what the pool still owes, so `Accounts` also says that the pool never owes more
  verdicts than there were shares submitted, and that lines wait for dispatch only on an open
  connection. The lines in flight are counted by the positions that hold them
  (`Count`), and each line written, read or dispatched moves one position.
- `BeliefsAreThisPools` (`BelievesThisPool`) needs `Vouched`: a positive answer still
  in the pipe or in `rx` is one the pool granted. Without it the answer could have
  been written for an earlier connection.
- `RedirectsDialledOnce` (`RedirectOnce`) is inductive with the types.

`FramingProofs`, from `FramingInv`:
- `Ends(q, d)` says that the bytes of `q` follow one another up to a byte at position
  `d`. `Tracked` says it of what `frame_sync` has collected and of the FIFO, `Lands`
  that the bytes still to discard end at the start of a frame, `Drains` that the
  assembler, the replayed bytes and the FIFO are three such runs, each behind the
  other, the first starting a frame. `SyncAligns` (`SyncedIsAligned`) follows by
  joining the three (`EndsConcat`).
- `Drains` is established three ways: after a gap the line is at position 0
  (`Phases`); a quiet line likewise; and after a lock by `BestIsFlag` (if the
  flags lead, the best column of the histogram is the flags', because by `BucketIsPlace`
  a column counts the bytes of one place in the frame) and `SkipLands` (the
  number of bytes to discard computed from it ends at a frame). The proof uses no bound
  on the collection, so it covers 17-byte frames and the code's buffers.
- `UnbrokenEnds`, that a FIFO without a break is one run, would be an induction over
  its length; it is proved from a least counterexample instead (`LeastElement`).
- `FramingTypeCorrect`: each phase stays within its own buffer.

`BootProofs`, from `BootInv`:
- `UploadInv` relates the receive counter to the bytes left of an upload: while an item
  goes into an aligned counter, the two add up to its length. `PhaseInv` says where a
  reply to the probe can come from: none is about before the counter is aligned, unless
  an earlier one was left over (`old`). `SearchFindsThePhase` (`MinesInPhase`) follows.
- `SearchNeverGivesUp` (`SearchIsComplete`) needs `SearchInv`: the counter is aligned or
  still ahead of the phases tried (`Ahead`), and each padding byte moves both by one,
  so the last phase cannot fail on a part that answers. It holds for all pairs of item
  lengths, not only the 3 and 2 of the run.
- `BootTypeCorrect`, with the gates of `main` treated as one kind of step (`GateStep`).

`SoloGbtProofs`:
- `RefusalsAreExplained` (`RefusalExplained`) from `BodyOfHeader`: unless a template
  failed half-way, the coinbase and transactions kept are those of the header that
  candidates are checked against, and a block being submitted was put together so. The
  header in the FPGA does not matter, because a candidate is checked first.
- `SoloFeeShare` (`FeeShare`) from `FeeLedger`: templates mined and lost add up to the
  counter, and the developer's part of both to its quotient by the interval; then as
  for the pool by `DivStep`.
- `SoloTypeCorrect`.

Only model-checked: the liveness properties `HeldIsSent`, `OperatorKeepsMining`,
`ComesBack`, `Realigns`, `Mines` and `TipFollowed` (fairness and `ENABLED` are beyond
the prover), and the violated properties, which are not theorems.

## Met on the way

Besides the violated runs, behaviour a maintainer may want to know of. First, where the
models follow the code and a comment says otherwise:

- `OspreyBlake2bTop.vhd:32` and `tb_result_arbiter.vhd:8` budget 170 bit times for a
  frame; the transmitter takes eleven per byte, 187 (`AirtimeExact`), which is what the
  1.62 ms of `miner.c:939` come from.
- `OspreyBlake2bUartTop.vhd:484` says no candidate is pending when the debug echo fires;
  the capture slots are not cleared by new work, and a candidate granted in that cycle
  is swallowed.
- `stratum.c:562` says a rotation drops the job with the extranonce; one that is not hex
  half-way leaves a ready session with a torn `extranonce1` (`Torn` in `ReadyIsCurrent`).
- `worksrc_stratum.c:226` says a replaced job's solution is dropped when the replacement
  was clean; only the newest job's flag is read, so a clean job followed by one that is
  not hides that older work is void.
- `worksrc_stratum.c:197` says the number in `status.json` is the dev jobs actually
  mined; a dev item whose upload stalled is counted (`made.lost` in `DevFeeLedger`).
- `worksrc_stratum.c:185` says an epoch counts only when work is about to be produced; a
  job the bitstream cannot mine counts one at every retry (`made.refused`).
- `miner.c:1854` says whole frames are replayed, counted back from the end; after a lock
  whose read was cut by its deadline the end is inside a frame, and every byte is
  replayed off its place until the bad-frame counter resynchronises (`Realigns`).
- `miner.c:1341` says a reproduced hash proves the receive phase; a result of the same
  probe left over from the right phase or an earlier boot passes at a wrong one
  (`old` in `MinesInPhase`).
- `stratum.c:221` wants the share check to agree with the pool's at the margin; a
  difficulty that rounds down to 32 fractional bits (0.7) gives a target above the
  pool's, by what `ShareTarget` allows.
- `stratum.c:235` says `bn_div_u64` divides by any divisor; above 2^63, a difficulty
  above 2^31, the bit shifted out of the remainder is lost (`InRange`).

Then, outside what a property states:

- `stratum.c:595` says of the port in `client.reconnect` "0/absent = same port"; a port
  of 0 is kept and dialled.
- `stratum.h:111` says polling never blocks for more than a few milliseconds; a poll that
  dials may take 8 s for the connect after 4 s for each nameserver.
- `stratum.c:341`: a cached address that stopped working is never resolved again; only a
  redirect clears it (`StaleAddress` in `ComesBack`). `stratum.c:399`: a pool that
  accepts and closes at once is redialled in every pass.
- `stratum.c:676`: the fill of the buffer is tested before any line is handled, so a
  burst of complete lines that fills it also ends the session.
- `miner.c:1662` says stratum decoding is graded "rather than only under --selftest
  stratum"; it runs under that option alone. A failed `selftest_uart` does not stop the
  boot. `--algo sia` without `--stratum` pushes 168-byte items to the 88-byte receiver
  (excluded by `Fits`).
- `miner.c:549`: more than 8192 transactions, or one that does not parse, end the walk
  silently; the block is built on the rest and cannot be accepted.
- `devfee.c:11` counts templates that are never mined; with an operator address that
  does not decode, only the developer's templates are.
- `worksrc.h:45` says `get_work` must not block; the solo source waits in `rpc_call`
  without a time-out.
- `stratum.c:265`: from a difficulty of 2^32 on the conversion is undefined, and a double
  does not hold the sum with 0.5 exactly from 2^20 on; the model stops before either.
- A target below 2^192 has a top word of zero, below which no hash lies: the core reports
  none.
- `stratum.c:303`: `send_line` retries at once while the socket's buffer is full, so a
  pool that stops reading holds the loop.
- `uio_uart.h:72`: after a stalled upload nothing in the mining loop realigns the receive
  counter; a restart does.

## Not modelled

- The rounds of BLAKE2b and SHA-256, bech32, the header and item layouts: byte
  functions, pinned by vectors in the self-tests, in which no order of events matters.
- The JSON scanner, the DNS packet parser, the status file and the log: parsing and I/O.
- The self-tests, testbenches and Python oracles were read for what they claim.

## Plan

1. A composition of `StratumSession` with `PoolMiner`, in which the session of the
   second is refined by the first.
2. A property about the job a session holds across `mining.set_extranonce`: with no
   rotation in flight it is one of the present extranonce1. `BelievesThisPool` says of a
   job only that it does not outlive its connection.
