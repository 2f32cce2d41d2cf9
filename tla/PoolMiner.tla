---------------------------- MODULE PoolMiner ----------------------------
(***************************************************************************)
(* Pool mining on the host: the two Stratum sessions, the work source that *)
(* turns a job into a work item (worksrc_stratum.c), the developer-fee     *)
(* schedule (devfee.c) and the part of the mining loop that pushes an item *)
(* over the UART and hands candidates back (miner.c).                      *)
(*                                                                         *)
(* The host is one polled loop, so every handler is atomic; what           *)
(* interleaves is which event comes next: a line from either pool, the     *)
(* work roll, a candidate that crossed the link some time after the core   *)
(* found it.                                                               *)
(***************************************************************************)
EXTENDS Stratum, FiniteSets

CONSTANTS
    DEVFEE_INTERVAL,  \* one item in this many is mined for the developer
    DevConfigured,    \* g_dev_configured
    EN2_SPACE,        \* number of extranonce2 values, 256 ^ en2_size
    TxMayStall,       \* whether uart_write can time out in these behaviours
    PrevHashes,       \* previous-block hashes a pool can announce
    MaxEra,           \* bound: connections and extranonce rotations, per session
    MaxSeq,           \* bound: jobs announced, per session
    MaxItems,         \* bound: values of the extranonce2 counter
    MaxInFlight,      \* bound: distinct items with a candidate on its way
    MaxCredit         \* bound: shares credited to the developer

Sessions == {"main", "dev"}

ASSUME IntervalAssumption == DEVFEE_INTERVAL \in Nat \ {0}
ASSUME En2Assumption      == EN2_SPACE \in Nat \ {0}
ASSUME BoundsAssumption   == /\ MaxEra \in [Sessions -> Nat]
                             /\ MaxSeq \in [Sessions -> Nat]
                             /\ MaxItems \in Nat
                             /\ MaxInFlight \in Nat
                             /\ MaxCredit \in Nat
ASSUME FlagsAssumption    == DevConfigured \in BOOLEAN /\ TxMayStall \in BOOLEAN
ASSUME PrevAssumption     == PrevHashes # {}

\* The sessions that are polled at all.
Polled == IF DevConfigured THEN Sessions ELSE {"main"}

NoItem  == [valid |-> FALSE]
Silence == [kind |-> "none"]

VARIABLES
    sess,       \* g_main and g_dev
    cur,        \* g_cur: what a candidate will be submitted as
    ctx,        \* the mining loop's ctx: what a candidate is verified against
    fpga,       \* the item the cores grind
    aligned,    \* the FPGA's receive counter is at an item boundary
    inflight,   \* candidates between the cores and the host, by their item
    en2ctr,     \* g_en2_counter
    last,       \* g_have_pushed, g_last_prevhash, and whether the push is old
    fee,        \* the pool counters of devfee.c
    said,       \* history: the share this step submitted, or the solution it discarded
    made,       \* history: what became of each epoch
    stalled,    \* history: the last push timed out
    cleaned     \* history: per session, the newest job announced as clean

work   == <<cur, ctx, fpga, aligned, inflight, en2ctr, last, fee>>
record == <<made, stalled, cleaned>>
vars   == <<sess, work, said, record>>

Init ==
    /\ sess = [x \in Sessions |-> NewSession(CHOOSE p \in PrevHashes : TRUE)]
    /\ cur = NoItem /\ ctx = NoItem /\ fpga = NoItem
    /\ aligned = TRUE /\ inflight = {} /\ en2ctr = 0
    /\ last = [pushed |-> FALSE, aged |-> FALSE]
    /\ fee = [jobs |-> 0, dev_jobs |-> 0, skipped |-> 0, shares |-> 0]
    /\ said = Silence
    /\ made = [main |-> 0, mined |-> 0, lost |-> 0, refused |-> 0]
    /\ stalled = FALSE
    /\ cleaned = [x \in Sessions |-> 0]

---------------------------------------------------------------------------
(* Pool events, delivered by st_poll. *)

Update(x, s) == sess' = [sess EXCEPT ![x] = s]

Silent == said' = Silence

Connect(x) ==
    /\ ~sess[x].fd /\ sess[x].era < MaxEra[x]
    /\ Update(x, Dialled(sess[x]))
    /\ Silent
    /\ UNCHANGED <<work, record>>

\* The pool closes, the socket fails, or the pool asks for a reconnect.
Disconnect(x) ==
    /\ sess[x].fd
    /\ Update(x, Drop(sess[x]))
    /\ Silent
    /\ UNCHANGED <<work, record>>

\* The pool answers each request of the handshake: extranonce2_size in range
\* or not, extranonce1 torn or not, the worker accepted or not. An answer
\* that is malformed in any other way changes nothing.
SubscribeReply(x) ==
    /\ sess[x].fd /\ ~sess[x].subscribed
    /\ \/ Update(x, OnSubscribe(sess[x]))
       \/ Update(x, OnSubscribeBadSize(sess[x]))
       \/ Update(x, OnSubscribeBadHex(sess[x]))
    /\ Silent
    /\ UNCHANGED <<work, record>>

AuthorizeReply(x) ==
    /\ sess[x].fd /\ ~sess[x].authorized
    /\ \E ok \in BOOLEAN : Update(x, OnAuthorize(sess[x], ok))
    /\ Silent
    /\ UNCHANGED <<work, record>>

Notify(x) ==
    /\ sess[x].fd /\ sess[x].job.seq < MaxSeq[x]
    /\ \E prev \in PrevHashes, clean, fits \in BOOLEAN :
          /\ Update(x, OnNotify(sess[x], prev, clean, fits))
          /\ cleaned' = IF clean THEN [cleaned EXCEPT ![x] = sess[x].job.seq + 1] ELSE cleaned
    /\ Silent
    /\ UNCHANGED <<work, made, stalled>>

\* The pool rotates the extranonce.
SetExtranonce(x) ==
    /\ sess[x].fd /\ sess[x].era < MaxEra[x]
    /\ Update(x, OnSetExtranonce(sess[x]))
    /\ Silent
    /\ UNCHANGED <<work, record>>

\* The pool rotates it with a value that is not hex throughout. (One that is
\* refused before its first byte is decoded changes nothing.)
SetExtranonceBad(x) ==
    /\ sess[x].fd
    /\ Update(x, OnSetExtranonceBad(sess[x]))
    /\ Silent
    /\ UNCHANGED <<work, record>>

---------------------------------------------------------------------------
(* Rolling work: st_get_work, build_from, and the push in the mining loop. *)

\* MUTANT: mining waits for the developer's pool as well.
WorkWantedNeedsDev ==
    /\ \A x \in Polled : Ready(sess[x])
    /\ last.pushed => (last.aged \/ last.prev # sess["main"].job.prev)

\* A push is worth its cost: a new block, or the last push is old.
WorkWanted ==
    /\ Ready(sess["main"])
    /\ last.pushed => (last.aged \/ last.prev # sess["main"].job.prev)

WantDev == (fee.jobs + 1) % DEVFEE_INTERVAL = 0

\* build_from(&g_dev) is attempted, and succeeds.
TryDev  == WantDev /\ DevConfigured /\ Ready(sess["dev"])
FromDev == TryDev /\ sess["dev"].job.fits

Source == IF FromDev THEN "dev" ELSE "main"

\* Each attempt to build rolls g_en2_counter, the refused one too.
RolledEn2 == en2ctr + IF TryDev /\ ~FromDev THEN 2 ELSE 1

\* MUTANT: a dev epoch that fell back to the user's job is not recorded.
EpochNoSkip ==
    [fee EXCEPT !.jobs = @ + 1,
                !.dev_jobs = IF WantDev THEN @ + 1 ELSE @,
                !.skipped = IF WantDev /\ ~DevConfigured THEN @ + 1 ELSE @]

\* devfee_pool_epoch, and devfee_pool_skip when the epoch is not honoured.
Epoch ==
    [fee EXCEPT !.jobs = @ + 1,
                !.dev_jobs = IF WantDev THEN @ + 1 ELSE @,
                !.skipped = IF WantDev /\ ~FromDev THEN @ + 1 ELSE @]

\* MUTANT: the counter is not cut to the pool's extranonce2_size.
En2Whole == RolledEn2

\* The low en2_size bytes of the counter.
En2 == RolledEn2 % EN2_SPACE

\* What build_from makes of a session's job; prev is the block it extends.
Item(x) ==
    [valid |-> TRUE, sess |-> x, seq |-> sess[x].job.seq, en1 |-> sess[x].en1,
     en2 |-> En2, prev |-> sess[x].job.prev]

\* uart_wait_quiet discards what has reached the host; what is still in the
\* capture slots or on the wire arrives after the push.
DiscardInput == inflight' \in SUBSET inflight

\* uart_write completes: the receive counter wraps, and the item latched is
\* this one only if the counter was at an item boundary. Of a mixed item no
\* candidate ever verifies, so it stands as no item.
TxDone(item) ==
    /\ ctx' = item
    /\ fpga' = IF aligned THEN item ELSE NoItem
    /\ stalled' = FALSE
    /\ UNCHANGED aligned

\* uart_write times out after part of the item: the counter is left anywhere,
\* and if it was rotated already it may have wrapped on a mixed item.
TxStalled ==
    /\ TxMayStall
    /\ UNCHANGED ctx
    /\ fpga' \in (IF aligned THEN {fpga} ELSE {fpga, NoItem})
    /\ aligned' \in BOOLEAN
    /\ stalled' = TRUE

\* A dev item is mined when its upload completes on a receiver that is at an
\* item boundary, and lost otherwise.
Made ==
    [made EXCEPT !.main  = @ + IF FromDev THEN 0 ELSE 1,
                 !.mined = @ + IF FromDev /\ ~stalled' /\ aligned THEN 1 ELSE 0,
                 !.lost  = @ + IF FromDev /\ (stalled' \/ ~aligned) THEN 1 ELSE 0]

RollWork ==
    /\ WorkWanted
    /\ RolledEn2 <= MaxItems
    /\ sess[Source].job.fits
    /\ en2ctr' = RolledEn2
    /\ fee' = Epoch
    /\ cur' = Item(Source)
    /\ last' = [pushed |-> TRUE, aged |-> FALSE, prev |-> sess["main"].job.prev]
    /\ DiscardInput
    /\ TxDone(Item(Source)) \/ TxStalled
    /\ made' = Made
    /\ Silent
    /\ UNCHANGED <<sess, cleaned>>

\* The main job cannot be laid out for this bitstream: get_work fails after
\* the epoch was counted and the counter rolled.
RollRefused ==
    /\ WorkWanted
    /\ RolledEn2 <= MaxItems
    /\ ~sess[Source].job.fits
    /\ en2ctr' = RolledEn2
    /\ fee' = Epoch
    /\ made' = [made EXCEPT !.refused = @ + 1]
    /\ Silent
    /\ UNCHANGED <<sess, cur, ctx, fpga, aligned, inflight, last, stalled, cleaned>>

\* PUSH_MAX_AGE_S pass.
Age ==
    /\ last.pushed /\ ~last.aged
    /\ last' = [last EXCEPT !.aged = TRUE]
    /\ Silent
    /\ UNCHANGED <<sess, cur, ctx, fpga, aligned, inflight, en2ctr, fee, record>>

---------------------------------------------------------------------------
(* Candidates: the cores find one, it crosses the link, st_on_candidate. *)

Find ==
    /\ fpga.valid
    /\ Cardinality(inflight \cup {fpga}) <= MaxInFlight
    /\ inflight' = inflight \cup {fpga}
    /\ Silent
    /\ UNCHANGED <<sess, cur, ctx, fpga, aligned, en2ctr, last, fee, record>>

\* Lost on the way, or not verified against ctx, or short of the share
\* target, or its session is down: nothing is sent.
CandidateIgnored(c) ==
    /\ inflight' = inflight \ {c}
    /\ Silent
    /\ UNCHANGED <<sess, cur, ctx, fpga, aligned, en2ctr, last, fee, record>>

\* MUTANT: any newer job makes a solution stale, as before .clean was read.
StaleOnAnyJob == cur.seq # sess[cur.sess].job.seq

\* The pool has replaced the job, and the job it has now is a clean one.
Stale == cur.seq # sess[cur.sess].job.seq /\ sess[cur.sess].job.clean

\* The pool has announced, since this job, that older jobs are void.
Void(x, seq) == cleaned[x] > seq

\* c hashes to what the frame says (the software recomputes it from ctx) and
\* meets the share target.
Solution(c) == c = ctx /\ cur.valid

DiscardStale(c) ==
    /\ Solution(c) /\ Stale
    /\ inflight' = inflight \ {c}
    /\ said' = [kind |-> "discard", void |-> Void(cur.sess, cur.seq)]
    /\ UNCHANGED <<sess, cur, ctx, fpga, aligned, en2ctr, last, fee, record>>

\* MUTANT: the share is credited by the epoch that is running, not by the
\* work it was found on.
CreditByEpoch == fee.jobs % DEVFEE_INTERVAL = 0

\* devfee_pool_credit is called for a share of a dev item.
Credit == cur.sess = "dev"

SubmitShare(c) ==
    /\ Solution(c) /\ ~Stale /\ sess[cur.sess].fd
    /\ Credit => fee.shares < MaxCredit
    /\ inflight' = inflight \ {c}
    /\ fee' = [fee EXCEPT !.shares = IF Credit THEN @ + 1 ELSE @]
    /\ said' = [kind |-> "share", sess |-> cur.sess, seq |-> cur.seq, en2 |-> cur.en2,
                found |-> c, credited |-> Credit,
                en1 |-> sess[cur.sess].en1]
    /\ UNCHANGED <<sess, cur, ctx, fpga, aligned, en2ctr, last, record>>

\* send() fails: the session is dropped and the share is not counted.
SubmitFails(c) ==
    /\ Solution(c) /\ ~Stale /\ sess[cur.sess].fd
    /\ inflight' = inflight \ {c}
    /\ Update(cur.sess, Drop(sess[cur.sess]))
    /\ Silent
    /\ UNCHANGED <<cur, ctx, fpga, aligned, en2ctr, last, fee, record>>

---------------------------------------------------------------------------

PoolEvent(x) ==
    \/ Connect(x) \/ Disconnect(x) \/ SubscribeReply(x) \/ AuthorizeReply(x)
    \/ Notify(x) \/ SetExtranonce(x) \/ SetExtranonceBad(x)

Next ==
    \/ \E x \in Polled : PoolEvent(x)
    \/ RollWork \/ RollRefused \/ Age \/ Find
    \/ \E c \in inflight : \/ CandidateIgnored(c) \/ DiscardStale(c)
                           \/ SubmitShare(c) \/ SubmitFails(c)

Spec == Init /\ [][Next]_vars

\* The loop asks the source for work every refresh_s = 5 seconds, and time
\* passes.
FairSpec == Spec /\ WF_vars(RollWork) /\ WF_vars(Age)

---------------------------------------------------------------------------
(* Properties *)

Jobs == [seq : Nat, prev : PrevHashes, clean : BOOLEAN, fits : BOOLEAN, era : Nat]

Extranonces == Nat \cup {Torn}

SessionType ==
    [fd : BOOLEAN, subscribed : BOOLEAN, authorized : BOOLEAN, have_job : BOOLEAN,
     en1 : Extranonces, era : Nat, job : Jobs]

Items == [valid : {TRUE}, sess : Sessions, seq : Nat, en1 : Extranonces,
          en2 : 0 .. EN2_SPACE - 1, prev : PrevHashes]

Pushes == [pushed : {FALSE}, aged : {FALSE}]
          \cup [pushed : {TRUE}, aged : BOOLEAN, prev : PrevHashes]

Sayings == {Silence} \cup [kind : {"discard"}, void : BOOLEAN]
           \cup [kind : {"share"}, sess : Sessions, seq : Nat, en2 : 0 .. EN2_SPACE - 1,
                 found : Items, credited : BOOLEAN, en1 : Extranonces]

Outcomes == [main : Nat, mined : Nat, lost : Nat, refused : Nat]

\* The type of every variable; with it, the mining loop never verifies a
\* candidate (ctx) before a source item (g_cur) exists.
TypeOK ==
    /\ sess \in [Sessions -> SessionType]
    /\ cur \in Items \cup {NoItem}
    /\ ctx \in Items \cup {NoItem}
    /\ fpga \in Items \cup {NoItem}
    /\ (ctx.valid => cur.valid)
    /\ aligned \in BOOLEAN
    /\ inflight \subseteq Items
    /\ en2ctr \in Nat
    /\ last \in Pushes
    /\ fee \in [jobs : Nat, dev_jobs : Nat, skipped : Nat, shares : Nat]
    /\ said \in Sayings
    /\ made \in Outcomes
    /\ stalled \in BOOLEAN
    /\ cleaned \in [Sessions -> Nat]

\* The session, job and extranonce2 a share names, and the account it is
\* credited to, are those of the item its solution was found on.
NamesItsWork(s) ==
    /\ s.sess = s.found.sess
    /\ s.seq = s.found.seq
    /\ s.en2 = s.found.en2
    /\ s.credited <=> (s.found.sess = "dev")

\* Whatever was pushed or announced while a candidate crossed the link, its
\* share names the work it was found on: g_cur and ctx describe one item. A
\* push that timed out breaks this, but only until the next one completes.
ShareNamesItsWork == said.kind = "share" /\ ~stalled => NamesItsWork(said)

\* A session that is ready to build from holds nothing of an earlier
\* assignment: neither a job nor an extranonce1 of a dropped connection, or of
\* before a mining.set_extranonce, is mined. What it may hold instead of the
\* assigned extranonce1 is one that a malformed mining.set_extranonce tore.
ReadyIsCurrent ==
    \A x \in Sessions :
        Ready(sess[x]) => /\ sess[x].en1 \in {sess[x].era, Torn}
                          /\ sess[x].job.era = sess[x].era

\* One epoch in DEVFEE_INTERVAL is the developer's, and each of those is
\* reported as skipped, or was mined, or was lost with its upload: the number
\* in status.json, dev_jobs less skipped, counts the lost ones too, though the
\* comment on devfee_pool_skip says "actually mined". And every epoch made one
\* item or was refused by the bitstream's layout, where the comment on
\* devfee_pool_epoch counts one "only when work is actually about to be
\* produced".
DevFeeLedger ==
    /\ fee.dev_jobs = fee.jobs \div DEVFEE_INTERVAL
    /\ fee.dev_jobs = fee.skipped + made.mined + made.lost
    /\ fee.jobs = made.main + made.mined + made.lost + made.refused

\* A solution is discarded as stale only if the pool has really voided its
\* job; clean_jobs = false alone never costs a share.
NoLiveShareDiscarded == said.kind = "discard" => said.void

\* The operator's pool has work for the cores, and the model's counter is not
\* exhausted.
OperatorHasWork ==
    /\ Ready(sess["main"]) /\ sess["main"].job.fits
    /\ en2ctr + 2 <= MaxItems

\* The cores grind an item of the operator's pool, on the block it announced.
OperatorMines ==
    fpga.valid /\ fpga.sess = "main" /\ fpga.prev = sess["main"].job.prev

\* A developer pool that is down, slow or sends unusable jobs never stops the
\* operator, and a developer's item does not keep the cores: as long as the
\* operator's pool has work, the cores come to grind it.
OperatorKeepsMining == OperatorHasWork ~> (OperatorMines \/ ~OperatorHasWork)

---------------------------------------------------------------------------
(* What the invariants above rest on, for the proofs. *)

\* Unless the last push stalled, g_cur and ctx describe the same item.
Paired == ~stalled => cur = ctx

\* The flags of a session vouch for its extranonce1 and its job.
Vouches(s) ==
    /\ s.subscribed => s.fd /\ s.en1 \in {s.era, Torn}
    /\ s.have_job => s.fd /\ s.job.era = s.era

FlagsVouch == \A x \in Sessions : Vouches(sess[x])

\* g_cur comes from a job already announced, and a clean current job is the
\* newest clean one.
JobsInOrder ==
    /\ cur.valid => cur.seq <= sess[cur.sess].job.seq
    /\ \A x \in Sessions : sess[x].job.clean => cleaned[x] = sess[x].job.seq

---------------------------------------------------------------------------
(* What comments in the code say and the code does not do. *)

\* stratum.c on mining.set_extranonce: the rotation "invalidates every
\* in-flight work item, so the job is dropped too". A share found on the old
\* extranonce1 is not submitted. (What tears extranonce1 is not a rotation.)
ShareExtranonceCurrent ==
    said.kind = "share" /\ said.en1 # Torn => said.found.en1 = said.en1

\* worksrc_stratum.c on g_cur: it is "what the current work item was built
\* from, so a candidate can be submitted to the right session with the right
\* job", with no exception for a push that failed.
ShareAlwaysNamesItsWork == said.kind = "share" => NamesItsWork(said)

====
