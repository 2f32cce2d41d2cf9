----------------------------- MODULE SoloGbt -----------------------------
(***************************************************************************)
(* Solo mining: the gbt and synthetic work sources of miner.c, the block   *)
(* material they keep (g_tpl, g_gbt_hdr), the developer's templates of     *)
(* devfee.c, and the node they talk to with blocking RPC calls.            *)
(*                                                                         *)
(* A template response is known by a number.  The coinbase of a template   *)
(* carries devfee_templates_total() as its extranonce, so it is known by   *)
(* that count; the raw transactions are known by the response they were    *)
(* copied from and by whether the walk copied all of them.  A header is    *)
(* the block it builds on and the coinbase and transactions its merkle     *)
(* root commits to; hashing is injective on them.  The link is the one of  *)
(* PoolMiner: a push replaces the item the cores grind, or stalls.         *)
(***************************************************************************)
EXTENDS Integers, Sequences

CONSTANTS
    DEVFEE_INTERVAL,  \* one template in this many is the developer's (20)
    MaxTemplates,     \* bound: templates a coinbase was begun for
    MaxTips,          \* bound: blocks the rest of the network adds
    MaxFound,         \* bound: candidates in a behaviour
    MaxWire,          \* bound: candidates between the cores and the loop
    MaxFaults         \* bound: bad answers and stalled uploads

ASSUME IntervalAssumption == DEVFEE_INTERVAL \in Nat \ {0}
ASSUME BoundsAssumption ==
    {MaxTemplates, MaxTips, MaxFound, MaxWire, MaxFaults} \subseteq Nat

VARIABLES
    conf,       \* the command line, fixed: source, dry_run, target, address
    pc,         \* where the mining loop is: "loop", or blocked in an rpc_call
    due,        \* refresh_s have passed since the last roll
    have_work,  \* have_work of main
    total,      \* g_total: templates a payout was chosen for
    tpl,        \* g_tpl: coinbase and transactions kept for submission
    gbt_hdr,    \* g_gbt_hdr: the header candidates are checked against
    fpga,       \* the header of the item the cores grind
    aligned,    \* the FPGA's receive counter is at an item boundary
    wire,       \* candidates between the cores and the loop
    tip,        \* the node's best block
    block,      \* the block of the submitblock call in progress
    refused,    \* history: the block the node's last verdict turned down
    half,       \* history: a template failed after g_tpl had been touched
    fee,        \* history: payees of the templates pushed and of the others
    found,      \* history: candidates so far
    faults      \* faults so far

work  == <<conf, have_work, total, tpl, gbt_hdr, fpga, aligned, half, fee>>
links == <<wire, found>>
chain == <<tip, block, refused>>
vars  == <<pc, due, work, links, chain, faults>>

---------------------------------------------------------------------------

NoTxs    == [resp |-> 0, whole |-> TRUE]
NoHeader == [prev |-> 0, cb |-> 0, txs |-> NoTxs]
NoBlock  == [hdr |-> NoHeader, cb |-> 0, txs |-> NoTxs, half |-> FALSE, late |-> FALSE]

\* The command line: --synthetic, --dry-run, a --target-shift that is the
\* network's or not, and a payout address that decodes, does not, or is absent.
Configurations ==
    [synthetic : BOOLEAN, dry_run : BOOLEAN, mainnet : BOOLEAN,
     address : {"good", "bad", "none"}]

Init ==
    /\ conf \in Configurations
    /\ pc = "loop" /\ due = TRUE /\ have_work = FALSE
    /\ total = 0
    /\ tpl = [cb |-> 0, txs |-> NoTxs, valid |-> FALSE]
    /\ gbt_hdr = NoHeader /\ fpga = NoHeader
    /\ aligned = TRUE /\ wire = <<>>
    /\ tip = 1 /\ block = NoBlock /\ refused = NoBlock
    /\ half = FALSE
    /\ fee = [mined |-> 0, dev |-> 0, lost |-> 0, lostDev |-> 0]
    /\ found = 0 /\ faults = 0

---------------------------------------------------------------------------
(* The developer's fee: devfee_next_payout. *)

\* MUTANT of IsDev: the counter is looked at before it is advanced.
IsDevEarly(n) == (n - 1) % DEVFEE_INTERVAL = 0

IsDev(n) == n % DEVFEE_INTERVAL = 0

\* The address paid decodes: the developer's always, the operator's if it is
\* well formed; a missing one falls back to the developer's.
Payable(n) == IsDev(n) \/ conf.address # "bad"

---------------------------------------------------------------------------
(* The push of main(): pack, quiet gate, uart_write. *)

Fault == faults < MaxFaults /\ faults' = faults + 1

\* The quiet gate discards what is in the receiver; a candidate that comes
\* while the item is uploaded, or a gate that times out, leaves it.
DiscardInput == wire' \in {<<>>, wire}

\* Of an item received across an old boundary no candidate ever verifies.
Loaded(h) == IF aligned THEN h ELSE NoHeader

Account(n, pushed) ==
    fee' = [fee EXCEPT
        !.mined   = @ + IF pushed THEN 1 ELSE 0,
        !.dev     = @ + IF pushed /\ IsDev(n) THEN 1 ELSE 0,
        !.lost    = @ + IF pushed THEN 0 ELSE 1,
        !.lostDev = @ + IF ~pushed /\ IsDev(n) THEN 1 ELSE 0]

TxDone(h) ==
    /\ fpga' = Loaded(h)
    /\ have_work' = TRUE
    /\ UNCHANGED <<aligned, faults>>

TxStalled ==
    /\ Fault
    /\ fpga' \in (IF aligned THEN {fpga} ELSE {fpga, NoHeader})
    /\ aligned' \in BOOLEAN
    /\ UNCHANGED have_work

\* gbt_build stores the header before the loop uploads the item.
GbtHeader(h) == gbt_hdr' = h

---------------------------------------------------------------------------
(* get_work.  The loop asks when it has no work or refresh_s have passed,  *)
(* and stays in rpc_call until the node has answered and closed.           *)

\* MUTANT of RollDue: work is asked for once and never refreshed.
RollDueOnce == pc = "loop" /\ ~have_work

RollDue == pc = "loop" /\ (~have_work \/ due)

AskTemplate ==
    /\ RollDue /\ ~conf.synthetic
    /\ pc' = "getblocktemplate"
    /\ UNCHANGED <<due, work, links, chain, faults>>

\* synthetic_template: local work, no node and no block to submit. Nothing is
\* ever submitted from it, so its rolls are not told apart.
Local == [NoHeader EXCEPT !.txs = [resp |-> 0, whole |-> FALSE]]

Synthetic ==
    /\ RollDue /\ conf.synthetic
    /\ due' = FALSE
    /\ GbtHeader(Local)
    /\ TxDone(Local) \/ TxStalled
    /\ DiscardInput
    /\ UNCHANGED <<pc, conf, total, tpl, half, fee, found, chain>>

\* What every end of get_template leaves: last_template = t.
Answered ==
    /\ pc = "getblocktemplate"
    /\ pc' = "loop" /\ due' = FALSE

\* No connection, a truncated body, a field that is missing or malformed:
\* nothing of the template kept so far is touched.
GbtFails ==
    /\ Answered
    /\ Fault
    /\ UNCHANGED <<work, links, chain>>

\* The response this one is, among all of them.
Resp == total + faults + 1

\* The transactions do not fit the block buffer: the list has been cleared
\* and partly refilled when get_template gives up.
TooLarge ==
    /\ Answered
    /\ Fault
    /\ tpl' = [tpl EXCEPT !.txs = [resp |-> Resp, whole |-> FALSE]]
    /\ half' = TRUE
    /\ UNCHANGED <<conf, have_work, total, gbt_hdr, fpga, aligned, fee, links, chain>>

\* coinbase_build refuses the address, or the node's witness commitment (a
\* fault): the payout was counted, the coinbase wiped, the list replaced.
BadCoinbase ==
    /\ Answered
    /\ total < MaxTemplates
    /\ total' = total + 1
    /\ IF Payable(total + 1) THEN Fault ELSE UNCHANGED faults
    /\ tpl' = [tpl EXCEPT !.cb = 0, !.txs = [resp |-> Resp, whole |-> TRUE]]
    /\ half' = TRUE
    /\ Account(total + 1, FALSE)
    /\ UNCHANGED <<conf, have_work, gbt_hdr, fpga, aligned, links, chain>>

\* MUTANT of Keep: the walk appends to the transactions of the last template.
KeepOldTxs(n, txs) ==
    tpl' = [cb |-> n,
            txs |-> IF tpl.valid THEN tpl.txs ELSE txs, valid |-> TRUE]

\* MUTANT of Keep: the coinbase is built with the count of the next template.
KeepNext(n, txs) == tpl' = [cb |-> n + 1, txs |-> txs, valid |-> TRUE]

\* The block material of a template that was built.
Keep(n, txs) == tpl' = [cb |-> n, txs |-> txs, valid |-> TRUE]

\* The template becomes a header, the header an item. More than TPL_MAX_TX
\* transactions, or an entry that does not parse, end the walk silently.
Built(whole) ==
    LET n   == total + 1
        txs == [resp |-> Resp, whole |-> whole]
        h   == [prev |-> tip, cb |-> n, txs |-> txs]
    IN  /\ Answered
        /\ n <= MaxTemplates
        /\ Payable(n)
        /\ total' = n
        /\ Keep(n, txs)
        /\ half' = FALSE
        /\ GbtHeader(h)
        /\ \/ TxDone(h) /\ Account(n, TRUE)
           \/ TxStalled /\ Account(n, FALSE)
        /\ DiscardInput
        /\ UNCHANGED <<conf, found, chain>>

Template ==
    \/ GbtFails \/ TooLarge \/ BadCoinbase
    \/ \E whole \in BOOLEAN : Built(whole)

\* refresh_s pass.
Age ==
    /\ have_work /\ ~due
    /\ due' = TRUE
    /\ UNCHANGED <<pc, work, links, chain, faults>>

---------------------------------------------------------------------------
(* Candidates. *)

\* A core reports a candidate; wins says whether it meets the network's
\* target and not only the one the item carried.
Find(wins) ==
    /\ have_work
    /\ found < MaxFound /\ Len(wire) < MaxWire
    /\ found' = found + 1
    /\ wire' = Append(wire, [hdr |-> fpga, wins |-> wins])
    /\ UNCHANGED <<pc, due, work, chain, faults>>

\* The loop is blocked in rpc_call: a frame is longer than the FIFO, so what
\* arrives now may be lost.
Overrun ==
    /\ pc # "loop" /\ wire # <<>>
    /\ wire' = Tail(wire)
    /\ UNCHANGED <<pc, due, work, found, chain, faults>>

\* gbt_on_candidate: the reported word is recomputed from g_gbt_hdr, so a
\* candidate of any other item is bad.
Verified(c) == c.hdr = gbt_hdr

\* It meets the network's target, submission is on and the item carried the
\* network's target itself.
Submits(c) == Verified(c) /\ c.wins /\ ~conf.dry_run /\ conf.mainnet

\* Bad, short of the target, not to be submitted, or no template is held.
CandidateKept ==
    /\ pc = "loop" /\ wire # <<>>
    /\ Submits(Head(wire)) => ~tpl.valid
    /\ wire' = Tail(wire)
    /\ UNCHANGED <<pc, due, work, found, chain, faults>>

\* block_serialize: the winning header and the body g_tpl holds now.
Serialised ==
    [hdr |-> gbt_hdr, cb |-> tpl.cb, txs |-> tpl.txs, half |-> half, late |-> FALSE]

submit_block ==
    /\ pc = "loop" /\ wire # <<>>
    /\ Submits(Head(wire)) /\ tpl.valid
    /\ wire' = Tail(wire)
    /\ block' = Serialised
    /\ pc' = "submitblock"
    /\ UNCHANGED <<due, work, found, tip, refused, faults>>

---------------------------------------------------------------------------
(* The node. *)

\* The body is the one the header commits to, all of the template's
\* transactions are there, and the block extends the best one.
Valid(b) ==
    /\ <<b.cb, b.txs>> = <<b.hdr.cb, b.hdr.txs>>
    /\ b.txs.whole
    /\ b.hdr.prev = tip

Judged == pc = "submitblock" /\ pc' = "loop" /\ block' = NoBlock

Accept ==
    /\ Judged
    /\ Valid(block)
    /\ tip' = tip + 1
    /\ UNCHANGED <<due, work, links, refused, faults>>

Refuse ==
    /\ Judged
    /\ ~Valid(block)
    /\ refused' = [block EXCEPT !.late = block.hdr.prev # tip]
    /\ UNCHANGED <<due, work, links, tip, faults>>

\* The submitblock call fails: the block is not offered again.
SubmitLost ==
    /\ Judged
    /\ Fault
    /\ UNCHANGED <<due, work, links, tip, refused>>

\* Another miner's block.
NewTip ==
    /\ tip < MaxTips
    /\ tip' = tip + 1
    /\ UNCHANGED <<pc, due, work, links, block, refused, faults>>

---------------------------------------------------------------------------

Next ==
    \/ AskTemplate \/ Synthetic \/ Template \/ Age
    \/ \E wins \in BOOLEAN : Find(wins)
    \/ Overrun \/ CandidateKept \/ submit_block
    \/ Accept \/ Refuse \/ SubmitLost \/ NewTip

Spec == Init /\ [][Next]_vars

\* The loop goes round, seconds pass, and the node answers the calls it has
\* taken (rpc_call itself waits for ever: it sets no time-out).
FairSpec ==
    /\ Spec
    /\ WF_vars(AskTemplate \/ Synthetic)
    /\ WF_vars(Template)
    /\ WF_vars(Age)
    /\ WF_vars(CandidateKept \/ submit_block)
    /\ WF_vars(Accept \/ Refuse)

---------------------------------------------------------------------------
(* Properties *)

Txs     == [resp : Nat, whole : BOOLEAN]
Headers == [prev : Nat, cb : Nat, txs : Txs]
Blocks  == [hdr : Headers, cb : Nat, txs : Txs, half : BOOLEAN, late : BOOLEAN]

\* The variables keep their shape; the coinbase kept is one of a template
\* whose payout was chosen.
TypeOK ==
    /\ conf \in Configurations
    /\ pc \in {"loop", "getblocktemplate", "submitblock"}
    /\ due \in BOOLEAN /\ have_work \in BOOLEAN /\ aligned \in BOOLEAN
    /\ total \in 0 .. MaxTemplates
    /\ tpl \in [cb : 0 .. total, txs : Txs, valid : BOOLEAN]
    /\ gbt_hdr \in Headers /\ fpga \in Headers
    /\ wire \in Seq([hdr : Headers, wins : BOOLEAN])
    /\ tip \in Nat
    /\ block \in Blocks /\ refused \in Blocks
    /\ half \in BOOLEAN
    /\ fee \in [mined : Nat, dev : Nat, lost : Nat, lostDev : Nat]
    /\ found \in Nat /\ faults \in Nat

\* A block the node turns down was late, or lacked transactions the walk had
\* skipped, or was put together after a later template had failed half-way:
\* in every other case the body is the one its header was mined for, however
\* pushes stall, candidates lag behind and templates fail.
RefusalExplained ==
    refused # NoBlock => refused.late \/ ~refused.txs.whole \/ refused.half

\* The same without the half-way excuse, as g_tpl's comment has it: "kept so
\* a winning nonce can be turned into a submittable block".
KeptIsSubmittable ==
    refused # NoBlock => refused.late \/ ~refused.txs.whole

\* The fee is one template in DEVFEE_INTERVAL of those a payout was chosen
\* for; templates that failed after that, or stalled on the link, count too,
\* so of the ones mined the share is exact only when none was lost.
FeeShare ==
    /\ fee.dev + fee.lostDev = (fee.mined + fee.lost) \div DEVFEE_INTERVAL
    /\ fee.lost = 0 => fee.dev = fee.mined \div DEVFEE_INTERVAL

\* A new best block is followed: the cores come to grind on it, unless it is
\* itself replaced, the receiver was left rotated by a stalled upload, or the
\* bound on templates is reached.
TipFollowed ==
    \A n \in 1 .. MaxTips :
        (tip = n /\ ~conf.synthetic) ~>
            (tip # n \/ ~aligned \/ total = MaxTemplates \/ fpga.prev = n)

====
