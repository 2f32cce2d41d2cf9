-------------------------- MODULE SoloGbtProofs --------------------------
(***************************************************************************)
(* Proofs about solo mining, for every fee interval, any number of         *)
(* templates, blocks of the network, candidates, bad answers and stalled   *)
(* uploads.                                                                *)
(***************************************************************************)
EXTENDS SoloGbt, ArithmeticLemmas, TLAPS

USE IntervalAssumption, BoundsAssumption

Tpls       == [cb : 0 .. total, txs : Txs, valid : BOOLEAN]
Candidates == [hdr : Headers, wins : BOOLEAN]
Fees       == [mined : Nat, dev : Nat, lost : Nat, lostDev : Nat]

---------------------------------------------------------------------------
(* Type correctness. *)

\* The values the variables start from.
LEMMA ConstantsTyped ==
    /\ NoTxs \in Txs /\ NoHeader \in Headers /\ NoBlock \in Blocks
    /\ Local \in Headers
<1>1. NoTxs \in Txs /\ [resp |-> 0, whole |-> FALSE] \in Txs
  BY DEF NoTxs, Txs
<1>2. NoHeader \in Headers
  BY <1>1 DEF NoHeader, Headers
<1>3. NoBlock \in Blocks
  BY <1>1, <1>2 DEF NoBlock, Blocks
<1>4. Local \in Headers
  BY <1>1, <1>2 DEF Local, Headers
<1> QED
  BY <1>1, <1>2, <1>3, <1>4

\* What a push, done or stalled, does to the variables it writes.
LEMMA PushTyped ==
    ASSUME TypeOK, NEW h \in Headers, TxDone(h) \/ TxStalled
    PROVE  /\ fpga' \in Headers /\ aligned' \in BOOLEAN
           /\ have_work' \in BOOLEAN /\ faults' \in Nat
<1>1. CASE TxDone(h)
  BY <1>1, ConstantsTyped DEF TxDone, Loaded, TypeOK
<1>2. CASE TxStalled
  <2>1. fpga' \in {fpga, NoHeader}
    BY <1>2 DEF TxStalled
  <2>2. fpga' \in Headers
    BY <2>1, ConstantsTyped DEF TypeOK
  <2>3. faults' \in Nat
    BY <1>2 DEF TxStalled, Fault, TypeOK
  <2>4. aligned' \in BOOLEAN /\ have_work' \in BOOLEAN
    BY <1>2, Zenon DEF TxStalled, TypeOK
  <2> QED
    BY <2>2, <2>3, <2>4
<1> QED
  BY <1>1, <1>2

\* Discarding input and taking a candidate leave a sequence of candidates.
LEMMA WireTyped ==
    ASSUME TypeOK
    PROVE  /\ DiscardInput => wire' \in Seq(Candidates)
           /\ wire # <<>> => Tail(wire) \in Seq(Candidates) /\ Head(wire) \in Candidates
           /\ \A wins \in BOOLEAN :
                  Append(wire, [hdr |-> fpga, wins |-> wins]) \in Seq(Candidates)
<1>1. wire \in Seq(Candidates) /\ fpga \in Headers
  BY DEF TypeOK, Candidates
<1>2. DiscardInput => wire' \in Seq(Candidates)
  <2>1. <<>> \in Seq(Candidates)
    OBVIOUS
  <2> QED
    BY <1>1, <2>1 DEF DiscardInput
<1>3. wire # <<>> => Tail(wire) \in Seq(Candidates) /\ Head(wire) \in Candidates
  BY <1>1
<1>4. \A wins \in BOOLEAN : [hdr |-> fpga, wins |-> wins] \in Candidates
  BY <1>1 DEF Candidates
<1>5. \A wins \in BOOLEAN :
          Append(wire, [hdr |-> fpga, wins |-> wins]) \in Seq(Candidates)
  BY <1>1, <1>4
<1> QED
  BY <1>2, <1>3, <1>5

\* The fee's counters are numbers.
LEMMA FeeTyped ==
    ASSUME TypeOK, NEW n, NEW pushed \in BOOLEAN, Account(n, pushed)
    PROVE  fee' \in Fees
<1>1. fee \in Fees
  BY DEF TypeOK, Fees
<1>2. \A a, b, c, d \in Nat :
          [fee EXCEPT !.mined = a, !.dev = b, !.lost = c, !.lostDev = d] \in Fees
  BY <1>1 DEF Fees
<1>3. /\ fee.mined + (IF pushed THEN 1 ELSE 0) \in Nat
      /\ fee.dev + (IF pushed /\ IsDev(n) THEN 1 ELSE 0) \in Nat
      /\ fee.lost + (IF pushed THEN 0 ELSE 1) \in Nat
      /\ fee.lostDev + (IF ~pushed /\ IsDev(n) THEN 1 ELSE 0) \in Nat
  BY <1>1 DEF Fees
<1> QED
  BY <1>2, <1>3 DEF Account

\* The mining loop's state after a template that was begun.
LEMMA TemplateTyped ==
    ASSUME TypeOK, Template
    PROVE  TypeOK'
<1>1. Resp \in Nat /\ total + 1 \in Nat
  BY DEF Resp, TypeOK
<1>2. \A w \in BOOLEAN : [resp |-> Resp, whole |-> w] \in Txs
  BY <1>1 DEF Txs
<1>0. Fault => faults' \in Nat
  BY DEF Fault, TypeOK
<1>3. CASE GbtFails
  <2>1. faults' \in Nat
    BY <1>0, <1>3, Zenon DEF GbtFails
  <2> QED
    BY <1>3, <2>1 DEF GbtFails, Answered, work, links, chain, TypeOK
<1>4. CASE TooLarge
  <2>1. tpl' \in [cb : 0 .. total', txs : Txs, valid : BOOLEAN]
    <3>1. tpl' = [tpl EXCEPT !.txs = [resp |-> Resp, whole |-> FALSE]] /\ total' = total
      BY <1>4, Zenon DEF TooLarge
    <3>2. tpl \in [cb : 0 .. total, txs : Txs, valid : BOOLEAN]
      BY Zenon DEF TypeOK
    <3>3. [resp |-> Resp, whole |-> FALSE] \in Txs
      BY <1>2
    <3> QED
      BY <3>1, <3>2, <3>3
  <2>2. faults' \in Nat
    BY <1>0, <1>4, Zenon DEF TooLarge
  <2> QED
    BY <1>4, <2>1, <2>2 DEF TooLarge, Answered, links, chain, TypeOK
<1>5. CASE BadCoinbase
  <2>1. total' = total + 1 /\ total' \in 0 .. MaxTemplates
    <3>1. total' = total + 1 /\ total < MaxTemplates
      BY <1>5, Zenon DEF BadCoinbase
    <3>2. total \in 0 .. MaxTemplates
      BY Zenon DEF TypeOK
    <3> QED
      BY <3>1, <3>2, BoundsAssumption
  <2>2. tpl' \in [cb : 0 .. total', txs : Txs, valid : BOOLEAN]
    <3>1. tpl' = [tpl EXCEPT !.cb = 0, !.txs = [resp |-> Resp, whole |-> TRUE]]
      BY <1>5 DEF BadCoinbase
    <3>2. 0 \in 0 .. total'
      BY <2>1
    <3>3. \A t \in Txs : [tpl EXCEPT !.cb = 0, !.txs = t]
                             \in [cb : 0 .. total', txs : Txs, valid : BOOLEAN]
      BY <3>2 DEF TypeOK
    <3> QED
      BY <1>2, <3>1, <3>3
  <2>3. faults' \in Nat
    <3>1. Fault \/ faults' = faults
      BY <1>5, Zenon DEF BadCoinbase
    <3> QED
      BY <1>0, <3>1 DEF TypeOK
  <2>4. fee' \in Fees
    BY <1>5, FeeTyped DEF BadCoinbase
  <2> QED
    BY <1>5, <2>1, <2>2, <2>3, <2>4 DEF BadCoinbase, Answered, links, chain, TypeOK, Fees
<1>6. ASSUME NEW whole \in BOOLEAN, Built(whole)
      PROVE  TypeOK'
  <2> DEFINE n   == total + 1
             txs == [resp |-> Resp, whole |-> whole]
             h   == [prev |-> tip, cb |-> n, txs |-> txs]
  <2>1. total' = n /\ total' \in 0 .. MaxTemplates
    BY <1>6 DEF Built, TypeOK
  <2>2. tpl' \in [cb : 0 .. total', txs : Txs, valid : BOOLEAN]
    BY <1>1, <1>2, <1>6, <2>1 DEF Built, Keep
  <2>3. h \in Headers
    BY <1>1, <1>2 DEF Headers, TypeOK
  <2>4. /\ gbt_hdr' = h /\ half' = FALSE
        /\ (TxDone(h) /\ Account(n, TRUE)) \/ (TxStalled /\ Account(n, FALSE))
        /\ DiscardInput
        /\ Answered
        /\ UNCHANGED <<conf, found, chain>>
    BY <1>6 DEF Built, GbtHeader
  <2> HIDE DEF h, n
  <2>5. /\ fpga' \in Headers /\ aligned' \in BOOLEAN
        /\ have_work' \in BOOLEAN /\ faults' \in Nat
    BY <2>3, <2>4, PushTyped
  <2>6. fee' \in Fees
    BY <2>4, FeeTyped
  <2>7. wire' \in Seq(Candidates)
    BY <2>4, WireTyped
  <2> QED
    BY <2>1, <2>2, <2>3, <2>4, <2>5, <2>6, <2>7
    DEF Answered, chain, TypeOK, Fees, Candidates
<1> QED
  BY <1>3, <1>4, <1>5, <1>6 DEF Template

\* The block of a submission is a block.
LEMMA SerialisedTyped ==
    ASSUME TypeOK
    PROVE  Serialised \in Blocks
<1>1. /\ gbt_hdr \in Headers /\ half \in BOOLEAN
      /\ tpl.cb \in Nat /\ tpl.txs \in Txs
  BY DEF TypeOK
<1> QED
  BY <1>1 DEF Serialised, Blocks

\* Every step keeps the types.
LEMMA NextType ==
    ASSUME TypeOK, [Next]_vars
    PROVE  TypeOK'
<1>1. CASE AskTemplate
  BY <1>1 DEF AskTemplate, work, links, chain, TypeOK
<1>2. CASE Synthetic
  <2>1. /\ fpga' \in Headers /\ aligned' \in BOOLEAN
        /\ have_work' \in BOOLEAN /\ faults' \in Nat
    BY <1>2, PushTyped, ConstantsTyped DEF Synthetic
  <2>2. wire' \in Seq(Candidates)
    BY <1>2, WireTyped DEF Synthetic
  <2>3. gbt_hdr' \in Headers
    BY <1>2, ConstantsTyped DEF Synthetic, GbtHeader
  <2> QED
    BY <1>2, <2>1, <2>2, <2>3 DEF Synthetic, chain, TypeOK, Candidates
<1>3. CASE Template
  BY <1>3, TemplateTyped
<1>4. CASE Age
  BY <1>4 DEF Age, work, links, chain, TypeOK
<1>5. ASSUME NEW wins \in BOOLEAN, Find(wins)
      PROVE  TypeOK'
  <2>1. wire' \in Seq(Candidates) /\ found' \in Nat
    BY <1>5, WireTyped DEF Find, TypeOK
  <2> QED
    BY <1>5, <2>1 DEF Find, work, chain, TypeOK, Candidates
<1>6. CASE Overrun \/ CandidateKept
  <2>1. /\ wire' \in Seq(Candidates)
        /\ UNCHANGED <<pc, due, work, found, chain, faults>>
    BY <1>6, WireTyped DEF Overrun, CandidateKept
  <2> QED
    BY <2>1 DEF work, chain, TypeOK, Candidates
<1>7. CASE submit_block
  <2>1. wire' \in Seq(Candidates) /\ block' \in Blocks
    BY <1>7, WireTyped, SerialisedTyped DEF submit_block
  <2> QED
    BY <1>7, <2>1 DEF submit_block, work, TypeOK, Candidates
<1>8. CASE Accept
  BY <1>8, ConstantsTyped DEF Accept, Judged, work, links, TypeOK
<1>9. CASE Refuse
  <2>1. refused' \in Blocks
    BY <1>9 DEF Refuse, TypeOK, Blocks
  <2> QED
    BY <1>9, <2>1, ConstantsTyped DEF Refuse, Judged, work, links, TypeOK
<1>10. CASE SubmitLost
  BY <1>10, ConstantsTyped DEF SubmitLost, Judged, Fault, work, links, TypeOK
<1>11. CASE NewTip
  BY <1>11 DEF NewTip, work, links, TypeOK
<1>12. CASE UNCHANGED vars
  BY <1>12 DEF vars, work, links, chain, TypeOK
<1> QED
  BY <1>1, <1>2, <1>3, <1>4, <1>5, <1>6, <1>7, <1>8, <1>9, <1>10, <1>11, <1>12 DEF Next

\* The first state is well formed.
LEMMA InitType == Init => TypeOK
<1> SUFFICES ASSUME Init
             PROVE  TypeOK
  OBVIOUS
<1>1. <<>> \in Seq([hdr : Headers, wins : BOOLEAN])
  OBVIOUS
<1>2. tpl \in [cb : 0 .. total, txs : Txs, valid : BOOLEAN]
  BY ConstantsTyped DEF Init
<1>3. /\ total \in 0 .. MaxTemplates /\ tip \in Nat
      /\ fee \in [mined : Nat, dev : Nat, lost : Nat, lostDev : Nat]
      /\ found \in Nat /\ faults \in Nat
  BY DEF Init
<1>4. due \in BOOLEAN /\ have_work \in BOOLEAN /\ aligned \in BOOLEAN /\ half \in BOOLEAN
  BY Zenon DEF Init
<1> QED
  BY <1>1, <1>2, <1>3, <1>4, ConstantsTyped DEF Init, TypeOK

\* The block material, the history and the counters keep their shape, and a
\* coinbase is kept only for a template whose payout was chosen, whatever the
\* node answers and however often an upload stalls.
THEOREM SoloTypeCorrect == Spec => []TypeOK
<1>1. TypeOK /\ [Next]_vars => TypeOK'
  BY NextType
<1> QED
  BY <1>1, InitType, PTL DEF Spec

---------------------------------------------------------------------------
(* What is submitted. *)

\* The body g_tpl holds is the one g_gbt_hdr commits to unless a template has
\* failed half-way, and so is the body of the submission in progress.  The
\* synthetic source never has a template to submit.
BodyOfHeader ==
    /\ conf.synthetic => ~tpl.valid /\ pc # "getblocktemplate"
    /\ tpl.valid /\ ~half => tpl.cb = gbt_hdr.cb /\ tpl.txs = gbt_hdr.txs
    /\ pc = "submitblock" =>
           block.half \/ (block.cb = block.hdr.cb /\ block.txs = block.hdr.txs)

\* Whatever ends a template keeps it.
LEMMA TemplateKeepsBody ==
    ASSUME TypeOK, BodyOfHeader, Template
    PROVE  BodyOfHeader'
<1>1. pc = "getblocktemplate" /\ pc' = "loop" /\ conf' = conf /\ ~conf.synthetic
  BY DEF Template, GbtFails, TooLarge, BadCoinbase, Built, Answered, work, BodyOfHeader
<1>2. CASE GbtFails
  BY <1>1, <1>2 DEF GbtFails, work, BodyOfHeader
<1>3. CASE TooLarge
  BY <1>1, <1>3 DEF TooLarge, BodyOfHeader
<1>4. CASE BadCoinbase
  BY <1>1, <1>4 DEF BadCoinbase, BodyOfHeader
<1>5. ASSUME NEW whole \in BOOLEAN, Built(whole)
      PROVE  BodyOfHeader'
  <2>1. tpl'.cb = gbt_hdr'.cb /\ tpl'.txs = gbt_hdr'.txs
    BY <1>5 DEF Built, Keep, GbtHeader
  <2> QED
    BY <1>1, <2>1 DEF BodyOfHeader
<1> QED
  BY <1>2, <1>3, <1>4, <1>5 DEF Template

\* Every step keeps it.
LEMMA NextBody ==
    ASSUME TypeOK, BodyOfHeader, [Next]_vars
    PROVE  BodyOfHeader'
<1>1. CASE AskTemplate
  BY <1>1 DEF AskTemplate, RollDue, work, chain, BodyOfHeader
<1>2. CASE Synthetic
  BY <1>2 DEF Synthetic, RollDue, chain, BodyOfHeader
<1>3. CASE Template
  BY <1>3, TemplateKeepsBody
<1>4. CASE Age \/ Overrun \/ CandidateKept \/ NewTip \/ \E wins \in BOOLEAN : Find(wins)
  <2>1. UNCHANGED <<pc, work, block>>
    BY <1>4 DEF Age, Overrun, CandidateKept, NewTip, Find, chain
  <2> QED
    BY <2>1 DEF work, BodyOfHeader
<1>5. CASE submit_block
  <2>1. /\ tpl.valid /\ UNCHANGED work
        /\ pc' = "submitblock" /\ block' = Serialised
    BY <1>5 DEF submit_block
  <2> QED
    BY <2>1 DEF work, Serialised, BodyOfHeader
<1>6. CASE Accept \/ Refuse \/ SubmitLost
  <2>1. pc' = "loop" /\ UNCHANGED work
    BY <1>6 DEF Accept, Refuse, SubmitLost, Judged
  <2> QED
    BY <2>1 DEF work, BodyOfHeader
<1>7. CASE UNCHANGED vars
  BY <1>7 DEF vars, work, chain, BodyOfHeader
<1> QED
  BY <1>1, <1>2, <1>3, <1>4, <1>5, <1>6, <1>7 DEF Next

\* A verdict against a block has one of the three excuses.
LEMMA NextRefusal ==
    ASSUME TypeOK, BodyOfHeader, RefusalExplained, [Next]_vars
    PROVE  RefusalExplained'
<1>1. CASE Refuse
  <2>1. /\ refused' = [block EXCEPT !.late = block.hdr.prev # tip]
        /\ pc = "submitblock" /\ ~Valid(block)
    BY <1>1 DEF Refuse, Judged
  <2>2. block \in Blocks
    BY DEF TypeOK
  <2>3. /\ refused'.late = (block.hdr.prev # tip)
        /\ refused'.txs = block.txs /\ refused'.half = block.half
    BY <2>1, <2>2 DEF Blocks
  <2>4. block.half \/ (block.cb = block.hdr.cb /\ block.txs = block.hdr.txs)
    BY <2>1 DEF BodyOfHeader
  <2>5. \/ <<block.cb, block.txs>> # <<block.hdr.cb, block.hdr.txs>>
        \/ ~block.txs.whole
        \/ block.hdr.prev # tip
    BY <2>1 DEF Valid
  <2> QED
    BY <2>3, <2>4, <2>5 DEF RefusalExplained
<1>2. CASE ~Refuse
  <2>1. refused' = refused
    BY <1>2 DEF Next, vars, chain, AskTemplate, Synthetic, Template, GbtFails, TooLarge,
                BadCoinbase, Built, Age, Find, Overrun, CandidateKept, submit_block,
                Accept, SubmitLost, NewTip
  <2> QED
    BY <2>1 DEF RefusalExplained
<1> QED
  BY <1>1, <1>2

\* A block the node turns down was late, lacked transactions the walk had
\* skipped, or followed a template that failed half-way: block_serialize never
\* joins a header with the body of another template otherwise, for any number
\* of templates, stalled pushes and candidates that lag behind.
THEOREM RefusalsAreExplained == Spec => []RefusalExplained
<1>1. Init => BodyOfHeader /\ RefusalExplained
  BY DEF Init, BodyOfHeader, RefusalExplained
<1>2. TypeOK /\ BodyOfHeader /\ RefusalExplained /\ [Next]_vars
          => BodyOfHeader' /\ RefusalExplained'
  BY NextBody, NextRefusal
<1> QED
  BY <1>1, <1>2, SoloTypeCorrect, PTL DEF Spec

---------------------------------------------------------------------------
(* The developer's fee. *)

\* Every payout chosen is of a template that was mined or lost, and of those
\* chosen so far one in DEVFEE_INTERVAL was the developer's.
FeeLedger ==
    /\ fee.mined + fee.lost = total
    /\ fee.dev + fee.lostDev = total \div DEVFEE_INTERVAL
    /\ fee.lostDev <= fee.lost

\* One more payout, pushed or not.
LEMMA AccountLedger ==
    ASSUME TypeOK, FeeLedger, NEW pushed \in BOOLEAN,
           total' = total + 1, Account(total + 1, pushed)
    PROVE  FeeLedger'
<1> DEFINE isDev == IF IsDev(total + 1) THEN 1 ELSE 0
<1>1. total \in Nat /\ fee \in Fees
  BY DEF TypeOK, Fees
<1>2. total' \div DEVFEE_INTERVAL = (total \div DEVFEE_INTERVAL) + isDev
  BY <1>1, DivStep DEF IsDev
<1>3. /\ fee'.mined = fee.mined + (IF pushed THEN 1 ELSE 0)
      /\ fee'.dev = fee.dev + (IF pushed /\ IsDev(total + 1) THEN 1 ELSE 0)
      /\ fee'.lost = fee.lost + (IF pushed THEN 0 ELSE 1)
      /\ fee'.lostDev = fee.lostDev + (IF ~pushed /\ IsDev(total + 1) THEN 1 ELSE 0)
  BY <1>1 DEF Account, Fees
<1>4. /\ fee.mined \in Nat /\ fee.dev \in Nat /\ fee.lost \in Nat /\ fee.lostDev \in Nat
      /\ total \div DEVFEE_INTERVAL \in Int
  BY <1>1 DEF Fees
<1>5. CASE pushed
  BY <1>1, <1>2, <1>3, <1>4, <1>5 DEF FeeLedger
<1>6. CASE ~pushed
  BY <1>1, <1>2, <1>3, <1>4, <1>6 DEF FeeLedger
<1> QED
  BY <1>5, <1>6

\* Every step keeps the ledger.
LEMMA NextLedger ==
    ASSUME TypeOK, FeeLedger, [Next]_vars
    PROVE  FeeLedger'
<1>1. CASE BadCoinbase
  BY <1>1, AccountLedger DEF BadCoinbase
<1>2. ASSUME NEW whole \in BOOLEAN, Built(whole)
      PROVE  FeeLedger'
  <2>1. total' = total + 1 /\ (Account(total + 1, TRUE) \/ Account(total + 1, FALSE))
    BY <1>2 DEF Built
  <2> QED
    BY <2>1, AccountLedger
<1>3. CASE ~BadCoinbase /\ ~\E whole \in BOOLEAN : Built(whole)
  <2>1. fee' = fee /\ total' = total
    BY <1>3 DEF Next, vars, work, AskTemplate, Synthetic, Template, GbtFails, TooLarge,
                Age, Find, Overrun, CandidateKept, submit_block,
                Accept, Refuse, SubmitLost, NewTip
  <2> QED
    BY <2>1 DEF FeeLedger
<1> QED
  BY <1>1, <1>2, <1>3

\* devfee_next_payout takes one template in DEVFEE_INTERVAL of those a payout
\* was chosen for, and exactly that share of the mined ones while none is
\* lost, for every interval and any number of templates.
THEOREM SoloFeeShare == Spec => []FeeShare
<1>1. Init => FeeLedger
  <2> SUFFICES ASSUME Init
               PROVE  FeeLedger
    OBVIOUS
  <2>1. 0 = DEVFEE_INTERVAL * 0 + 0 /\ 0 \in Int /\ 0 \in 0 .. DEVFEE_INTERVAL - 1
    OBVIOUS
  <2>2. 0 \div DEVFEE_INTERVAL = 0
    BY <2>1, DivModUnique
  <2> QED
    BY <2>2 DEF Init, FeeLedger
<1>2. TypeOK /\ FeeLedger /\ [Next]_vars => FeeLedger'
  BY NextLedger
<1>3. TypeOK /\ FeeLedger => FeeShare
  <2> SUFFICES ASSUME TypeOK, FeeLedger
               PROVE  FeeShare
    OBVIOUS
  <2>1. /\ fee.mined \in Nat /\ fee.dev \in Nat /\ fee.lost \in Nat /\ fee.lostDev \in Nat
    BY DEF TypeOK
  <2>2. fee.mined + fee.lost = total /\ fee.lostDev <= fee.lost
        /\ fee.dev + fee.lostDev = total \div DEVFEE_INTERVAL
    BY DEF FeeLedger
  <2>3. fee.dev + fee.lostDev = (fee.mined + fee.lost) \div DEVFEE_INTERVAL
    BY <2>2, Zenon
  <2>4. fee.lost = 0 => fee.lostDev = 0 /\ fee.mined + fee.lost = fee.mined
                        /\ fee.dev + fee.lostDev = fee.dev
    BY <2>1, <2>2
  <2>5. fee.lost = 0 => fee.dev = fee.mined \div DEVFEE_INTERVAL
    BY <2>3, <2>4, Zenon
  <2> QED
    BY <2>3, <2>5, Zenon DEF FeeShare
<1> QED
  BY <1>1, <1>2, <1>3, SoloTypeCorrect, PTL DEF Spec

===========================================================================
