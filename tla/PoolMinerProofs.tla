------------------------- MODULE PoolMinerProofs -------------------------
(***************************************************************************)
(* Proofs about PoolMiner, for every fee interval, every number of jobs,   *)
(* connections, items and candidates, and with or without stalled pushes.  *)
(***************************************************************************)
EXTENDS PoolMiner, ArithmeticLemmas, TLAPS

---------------------------------------------------------------------------
(* Type correctness. *)

\* The session handlers of stratum.c keep a session well formed.
LEMMA SessionOps ==
    ASSUME NEW s \in SessionType
    PROVE  /\ Drop(s) \in SessionType
           /\ Dialled(s) \in SessionType
           /\ OnSubscribe(s) \in SessionType
           /\ OnSubscribeBadSize(s) \in SessionType
           /\ OnSubscribeBadHex(s) \in SessionType
           /\ \A ok \in BOOLEAN : OnAuthorize(s, ok) \in SessionType
           /\ \A p \in PrevHashes, c, f \in BOOLEAN : OnNotify(s, p, c, f) \in SessionType
           /\ OnSetExtranonce(s) \in SessionType
           /\ OnSetExtranonceBad(s) \in SessionType
<1>1. Drop(s) \in SessionType
  BY DEF Drop, SessionType
<1>2. Dialled(s) \in SessionType
  <2>1. \A e \in Nat : [s EXCEPT !.fd = TRUE, !.era = e] \in SessionType
    BY DEF SessionType
  <2>2. s.era + 1 \in Nat
    BY DEF SessionType
  <2> QED
    BY <2>1, <2>2 DEF Dialled
<1>3. OnSubscribe(s) \in SessionType /\ OnSubscribeBadSize(s) \in SessionType
  BY DEF OnSubscribe, OnSubscribeBadSize, SessionType, Extranonces
<1>7. OnSubscribeBadHex(s) \in SessionType /\ OnSetExtranonceBad(s) \in SessionType
  BY DEF OnSubscribeBadHex, OnSetExtranonceBad, SessionType, Extranonces
<1>4. \A ok \in BOOLEAN : OnAuthorize(s, ok) \in SessionType
  BY DEF OnAuthorize, SessionType
<1>5. \A p \in PrevHashes, c, f \in BOOLEAN : OnNotify(s, p, c, f) \in SessionType
  <2>1. s.job.seq + 1 \in Nat /\ s.era \in Nat
    BY DEF SessionType, Jobs
  <2>2. \A j \in Jobs : [s EXCEPT !.have_job = TRUE, !.job = j] \in SessionType
    BY DEF SessionType
  <2>3. \A p \in PrevHashes, c, f \in BOOLEAN :
            [seq |-> s.job.seq + 1, prev |-> p, clean |-> c, fits |-> f, era |-> s.era] \in Jobs
    BY <2>1 DEF Jobs
  <2> QED
    BY <2>2, <2>3 DEF OnNotify
<1>6. OnSetExtranonce(s) \in SessionType
  <2>1. \A e \in Nat : [s EXCEPT !.era = e, !.en1 = e, !.have_job = FALSE] \in SessionType
    BY DEF SessionType, Extranonces
  <2>2. s.era + 1 \in Nat
    BY DEF SessionType
  <2> QED
    BY <2>1, <2>2 DEF OnSetExtranonce
<1> QED
  BY <1>1, <1>2, <1>3, <1>4, <1>5, <1>6, <1>7

\* A built item is an item, and the counters of a roll are numbers.
LEMMA RollTyped ==
    ASSUME TypeOK
    PROVE  /\ Source \in Sessions
           /\ \A x \in Sessions : Item(x) \in Items
           /\ RolledEn2 \in Nat
           /\ Epoch \in [jobs : Nat, dev_jobs : Nat, skipped : Nat, shares : Nat]
<1>1. Source \in Sessions
  BY DEF Source, Sessions
<1>2. RolledEn2 \in Nat
  BY DEF RolledEn2, TypeOK
<1>3. En2 \in 0 .. EN2_SPACE - 1
  BY <1>2, En2Assumption DEF En2
<1>4. \A x \in Sessions : Item(x) \in Items
  BY <1>3 DEF Item, Items, TypeOK, SessionType, Jobs, Sessions
<1>5. Epoch \in [jobs : Nat, dev_jobs : Nat, skipped : Nat, shares : Nat]
  <2> DEFINE Fees == [jobs : Nat, dev_jobs : Nat, skipped : Nat, shares : Nat]
  <2>1. fee \in Fees
    BY DEF TypeOK
  <2>2. \A a, b, c \in Nat : [fee EXCEPT !.jobs = a, !.dev_jobs = b, !.skipped = c] \in Fees
    BY <2>1
  <2>3. /\ fee.jobs + 1 \in Nat
        /\ (IF WantDev THEN fee.dev_jobs + 1 ELSE fee.dev_jobs) \in Nat
        /\ (IF WantDev /\ ~FromDev THEN fee.skipped + 1 ELSE fee.skipped) \in Nat
    BY <2>1
  <2> QED
    BY <2>2, <2>3 DEF Epoch
<1> QED
  BY <1>1, <1>2, <1>4, <1>5

\* An item built adds one to one of three counts.
LEMMA MadeTyped ==
    ASSUME TypeOK
    PROVE  /\ Made \in Outcomes
           /\ Made.mined + Made.lost = made.mined + made.lost + IF FromDev THEN 1 ELSE 0
           /\ Made.main + Made.mined + Made.lost = made.main + made.mined + made.lost + 1
           /\ Made.refused = made.refused
<1>1. made.main \in Nat /\ made.mined \in Nat /\ made.lost \in Nat
  BY DEF TypeOK, Outcomes
<1>2. /\ Made.main = made.main + IF FromDev THEN 0 ELSE 1
      /\ Made.mined = made.mined + IF FromDev /\ ~stalled' /\ aligned THEN 1 ELSE 0
      /\ Made.lost = made.lost + IF FromDev /\ (stalled' \/ ~aligned) THEN 1 ELSE 0
      /\ Made.refused = made.refused
  BY DEF Made, TypeOK, Outcomes
<1>3. \A a, b, c \in Nat : [made EXCEPT !.main = a, !.mined = b, !.lost = c] \in Outcomes
  BY DEF TypeOK, Outcomes
<1>4. /\ made.main + (IF FromDev THEN 0 ELSE 1) \in Nat
      /\ made.mined + (IF FromDev /\ ~stalled' /\ aligned THEN 1 ELSE 0) \in Nat
      /\ made.lost + (IF FromDev /\ (stalled' \/ ~aligned) THEN 1 ELSE 0) \in Nat
  BY <1>1
<1>5. Made \in Outcomes
  BY <1>3, <1>4 DEF Made
<1>6. Made.mined + Made.lost = made.mined + made.lost + IF FromDev THEN 1 ELSE 0
  BY <1>1, <1>2
<1>7. Made.main + Made.mined + Made.lost = made.main + made.mined + made.lost + 1
  BY <1>1, <1>2
<1> QED
  BY <1>2, <1>5, <1>6, <1>7

\* What a pool event does to the variables' types.
LEMMA PoolEventType ==
    ASSUME TypeOK, NEW x \in Sessions, PoolEvent(x)
    PROVE  TypeOK'
<1>1. sess[x] \in SessionType
  BY DEF TypeOK
<1>2. \A s \in SessionType : Update(x, s) => sess' \in [Sessions -> SessionType]
  BY DEF TypeOK, Update
<1>3. Silence \in Sayings
  BY DEF Sayings
<1> DEFINE Others == UNCHANGED <<work, made, stalled>>
<1>4. ASSUME sess' \in [Sessions -> SessionType], cleaned' \in [Sessions -> Nat],
             Others, Silent
      PROVE  TypeOK'
  BY <1>3, <1>4 DEF TypeOK, work, Silent
<1>5. CASE Connect(x)
  BY <1>1, <1>2, <1>4, <1>5, SessionOps DEF Connect, record, TypeOK
<1>6. CASE Disconnect(x)
  BY <1>1, <1>2, <1>4, <1>6, SessionOps DEF Disconnect, record, TypeOK
<1>7. CASE SubscribeReply(x)
  BY <1>1, <1>2, <1>4, <1>7, SessionOps DEF SubscribeReply, record, TypeOK
<1>8. CASE AuthorizeReply(x)
  BY <1>1, <1>2, <1>4, <1>8, SessionOps DEF AuthorizeReply, record, TypeOK
<1>9. CASE Notify(x)
  <2>1. PICK prev \in PrevHashes, clean, fits \in BOOLEAN :
               /\ Update(x, OnNotify(sess[x], prev, clean, fits))
               /\ cleaned' = IF clean THEN [cleaned EXCEPT ![x] = sess[x].job.seq + 1]
                                      ELSE cleaned
    BY <1>9 DEF Notify
  <2>2. prev \in PrevHashes /\ sess[x].job.seq + 1 \in Nat
    BY <1>1, <2>1 DEF SessionType, Jobs
  <2>3. OnNotify(sess[x], prev, clean, fits) \in SessionType
    BY <1>1, <2>2, SessionOps
  <2>4. cleaned' \in [Sessions -> Nat]
    BY <2>1, <2>2 DEF TypeOK
  <2> QED
    BY <1>2, <1>4, <1>9, <2>1, <2>3, <2>4 DEF Notify
<1>10. CASE SetExtranonce(x)
  BY <1>1, <1>2, <1>4, <1>10, SessionOps DEF SetExtranonce, record, TypeOK
<1>11. CASE SetExtranonceBad(x)
  BY <1>1, <1>2, <1>4, <1>11, SessionOps DEF SetExtranonceBad, record, TypeOK
<1> QED
  BY <1>5, <1>6, <1>7, <1>8, <1>9, <1>10, <1>11 DEF PoolEvent

\* What a roll does to the variables' types, refused or not.
LEMMA RollType ==
    ASSUME TypeOK, RollWork \/ RollRefused
    PROVE  TypeOK'
<1>1. Silence \in Sayings
  BY DEF Sayings
<1>2. CASE RollWork
  <2> DEFINE item == Item(Source)
  <2>1. item \in Items /\ item.valid
    BY RollTyped DEF Item
  <2>2. fee' \in [jobs : Nat, dev_jobs : Nat, skipped : Nat, shares : Nat] /\ en2ctr' \in Nat
    BY <1>2, RollTyped DEF RollWork
  <2>3. cur' \in Items \cup {NoItem} /\ cur'.valid
    BY <1>2, <2>1 DEF RollWork
  <2>4. /\ ctx' \in Items \cup {NoItem} /\ fpga' \in Items \cup {NoItem}
        /\ aligned' \in BOOLEAN /\ stalled' \in BOOLEAN
    <3>1. CASE TxDone(item)
      BY <2>1, <3>1 DEF TxDone, TypeOK
    <3>2. CASE TxStalled
      BY <3>2 DEF TxStalled, TypeOK
    <3> QED
      BY <1>2, <3>1, <3>2 DEF RollWork
  <2>5. last' \in Pushes
    <3>1. sess["main"].job.prev \in PrevHashes
      BY DEF TypeOK, SessionType, Jobs, Sessions
    <3> QED
      BY <1>2, <3>1 DEF RollWork, Pushes
  <2>6. inflight' \subseteq Items
    BY <1>2 DEF RollWork, DiscardInput, TypeOK
  <2>7. made' \in Outcomes
    BY <1>2, MadeTyped DEF RollWork
  <2> QED
    BY <1>1, <1>2, <2>2, <2>3, <2>4, <2>5, <2>6, <2>7 DEF RollWork, Silent, TypeOK
<1>3. CASE RollRefused
  <2>1. made' \in Outcomes
    BY <1>3 DEF RollRefused, TypeOK, Outcomes
  <2> QED
    BY <1>1, <1>3, <2>1, RollTyped DEF RollRefused, Silent, TypeOK
<1> QED
  BY <1>2, <1>3

\* A valid g_cur is an item of one of the sessions.
LEMMA CurTyped ==
    ASSUME TypeOK, cur.valid
    PROVE  cur \in Items /\ cur.sess \in Sessions /\ cur.seq \in Nat
<1>1. cur \in Items
  BY DEF TypeOK, NoItem
<1> QED
  BY <1>1 DEF Items

\* A candidate that verifies is submitted as an item of one of the sessions.
LEMMA SolutionTyped ==
    ASSUME TypeOK, NEW c \in inflight, Solution(c)
    PROVE  c \in Items /\ cur \in Items /\ cur.sess \in Sessions
  BY CurTyped DEF Solution, TypeOK

\* What the clock and a candidate do to the variables' types.
LEMMA CandidateType ==
    ASSUME TypeOK,
           \/ Age \/ Find
           \/ \E c \in inflight : \/ CandidateIgnored(c) \/ DiscardStale(c)
                                  \/ SubmitShare(c) \/ SubmitFails(c)
    PROVE  TypeOK'
<1>1. Silence \in Sayings
  BY DEF Sayings
<1>2. CASE Age
  <2>1. last' \in Pushes
    BY <1>2 DEF Age, TypeOK, Pushes
  <2> QED
    BY <1>1, <1>2, <2>1 DEF Age, Silent, record, TypeOK
<1>3. CASE Find
  <2>1. fpga \in Items
    BY <1>3 DEF Find, TypeOK, NoItem
  <2> QED
    BY <1>1, <1>3, <2>1 DEF Find, Silent, record, TypeOK
<1>4. ASSUME NEW c \in inflight, CandidateIgnored(c)
      PROVE  TypeOK'
  BY <1>1, <1>4 DEF CandidateIgnored, Silent, record, TypeOK
<1>6. ASSUME NEW c \in inflight, DiscardStale(c)
      PROVE  TypeOK'
  <2>1. said' \in Sayings
    BY <1>6 DEF DiscardStale, Sayings, Void
  <2> QED
    BY <1>6, <2>1 DEF DiscardStale, record, TypeOK
<1>7. ASSUME NEW c \in inflight, SubmitShare(c)
      PROVE  TypeOK'
  <2>1. c \in Items /\ cur \in Items /\ cur.sess \in Sessions
    BY <1>7, SolutionTyped DEF SubmitShare
  <2>2. cur.seq \in Nat /\ cur.en2 \in 0 .. EN2_SPACE - 1
    BY <2>1 DEF Items
  <2>3. sess[cur.sess].en1 \in Extranonces
    BY <2>1 DEF TypeOK, SessionType
  <2>4. said' \in Sayings
    BY <1>7, <2>1, <2>2, <2>3 DEF SubmitShare, Sayings, Void, Credit
  <2>5. fee' \in [jobs : Nat, dev_jobs : Nat, skipped : Nat, shares : Nat]
    <3>1. \A n \in Nat : [fee EXCEPT !.shares = n]
                             \in [jobs : Nat, dev_jobs : Nat, skipped : Nat, shares : Nat]
      BY DEF TypeOK
    <3>2. (IF Credit THEN fee.shares + 1 ELSE fee.shares) \in Nat
      BY DEF TypeOK
    <3> QED
      BY <1>7, <3>1, <3>2 DEF SubmitShare
  <2> QED
    BY <1>7, <2>4, <2>5 DEF SubmitShare, record, TypeOK
<1>8. ASSUME NEW c \in inflight, SubmitFails(c)
      PROVE  TypeOK'
  <2>1. cur.sess \in Sessions
    BY <1>8, SolutionTyped DEF SubmitFails
  <2>2. Drop(sess[cur.sess]) \in SessionType
    BY <2>1, SessionOps DEF TypeOK
  <2>3. sess' \in [Sessions -> SessionType]
    BY <1>8, <2>1, <2>2 DEF SubmitFails, Update, TypeOK
  <2> QED
    BY <1>1, <1>8, <2>3 DEF SubmitFails, Silent, record, TypeOK
<1> QED
  BY <1>2, <1>3, <1>4, <1>6, <1>7, <1>8

\* Every step keeps every variable in its type.
LEMMA NextType == TypeOK /\ [Next]_vars => TypeOK'
<1> SUFFICES ASSUME TypeOK, [Next]_vars
             PROVE  TypeOK'
  OBVIOUS
<1>1. CASE \E x \in Polled : PoolEvent(x)
  BY <1>1, PoolEventType DEF Polled, Sessions
<1>2. CASE RollWork \/ RollRefused
  BY <1>2, RollType
<1>3. CASE \/ Age \/ Find
           \/ \E c \in inflight : \/ CandidateIgnored(c) \/ DiscardStale(c)
                                  \/ SubmitShare(c) \/ SubmitFails(c)
  BY <1>3, CandidateType
<1>4. CASE UNCHANGED vars
  BY <1>4 DEF vars, work, record, TypeOK
<1> QED
  BY <1>1, <1>2, <1>3, <1>4 DEF Next

\* The program starts in a well-typed state.
LEMMA InitType == Init => TypeOK
<1> SUFFICES ASSUME Init PROVE TypeOK
  OBVIOUS
<1>1. (CHOOSE p \in PrevHashes : TRUE) \in PrevHashes
  BY PrevAssumption
<1>2. NewSession(CHOOSE p \in PrevHashes : TRUE) \in SessionType
  BY <1>1 DEF NewSession, SessionType, Jobs, Extranonces
<1>3. sess \in [Sessions -> SessionType] /\ cleaned \in [Sessions -> Nat]
  BY <1>2 DEF Init
<1>4. last \in Pushes /\ said \in Sayings
  BY DEF Init, Pushes, Sayings
<1> QED
  BY <1>3, <1>4 DEF Init, TypeOK, NoItem, Outcomes

\* Pool mining keeps every variable in its type, and a candidate is never
\* verified before there is work to submit it as.
THEOREM PoolTypeCorrect == Spec => []TypeOK
  BY InitType, NextType, PTL DEF Spec

---------------------------------------------------------------------------
(* Sessions: what is ready is current. *)

\* Each handler of stratum.c keeps the flags honest; a connection is dialled
\* only when the last one was dropped.
LEMMA HandlersVouch ==
    ASSUME NEW s \in SessionType, Vouches(s)
    PROVE  /\ Vouches(Drop(s))
           /\ ~s.fd => Vouches(Dialled(s))
           /\ s.fd => Vouches(OnSubscribe(s)) /\ Vouches(OnSetExtranonce(s))
           /\ ~s.subscribed => Vouches(OnSubscribeBadSize(s)) /\ Vouches(OnSubscribeBadHex(s))
           /\ Vouches(OnSetExtranonceBad(s))
           /\ \A ok \in BOOLEAN : Vouches(OnAuthorize(s, ok))
           /\ s.fd => \A p \in PrevHashes, c, f \in BOOLEAN : Vouches(OnNotify(s, p, c, f))
<1>1. Vouches(Drop(s)) /\ (~s.fd => Vouches(Dialled(s)))
  BY DEF Vouches, Drop, Dialled, SessionType, Jobs
<1>2. s.fd => Vouches(OnSubscribe(s)) /\ Vouches(OnSetExtranonce(s))
  BY DEF Vouches, OnSubscribe, OnSetExtranonce, SessionType, Jobs
<1>3. ~s.subscribed => Vouches(OnSubscribeBadSize(s)) /\ Vouches(OnSubscribeBadHex(s))
  BY DEF Vouches, OnSubscribeBadSize, OnSubscribeBadHex, SessionType, Jobs
<1>6. Vouches(OnSetExtranonceBad(s))
  BY DEF Vouches, OnSetExtranonceBad, SessionType, Jobs
<1>4. \A ok \in BOOLEAN : Vouches(OnAuthorize(s, ok))
  BY DEF Vouches, OnAuthorize, SessionType, Jobs
<1>5. s.fd => \A p \in PrevHashes, c, f \in BOOLEAN : Vouches(OnNotify(s, p, c, f))
  BY DEF Vouches, OnNotify, SessionType, Jobs
<1> QED
  BY <1>1, <1>2, <1>3, <1>4, <1>5, <1>6

\* Every step keeps the flags of both sessions honest.
LEMMA NextVouches == TypeOK /\ FlagsVouch /\ [Next]_vars => FlagsVouch'
<1> SUFFICES ASSUME TypeOK, FlagsVouch, [Next]_vars
             PROVE  FlagsVouch'
  OBVIOUS
<1>1. \A x \in Sessions : sess[x] \in SessionType /\ Vouches(sess[x])
  BY DEF TypeOK, FlagsVouch
<1>2. ASSUME NEW x \in Sessions, NEW s, Update(x, s), Vouches(s)
      PROVE  FlagsVouch'
  BY <1>1, <1>2 DEF Update, FlagsVouch, TypeOK
<1>3. ASSUME NEW x \in Sessions, PoolEvent(x)
      PROVE  FlagsVouch'
  <2>1. CASE Connect(x)
    BY <1>1, <1>2, <2>1, HandlersVouch DEF Connect
  <2>2. CASE Disconnect(x)
    BY <1>1, <1>2, <2>2, HandlersVouch DEF Disconnect
  <2>3. CASE SubscribeReply(x)
    BY <1>1, <1>2, <2>3, HandlersVouch DEF SubscribeReply
  <2>4. CASE AuthorizeReply(x)
    BY <1>1, <1>2, <2>4, HandlersVouch DEF AuthorizeReply
  <2>5. CASE Notify(x)
    BY <1>1, <1>2, <2>5, HandlersVouch DEF Notify
  <2>6. CASE SetExtranonce(x)
    BY <1>1, <1>2, <2>6, HandlersVouch DEF SetExtranonce
  <2>7. CASE SetExtranonceBad(x)
    BY <1>1, <1>2, <2>7, HandlersVouch DEF SetExtranonceBad
  <2> QED
    BY <1>3, <2>1, <2>2, <2>3, <2>4, <2>5, <2>6, <2>7 DEF PoolEvent
<1>4. ASSUME NEW c \in inflight, SubmitFails(c)
      PROVE  FlagsVouch'
  <2>1. cur.sess \in Sessions
    BY <1>4, SolutionTyped DEF SubmitFails
  <2> QED
    BY <1>1, <1>2, <1>4, <2>1, HandlersVouch DEF SubmitFails
<1>5. CASE UNCHANGED sess
  BY <1>5 DEF FlagsVouch, Vouches
<1>6. CASE RollWork \/ RollRefused \/ Age \/ Find \/ UNCHANGED vars
  BY <1>5, <1>6 DEF RollWork, RollRefused, Age, Find, vars
<1>7. ASSUME NEW c \in inflight, CandidateIgnored(c) \/ DiscardStale(c) \/ SubmitShare(c)
      PROVE  FlagsVouch'
  BY <1>5, <1>7 DEF CandidateIgnored, DiscardStale, SubmitShare
<1> QED
  BY <1>3, <1>4, <1>6, <1>7 DEF Next, Polled, Sessions

\* No session is ever ready to build from with a job or an extranonce1 of a
\* dropped connection, or of before a mining.set_extranonce; its extranonce1
\* is the one assigned or one that a malformed mining.set_extranonce tore.
THEOREM NothingStaleIsBuilt == Spec => []ReadyIsCurrent
<1>1. Init => FlagsVouch
  BY DEF Init, FlagsVouch, Vouches, NewSession
<1>2. FlagsVouch => ReadyIsCurrent
  BY DEF FlagsVouch, Vouches, ReadyIsCurrent, Ready
<1> QED
  BY <1>1, <1>2, PoolTypeCorrect, NextVouches, PTL DEF Spec

---------------------------------------------------------------------------
(* Shares name their work. *)

\* Every step keeps g_cur and ctx on one item, except a push that stalls.
LEMMA NextPaired == Paired /\ [Next]_vars => Paired'
<1> SUFFICES ASSUME Paired, [Next]_vars
             PROVE  Paired'
  OBVIOUS
<1>1. CASE RollWork
  BY <1>1 DEF RollWork, TxDone, TxStalled, Paired
<1>2. CASE UNCHANGED <<cur, ctx, stalled>>
  BY <1>2 DEF Paired
<1>3. ASSUME NEW x, PoolEvent(x)
      PROVE  Paired'
  BY <1>2, <1>3 DEF PoolEvent, Connect, Disconnect, SubscribeReply, AuthorizeReply,
                    Notify, SetExtranonce, SetExtranonceBad, work, record
<1>4. CASE RollRefused \/ Age \/ Find \/ UNCHANGED vars
  BY <1>2, <1>4 DEF RollRefused, Age, Find, vars, work, record
<1>5. ASSUME NEW c, \/ CandidateIgnored(c) \/ DiscardStale(c)
                    \/ SubmitShare(c) \/ SubmitFails(c)
      PROVE  Paired'
  BY <1>2, <1>5 DEF CandidateIgnored, DiscardStale, SubmitShare, SubmitFails, record
<1> QED
  BY <1>1, <1>3, <1>4, <1>5 DEF Next

\* Only a step that submits says anything about a share.
LEMMA NextSaid ==
    ASSUME Next
    PROVE  \/ said' = Silence
           \/ \E c \in inflight : DiscardStale(c) \/ SubmitShare(c)
  BY DEF Next, PoolEvent, Connect, Disconnect, SubscribeReply, AuthorizeReply, Notify,
         SetExtranonce, SetExtranonceBad, RollWork, RollRefused, Age, Find, CandidateIgnored, SubmitFails, Silent

\* A share names the session, job and extranonce2 of the item its solution
\* was found on, and is credited to that item's account, as long as the last
\* push completed; with no stalled push at all this is every share.
THEOREM SharesNameTheirWork == Spec => []ShareNamesItsWork
<1>1. Init => Paired /\ ShareNamesItsWork
  BY DEF Init, Paired, ShareNamesItsWork, Silence
<1>2. Paired /\ ShareNamesItsWork /\ [Next]_vars => ShareNamesItsWork'
  <2> SUFFICES ASSUME Paired, ShareNamesItsWork, [Next]_vars
               PROVE  ShareNamesItsWork'
    OBVIOUS
  <2>1. CASE said' = Silence
    BY <2>1 DEF ShareNamesItsWork, Silence
  <2>2. ASSUME NEW c \in inflight, DiscardStale(c)
        PROVE  ShareNamesItsWork'
    BY <2>2 DEF DiscardStale, ShareNamesItsWork
  <2>3. ASSUME NEW c \in inflight, SubmitShare(c)
        PROVE  ShareNamesItsWork'
    <3>1. ~stalled' => c = cur
      BY <2>3 DEF SubmitShare, Solution, Paired, record
    <3> QED
      BY <2>3, <3>1 DEF SubmitShare, ShareNamesItsWork, NamesItsWork, Credit
  <2>4. CASE UNCHANGED vars
    BY <2>4 DEF vars, record, ShareNamesItsWork, NamesItsWork
  <2> QED
    BY <2>1, <2>2, <2>3, <2>4, NextSaid
<1> QED
  BY <1>1, <1>2, NextPaired, PTL DEF Spec

---------------------------------------------------------------------------
(* Stale solutions. *)

\* Only a notify touches a session's job.
LEMMA HandlersKeepJob ==
    ASSUME NEW s \in SessionType
    PROVE  /\ Drop(s).job = s.job /\ Dialled(s).job = s.job
           /\ OnSubscribe(s).job = s.job /\ OnSubscribeBadSize(s).job = s.job
           /\ \A ok \in BOOLEAN : OnAuthorize(s, ok).job = s.job
           /\ OnSetExtranonce(s).job = s.job /\ OnSetExtranonceBad(s).job = s.job
           /\ OnSubscribeBadHex(s).job = s.job
  BY DEF Drop, Dialled, OnSubscribe, OnSubscribeBadSize, OnSubscribeBadHex, OnAuthorize,
         OnSetExtranonce, OnSetExtranonceBad, SessionType

\* Every step keeps g_cur on an announced job, and a clean job the newest
\* clean one.
LEMMA NextInOrder == TypeOK /\ JobsInOrder /\ [Next]_vars => JobsInOrder'
<1> SUFFICES ASSUME TypeOK, JobsInOrder, [Next]_vars
             PROVE  JobsInOrder'
  OBVIOUS
<1>1. \A x \in Sessions : sess[x] \in SessionType
  BY DEF TypeOK
<1>2. ASSUME NEW x \in Sessions, NEW s, Update(x, s), s.job = sess[x].job,
             UNCHANGED <<cur, cleaned>>
      PROVE  JobsInOrder'
  <2>1. \A y \in Sessions : sess'[y].job = sess[y].job
    BY <1>2 DEF Update, TypeOK
  <2>2. cur.valid => cur.sess \in Sessions
    BY CurTyped
  <2> QED
    BY <1>2, <2>1, <2>2 DEF JobsInOrder
<1>3. ASSUME NEW x \in Sessions, PoolEvent(x)
      PROVE  JobsInOrder'
  <2>1. CASE Connect(x)
    BY <1>1, <1>2, <2>1, HandlersKeepJob DEF Connect, work, record
  <2>2. CASE Disconnect(x)
    BY <1>1, <1>2, <2>2, HandlersKeepJob DEF Disconnect, work, record
  <2>3. CASE SubscribeReply(x)
    BY <1>1, <1>2, <2>3, HandlersKeepJob DEF SubscribeReply, work, record
  <2>4. CASE AuthorizeReply(x)
    BY <1>1, <1>2, <2>4, HandlersKeepJob DEF AuthorizeReply, work, record
  <2>5. CASE SetExtranonce(x)
    BY <1>1, <1>2, <2>5, HandlersKeepJob DEF SetExtranonce, work, record
  <2>7. CASE SetExtranonceBad(x)
    BY <1>1, <1>2, <2>7, HandlersKeepJob DEF SetExtranonceBad, work, record
  <2>6. CASE Notify(x)
    <3>1. PICK prev \in PrevHashes, clean, fits \in BOOLEAN :
                 /\ Update(x, OnNotify(sess[x], prev, clean, fits))
                 /\ cleaned' = IF clean THEN [cleaned EXCEPT ![x] = sess[x].job.seq + 1]
                                        ELSE cleaned
      BY <2>6 DEF Notify
    <3>2. sess[x].job.seq \in Nat
      BY <1>1 DEF SessionType, Jobs
    <3>3. /\ sess'[x].job.seq = sess[x].job.seq + 1
          /\ sess'[x].job.clean = clean
      BY <1>1, <3>1 DEF Update, OnNotify, SessionType, TypeOK
    <3>4. \A y \in Sessions : y # x => sess'[y] = sess[y] /\ cleaned'[y] = cleaned[y]
      BY <3>1 DEF Update, TypeOK
    <3>5. clean => cleaned'[x] = sess[x].job.seq + 1
      BY <3>1 DEF TypeOK
    <3>6. \A y \in Sessions : sess'[y].job.clean => cleaned'[y] = sess'[y].job.seq
      BY <3>3, <3>4, <3>5 DEF JobsInOrder
    <3>7. cur.valid => cur.sess \in Sessions /\ cur.seq \in Nat
      BY CurTyped
    <3>8. cur.valid => cur.seq <= sess'[cur.sess].job.seq
      BY <3>2, <3>3, <3>4, <3>7 DEF JobsInOrder
    <3> QED
      BY <2>6, <3>6, <3>8 DEF JobsInOrder, Notify, work
  <2> QED
    BY <1>3, <2>1, <2>2, <2>3, <2>4, <2>5, <2>6, <2>7 DEF PoolEvent
<1>4. CASE RollWork
  <2>1. /\ Source \in Sessions
        /\ sess[Source].job.seq \in Nat
    BY <1>1 DEF Source, Sessions, SessionType, Jobs
  <2>2. cur'.seq = sess[Source].job.seq /\ cur'.sess = Source
    BY <1>4 DEF RollWork, Item
  <2> QED
    BY <1>4, <2>1, <2>2 DEF RollWork, JobsInOrder
<1>5. ASSUME NEW c \in inflight, SubmitFails(c)
      PROVE  JobsInOrder'
  <2>1. cur.sess \in Sessions
    BY <1>5, SolutionTyped DEF SubmitFails
  <2> QED
    BY <1>1, <1>2, <1>5, <2>1, HandlersKeepJob DEF SubmitFails, record
<1>6. CASE UNCHANGED <<sess, cur, cleaned>>
  BY <1>6 DEF JobsInOrder
<1>7. CASE RollRefused \/ Age \/ Find \/ UNCHANGED vars
  BY <1>6, <1>7 DEF RollRefused, Age, Find, vars, work, record
<1>8. ASSUME NEW c \in inflight, CandidateIgnored(c) \/ DiscardStale(c) \/ SubmitShare(c)
      PROVE  JobsInOrder'
  BY <1>6, <1>8 DEF CandidateIgnored, DiscardStale, SubmitShare, record
<1> QED
  BY <1>3, <1>4, <1>5, <1>7, <1>8 DEF Next, Polled, Sessions

\* st_on_candidate discards a solution as stale only when its pool has sent a
\* clean job since: clean_jobs = false alone never costs a share.
THEOREM OnlyVoidDiscarded == Spec => []NoLiveShareDiscarded
<1>1. Init => JobsInOrder /\ NoLiveShareDiscarded
  BY DEF Init, JobsInOrder, NoLiveShareDiscarded, Silence, NewSession, NoItem
<1>2. TypeOK /\ JobsInOrder /\ NoLiveShareDiscarded /\ [Next]_vars => NoLiveShareDiscarded'
  <2> SUFFICES ASSUME TypeOK, JobsInOrder, NoLiveShareDiscarded, [Next]_vars
               PROVE  NoLiveShareDiscarded'
    OBVIOUS
  <2>1. CASE said' = Silence
    BY <2>1 DEF NoLiveShareDiscarded, Silence
  <2>2. ASSUME NEW c \in inflight, DiscardStale(c)
        PROVE  NoLiveShareDiscarded'
    <3>1. cur \in Items /\ cur.sess \in Sessions
      BY <2>2, SolutionTyped DEF DiscardStale
    <3>2. cur.seq \in Nat /\ sess[cur.sess].job.seq \in Nat
      BY <3>1 DEF Items, TypeOK, SessionType, Jobs
    <3>3. /\ cur.seq <= sess[cur.sess].job.seq
          /\ cur.seq # sess[cur.sess].job.seq
          /\ cleaned[cur.sess] = sess[cur.sess].job.seq
      BY <2>2, <3>1 DEF DiscardStale, Solution, Stale, JobsInOrder
    <3>4. Void(cur.sess, cur.seq)
      BY <3>2, <3>3 DEF Void
    <3> QED
      BY <2>2, <3>4 DEF DiscardStale, NoLiveShareDiscarded
  <2>3. ASSUME NEW c \in inflight, SubmitShare(c)
        PROVE  NoLiveShareDiscarded'
    BY <2>3 DEF SubmitShare, NoLiveShareDiscarded
  <2>4. CASE UNCHANGED vars
    BY <2>4 DEF vars, NoLiveShareDiscarded
  <2> QED
    BY <2>1, <2>2, <2>3, <2>4, NextSaid
<1> QED
  BY <1>1, <1>2, PoolTypeCorrect, NextInOrder, PTL DEF Spec

---------------------------------------------------------------------------
(* The developer fee. *)

\* A roll counts its epoch, and a scheduled dev job is skipped, mined or lost.
LEMMA RollLedger ==
    ASSUME TypeOK, DevFeeLedger, fee' = Epoch,
           made' \in Outcomes,
           made'.mined + made'.lost = made.mined + made.lost + IF FromDev THEN 1 ELSE 0,
           made'.main + made'.mined + made'.lost + made'.refused
               = made.main + made.mined + made.lost + made.refused + 1
    PROVE  DevFeeLedger'
<1>1. /\ fee.jobs \in Nat /\ fee.dev_jobs \in Nat /\ fee.skipped \in Nat
      /\ made.main \in Nat /\ made.mined \in Nat /\ made.lost \in Nat
      /\ made.refused \in Nat
      /\ made'.main \in Nat /\ made'.mined \in Nat /\ made'.lost \in Nat
      /\ made'.refused \in Nat
  BY DEF TypeOK, Outcomes
<1>2. /\ fee'.jobs = fee.jobs + 1
      /\ fee'.dev_jobs = IF WantDev THEN fee.dev_jobs + 1 ELSE fee.dev_jobs
      /\ fee'.skipped = IF WantDev /\ ~FromDev THEN fee.skipped + 1 ELSE fee.skipped
  BY DEF Epoch, TypeOK
<1>3. FromDev => WantDev
  BY DEF FromDev, TryDev
<1>4. fee'.dev_jobs = fee'.jobs \div DEVFEE_INTERVAL
  <2>1. (fee.jobs + 1) \div DEVFEE_INTERVAL
            = (fee.jobs \div DEVFEE_INTERVAL) + (IF WantDev THEN 1 ELSE 0)
    BY <1>1, DivStep, IntervalAssumption DEF WantDev
  <2>2. fee.dev_jobs = fee.jobs \div DEVFEE_INTERVAL
    BY DEF DevFeeLedger
  <2> QED
    BY <1>1, <1>2, <2>1, <2>2
<1>5. fee'.dev_jobs = fee'.skipped + made'.mined + made'.lost
  BY <1>1, <1>2, <1>3 DEF DevFeeLedger
<1>6. fee'.jobs = made'.main + made'.mined + made'.lost + made'.refused
  BY <1>1, <1>2 DEF DevFeeLedger
<1> QED
  BY <1>4, <1>5, <1>6 DEF DevFeeLedger

\* The fee ledger balances: after any number of epochs, every
\* DEVFEE_INTERVAL-th was scheduled for the developer, and each of those was
\* reported as skipped, was mined, or was lost with its upload; and every epoch
\* made one item or was refused.
THEOREM FeeLedgerBalances == Spec => []DevFeeLedger
<1>1. Init => DevFeeLedger
  <2>1. 0 \div DEVFEE_INTERVAL = 0
    BY IntervalAssumption
  <2> QED
    BY <2>1 DEF Init, DevFeeLedger
<1>2. TypeOK /\ DevFeeLedger /\ [Next]_vars => DevFeeLedger'
  <2> SUFFICES ASSUME TypeOK, DevFeeLedger, [Next]_vars
               PROVE  DevFeeLedger'
    OBVIOUS
  <2>1. CASE RollWork
    <3>1. made' = Made
      BY <2>1 DEF RollWork
    <3>2. /\ made'.mined + made'.lost = made.mined + made.lost + IF FromDev THEN 1 ELSE 0
          /\ made'.main + made'.mined + made'.lost = made.main + made.mined + made.lost + 1
          /\ made'.refused = made.refused /\ made' \in Outcomes
      BY <3>1, MadeTyped
    <3>3. made'.main + made'.mined + made'.lost + made'.refused
              = made.main + made.mined + made.lost + made.refused + 1
      BY <3>2 DEF TypeOK, Outcomes
    <3> QED
      BY <2>1, <3>2, <3>3, RollLedger DEF RollWork
  <2>2. CASE RollRefused
    <3>1. ~FromDev
      BY <2>2 DEF RollRefused, Source, FromDev
    <3>2. /\ made'.main = made.main /\ made'.mined = made.mined /\ made'.lost = made.lost
          /\ made'.refused = made.refused + 1 /\ made' \in Outcomes
      BY <2>2 DEF RollRefused, TypeOK, Outcomes
    <3>3. /\ made'.mined + made'.lost = made.mined + made.lost + IF FromDev THEN 1 ELSE 0
          /\ made'.main + made'.mined + made'.lost + made'.refused
                 = made.main + made.mined + made.lost + made.refused + 1
      BY <3>1, <3>2 DEF TypeOK, Outcomes
    <3> QED
      BY <2>2, <3>2, <3>3, RollLedger DEF RollRefused
  <2>3. CASE UNCHANGED <<fee, made>>
    BY <2>3 DEF DevFeeLedger
  <2>4. ASSUME NEW x, PoolEvent(x)
        PROVE  DevFeeLedger'
    BY <2>3, <2>4 DEF PoolEvent, Connect, Disconnect, SubscribeReply, AuthorizeReply,
                      Notify, SetExtranonce, SetExtranonceBad, work, record
  <2>5. CASE Age \/ Find \/ UNCHANGED vars
    BY <2>3, <2>5 DEF Age, Find, vars, work, record
  <2>6. ASSUME NEW c, CandidateIgnored(c) \/ DiscardStale(c) \/ SubmitFails(c)
        PROVE  DevFeeLedger'
    BY <2>3, <2>6 DEF CandidateIgnored, DiscardStale, SubmitFails, record
  <2>7. ASSUME NEW c, SubmitShare(c)
        PROVE  DevFeeLedger'
    <3>1. /\ fee'.jobs = fee.jobs /\ fee'.dev_jobs = fee.dev_jobs
          /\ fee'.skipped = fee.skipped /\ made' = made
      BY <2>7 DEF SubmitShare, record, TypeOK
    <3> QED
      BY <3>1 DEF DevFeeLedger
  <2> QED
    BY <2>1, <2>2, <2>4, <2>5, <2>6, <2>7 DEF Next
<1> QED
  BY <1>1, <1>2, PoolTypeCorrect, PTL DEF Spec

====
