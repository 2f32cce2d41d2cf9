----------------------- MODULE StratumSessionProofs -----------------------
(***************************************************************************)
(* Proofs about the connection side of a Stratum session, for any back-off *)
(* and wait limits, any number of nameservers, lines in flight, shares,    *)
(* faults and moves of the pool.                                           *)
(***************************************************************************)
EXTENDS StratumSession, ArithmeticLemmas, FiniteSetTheorems, SequenceTheorems, TLAPS

USE SessionConstants

SessionType == [fd : BOOLEAN, subscribed : BOOLEAN, authorized : BOOLEAN, have_job : BOOLEAN,
                addr : Ips \cup {None}, backoff : 0 .. BackoffMax,
                wait : 0 .. Max({BackoffMax, MaxAsked}), redir : {"host", "port0", None},
                submitted : 0 .. MaxShares, accepted : Nat, rejected : Nat]
WireType    == [open : BOOLEAN, pipe : Seq(Line), asked : SUBSET Hello,
                shares : 0 .. MaxShares, granted : SUBSET (Hello \cup {"notify"})]
HistType    == [faults : 0 .. MaxFaults, moves : 0 .. MaxMoves,
                strays : Nat, redirects : Nat, dialled : Nat, built : BOOLEAN]

---------------------------------------------------------------------------
(* Counting lines. *)

\* The lines of q of one of the kinds, as Lines counts them.
Count(q, kinds) == Cardinality({i \in DOMAIN q : q[i].kind \in kinds})

\* Moving a set of positions along changes none of their number.
LEMMA ShiftedCount ==
    ASSUME NEW S \in SUBSET Int, IsFiniteSet(S), NEW d \in Int
    PROVE  /\ IsFiniteSet({i + d : i \in S})
           /\ Cardinality({i + d : i \in S}) = Cardinality(S)
<1> DEFINE T == {i + d : i \in S}
           f == [i \in S |-> i + d]
<1>1. f \in [S -> T]
  OBVIOUS
<1>2. ASSUME NEW a \in S, NEW b \in S, f[a] = f[b]
      PROVE  a = b
  <2>1. a \in Int /\ b \in Int /\ a + d = b + d
    BY <1>2
  <2> QED
    BY <2>1
<1>3. \A t \in T : \E a \in S : f[a] = t
  OBVIOUS
<1>4. f \in Bijection(S, T)
  BY <1>1, <1>2, <1>3 DEF Bijection, Injection, Surjection, IsInjective
<1>5. ExistsBijection(S, T)
  BY <1>4 DEF ExistsBijection
<1> QED
  BY <1>5, FS_Bijection

\* A count is a number, and of no lines it is zero.
LEMMA CountNat ==
    ASSUME NEW q \in Seq(Line), NEW kinds
    PROVE  /\ IsFiniteSet({i \in DOMAIN q : q[i].kind \in kinds})
           /\ Count(q, kinds) \in Nat
           /\ q = <<>> => Count(q, kinds) = 0
<1> DEFINE S == {i \in DOMAIN q : q[i].kind \in kinds}
<1>1. DOMAIN q = 1 .. Len(q) /\ Len(q) \in Nat
  OBVIOUS
<1>2. IsFiniteSet(1 .. Len(q)) /\ S \in SUBSET (1 .. Len(q))
  BY <1>1, FS_Interval
<1>3. IsFiniteSet(S)
  BY <1>2, FS_Subset
<1>4. q = <<>> => S = {}
  OBVIOUS
<1> QED
  BY <1>3, <1>4, FS_CardinalityType, FS_EmptySet DEF Count

\* A line that is written.
LEMMA CountAppend ==
    ASSUME NEW q \in Seq(Line), NEW l \in Line, NEW kinds
    PROVE  Count(Append(q, l), kinds) = Count(q, kinds) + IF l.kind \in kinds THEN 1 ELSE 0
<1> DEFINE n == Len(q) + 1
           r == Append(q, l)
           S == {i \in DOMAIN q : q[i].kind \in kinds}
           T == {i \in DOMAIN r : r[i].kind \in kinds}
<1>1. /\ r \in Seq(Line) /\ DOMAIN r = 1 .. n /\ DOMAIN q = 1 .. Len(q) /\ Len(q) \in Nat
      /\ r[n] = l /\ \A i \in 1 .. Len(q) : r[i] = q[i]
  BY AppendProperties
<1>2. IsFiniteSet(S) /\ n \notin S
  <2>1. IsFiniteSet(S)
    BY CountNat
  <2>2. n \notin 1 .. Len(q)
    BY <1>1
  <2> QED
    BY <1>1, <2>1, <2>2
<1>3. T = IF l.kind \in kinds THEN S \cup {n} ELSE S
  <2> HIDE DEF r
  <2>1. \A i \in 1 .. n : i = n \/ i \in 1 .. Len(q)
    BY <1>1
  <2> QED
    BY <1>1, <2>1
<1>4. Cardinality(S \cup {n}) = Cardinality(S) + 1
  BY <1>2, FS_AddElement
<1>5. Cardinality(S) \in Nat
  BY <1>2, FS_CardinalityType
<1> HIDE DEF S, T, r, n
<1>6. Cardinality(T) = Cardinality(S) + IF l.kind \in kinds THEN 1 ELSE 0
  BY <1>3, <1>4, <1>5
<1> QED
  BY <1>6 DEF Count, S, T, r

\* A prefix of the lines is read.
LEMMA CountSplit ==
    ASSUME NEW q \in Seq(Line), NEW n \in 0 .. Len(q), NEW kinds
    PROVE  /\ SubSeq(q, 1, n) \in Seq(Line) /\ SubSeq(q, n + 1, Len(q)) \in Seq(Line)
           /\ Count(q, kinds) = Count(SubSeq(q, 1, n), kinds)
                                + Count(SubSeq(q, n + 1, Len(q)), kinds)
<1> DEFINE a == SubSeq(q, 1, n)
           b == SubSeq(q, n + 1, Len(q))
           S == {i \in DOMAIN q : q[i].kind \in kinds}
           A == {i \in DOMAIN a : a[i].kind \in kinds}
           B == {i \in DOMAIN b : b[i].kind \in kinds}
           C == {i + n : i \in B}
<1>1. Len(q) \in Nat /\ n \in Nat /\ n <= Len(q) /\ DOMAIN q = 1 .. Len(q)
      /\ \A i \in 1 .. Len(q) : q[i] \in Line
  OBVIOUS
<1>2. /\ a \in Seq(Line) /\ Len(a) = n /\ DOMAIN a = 1 .. n
      /\ \A i \in 1 .. n : a[i] = q[i]
  <2>1. /\ a \in Seq(Line) /\ Len(a) = (IF 1 <= n THEN n - 1 + 1 ELSE 0)
        /\ \A i \in 1 .. n - 1 + 1 : a[i] = q[1 + i - 1]
    BY <1>1, SubSeqProperties
  <2> HIDE DEF a
  <2> QED
    BY <1>1, <2>1
<1>3. /\ b \in Seq(Line) /\ Len(b) = Len(q) - n /\ DOMAIN b = 1 .. Len(q) - n
      /\ \A i \in 1 .. Len(q) - n : b[i] = q[i + n]
  <2>1. /\ b \in Seq(Line)
        /\ Len(b) = (IF n + 1 <= Len(q) THEN Len(q) - (n + 1) + 1 ELSE 0)
        /\ \A i \in 1 .. Len(q) - (n + 1) + 1 : b[i] = q[n + 1 + i - 1]
    BY <1>1, SubSeqProperties
  <2> HIDE DEF b
  <2>2. Len(b) = Len(q) - n /\ DOMAIN b = 1 .. Len(q) - n
    <3> DEFINE m == Len(q)
    <3>1. m \in Nat /\ n \in Nat /\ n <= m
          /\ Len(b) = (IF n + 1 <= m THEN m - (n + 1) + 1 ELSE 0)
      BY <1>1, <2>1
    <3> HIDE DEF m
    <3>2. Len(b) = m - n
      BY <3>1
    <3>3. DOMAIN b = 1 .. Len(b)
      BY <2>1
    <3> QED
      BY <3>2, <3>3 DEF m
  <2>3. ASSUME NEW i \in 1 .. Len(q) - n
        PROVE  b[i] = q[i + n]
    <3>1. i \in 1 .. Len(q) - (n + 1) + 1 /\ n + 1 + i - 1 = i + n
      BY <1>1
    <3> QED
      BY <2>1, <3>1
  <2> QED
    BY <2>1, <2>2, <2>3
<1> HIDE DEF a, b
<1>4. IsFiniteSet(A) /\ IsFiniteSet(B)
  BY <1>2, <1>3, CountNat
<1>5. IsFiniteSet(C) /\ Cardinality(C) = Cardinality(B)
  <2>1. B \in SUBSET Int
    BY <1>1, <1>3
  <2>2. n \in Int
    BY <1>1
  <2> HIDE DEF B
  <2> QED
    BY <1>4, <2>1, <2>2, ShiftedCount
<1>6. S = A \cup C
  <2>1. ASSUME NEW i \in S
        PROVE  i \in A \cup C
    <3>1. i \in 1 .. Len(q) /\ q[i].kind \in kinds
      BY <1>1
    <3>2. CASE i <= n
      BY <1>1, <1>2, <3>1, <3>2
    <3>3. CASE i > n
      <4>1. i - n \in 1 .. Len(q) - n /\ (i - n) + n = i
        BY <1>1, <3>1, <3>3
      <4>2. i - n \in B
        BY <1>3, <3>1, <4>1
      <4> QED
        BY <4>1, <4>2
    <3> QED
      BY <1>1, <3>1, <3>2, <3>3
  <2>2. A \subseteq S
    BY <1>1, <1>2
  <2>3. C \subseteq S
    <3>1. ASSUME NEW i \in B
          PROVE  i + n \in S
      <4>1. i \in 1 .. Len(q) - n /\ b[i] = q[i + n] /\ b[i].kind \in kinds
        BY <1>3
      <4>2. i + n \in 1 .. Len(q)
        BY <1>1, <4>1
      <4> QED
        BY <1>1, <4>1, <4>2
    <3> QED
      BY <3>1
  <2> QED
    BY <2>1, <2>2, <2>3
<1>7. A \cap C = {}
  <2>1. \A i \in A : i \in 1 .. n
    BY <1>2
  <2>2. ASSUME NEW i \in B
        PROVE  i + n \notin 1 .. n
    <3>1. i \in 1 .. Len(q) - n
      BY <1>3, Zenon
    <3> HIDE DEF B
    <3> QED
      BY <1>1, <3>1
  <2> HIDE DEF A, B
  <2> QED
    BY <2>1, <2>2
<1> HIDE DEF A, B, C, S
<1>8. Cardinality(S) = Cardinality(A) + Cardinality(B)
  <2>1. Cardinality(A \cup C) = Cardinality(A) + Cardinality(C) - Cardinality(A \cap C)
    BY <1>4, <1>5, FS_Union
  <2>2. Cardinality(A) \in Nat /\ Cardinality(C) \in Nat /\ Cardinality({}) = 0
    BY <1>4, <1>5, FS_CardinalityType, FS_EmptySet
  <2>3. Cardinality(A \cap C) = 0 /\ Cardinality(S) = Cardinality(A \cup C)
    BY <1>6, <1>7, <2>2, Zenon
  <2> QED
    BY <1>5, <2>1, <2>2, <2>3
<1> QED
  BY <1>2, <1>3, <1>8 DEF Count, A, B, S, a, b

\* The first line is taken.
LEMMA CountTail ==
    ASSUME NEW q \in Seq(Line), q # <<>>, NEW kinds
    PROVE  /\ Tail(q) \in Seq(Line) /\ Head(q) \in Line
           /\ Count(q, kinds) = Count(Tail(q), kinds) + IF Head(q).kind \in kinds THEN 1 ELSE 0
<1>1. /\ Tail(q) \in Seq(Line) /\ Head(q) \in Line /\ Head(q) = q[1]
      /\ Len(q) \in Nat /\ 1 \in 0 .. Len(q)
  BY HeadTailProperties
<1>2. Tail(q) = SubSeq(q, 1 + 1, Len(q))
  BY TailIsSubSeq
<1> DEFINE a == SubSeq(q, 1, 1)
<1>3. a \in Seq(Line) /\ DOMAIN a = {1} /\ a[1] = Head(q)
  <2>1. \A i \in 1 .. 1 : q[i] \in Line
    BY <1>1
  <2>2. /\ a \in Seq(Line) /\ Len(a) = (IF 1 <= 1 THEN 1 - 1 + 1 ELSE 0)
        /\ \A i \in 1 .. 1 - 1 + 1 : a[i] = q[1 + i - 1]
    BY <2>1, SubSeqProperties
  <2> HIDE DEF a
  <2> QED
    BY <1>1, <2>2
<1>4. {i \in DOMAIN a : a[i].kind \in kinds} = IF Head(q).kind \in kinds THEN {1} ELSE {}
  BY <1>3
<1>5. Count(a, kinds) = IF Head(q).kind \in kinds THEN 1 ELSE 0
  BY <1>4, FS_Singleton, FS_EmptySet DEF Count
<1>6. Count(q, kinds) = Count(a, kinds) + Count(Tail(q), kinds)
  <2>1. ASSUME NEW m \in 0 .. Len(q)
        PROVE  Count(q, kinds) = Count(SubSeq(q, 1, m), kinds)
                                 + Count(SubSeq(q, m + 1, Len(q)), kinds)
    BY CountSplit, Zenon
  <2> QED
    BY <1>1, <1>2, <2>1, Zenon
<1>7. Count(Tail(q), kinds) \in Nat
  BY <1>1, CountNat
<1> HIDE DEF a
<1> QED
  BY <1>1, <1>5, <1>6, <1>7

---------------------------------------------------------------------------
(* The operators dial() is made of. *)

\* The lesser and the greater of two numbers.
LEMMA MinMaxOfTwo ==
    ASSUME NEW a \in Nat, NEW b \in Nat
    PROVE  /\ Min({a, b}) \in {a, b} /\ Min({a, b}) <= a /\ Min({a, b}) <= b
           /\ Max({a, b}) \in {a, b} /\ Max({a, b}) >= a /\ Max({a, b}) >= b
<1>1. \E x \in {a, b} : \A y \in {a, b} : x <= y
  OBVIOUS
<1>2. \E x \in {a, b} : \A y \in {a, b} : x >= y
  OBVIOUS
<1>3. Min({a, b}) \in {a, b} /\ \A y \in {a, b} : Min({a, b}) <= y
  BY <1>1, Zenon DEF Min
<1>4. Max({a, b}) \in {a, b} /\ \A y \in {a, b} : Max({a, b}) >= y
  BY <1>2, Zenon DEF Max
<1> QED
  BY <1>3, <1>4

\* The longest wait covers both the back-off's cap and what a pool may ask.
LEMMA Limits ==
    /\ BackoffMin \in Nat /\ BackoffMax \in Nat /\ MaxAsked \in Nat /\ NServers \in Nat
    /\ BackoffMin <= BackoffMax
    /\ MaxPipe \in Nat /\ MaxFaults \in Nat /\ MaxMoves \in Nat /\ MaxShares \in Nat
    /\ Max({BackoffMax, MaxAsked}) \in Nat
    /\ BackoffMax <= Max({BackoffMax, MaxAsked}) /\ MaxAsked <= Max({BackoffMax, MaxAsked})
    /\ 0 .. MaxShares \subseteq Nat
  BY MinMaxOfTwo

\* The first nameserver that answers gives the pool's address, or none does.
LEMMA ResolveValue ==
    ASSUME NEW answer \in Answers
    PROVE  Resolve(answer) \in {None, poolAt}
<1> DEFINE A == {i \in 1 .. NServers : answer[i] # None}
<1>1. CASE A = {}
  BY <1>1 DEF Resolve
<1>2. CASE A # {}
  <2>1. A \in SUBSET Nat
    BY Limits
  <2>2. \E x \in A : \A y \in A : x <= y
    <3> HIDE DEF A
    <3> QED
      BY <1>2, <2>1, LeastElement
  <2>3. Min(A) \in A
    <3> HIDE DEF A
    <3> QED
      BY <2>2, Zenon DEF Min
  <2>4. answer[Min(A)] \in {None, poolAt}
    BY <2>3 DEF Answers
  <2>5. Resolve(answer) = answer[Min(A)]
    BY <1>2, Zenon DEF Resolve
  <2> QED
    BY <2>4, <2>5
<1> QED
  BY <1>1, <1>2

\* dial() connects to an address a nameserver gave, now or earlier.
LEMMA AddressValue ==
    ASSUME TypeOK, NEW a \in Address
    PROVE  a \in Ips
<1>1. s.addr \in Ips \cup {None} /\ poolAt \in Ips
  BY DEF TypeOK
<1>2. CASE s.addr # None /\ ~Redirected
  BY <1>1, <1>2 DEF Address
<1>3. CASE ~(s.addr # None /\ ~Redirected)
  <2>1. PICK answer \in Answers : a = Resolve(answer) /\ a # None
    BY <1>3, Zenon DEF Address
  <2> QED
    BY <1>1, <2>1, ResolveValue
<1> QED
  BY <1>2, <1>3

\* What a step of dial() or drop() leaves alone: the counters.
SameCounts(t, u) == u.submitted = t.submitted /\ u.accepted = t.accepted
                    /\ u.rejected = t.rejected

\* What it leaves alone of the flags.
SameFlags(t, u) == u.subscribed = t.subscribed /\ u.authorized = t.authorized
                   /\ u.have_job = t.have_job

\* A redirect is consumed; nothing else of the session changes.
LEMMA ConsumeStep ==
    ASSUME NEW t \in SessionType
    PROVE  /\ Consume(t) \in SessionType /\ Consume(t).redir = None
           /\ Consume(t).fd = t.fd /\ SameCounts(t, Consume(t)) /\ SameFlags(t, Consume(t))
  BY DEF Consume, SessionType, SameCounts, SameFlags

\* The address is cached, or was a redirect's.
LEMMA WithAddrStep ==
    ASSUME NEW t \in SessionType, NEW a \in Ips
    PROVE  LET u == WithAddr(t, a)
           IN  /\ u \in SessionType /\ u.redir = t.redir /\ u.fd = t.fd
               /\ SameCounts(t, u) /\ SameFlags(t, u)
<1>1. LET u == [t EXCEPT !.addr = a]
      IN  /\ u \in SessionType /\ u.redir = t.redir /\ u.fd = t.fd
          /\ SameCounts(t, u) /\ SameFlags(t, u)
  BY DEF SessionType, SameCounts, SameFlags
<1>2. SameCounts(t, t) /\ SameFlags(t, t)
  BY DEF SameCounts, SameFlags
<1> QED
  BY <1>1, <1>2 DEF WithAddr

\* The back-off grows up to its cap.
LEMMA BackOffStep ==
    ASSUME NEW t \in SessionType
    PROVE  LET u == BackOff(t)
           IN  /\ u \in SessionType /\ u.redir = t.redir /\ u.fd = t.fd
               /\ SameCounts(t, u) /\ SameFlags(t, u)
<1> DEFINE c == IF t.backoff = 0 THEN BackoffMin ELSE 2 * t.backoff
           b == Min({BackoffMax, c})
<1>1. c \in Nat
  BY Limits DEF SessionType
<1>2. b \in 0 .. BackoffMax /\ b \in 0 .. Max({BackoffMax, MaxAsked})
  <2> HIDE DEF c
  <2>1. b \in {BackoffMax, c} /\ b <= BackoffMax
    BY <1>1, MinMaxOfTwo, Limits
  <2> HIDE DEF b
  <2> QED
    BY <1>1, <2>1, Limits
<1> HIDE DEF b
<1>3. LET u == [t EXCEPT !.backoff = b, !.wait = b]
      IN  /\ u \in SessionType /\ u.redir = t.redir /\ u.fd = t.fd
          /\ SameCounts(t, u) /\ SameFlags(t, u)
  BY <1>2 DEF SessionType, SameCounts, SameFlags
<1>4. BackOff(t) = [t EXCEPT !.backoff = b, !.wait = b]
  BY DEF BackOff, b
<1> QED
  BY <1>3, <1>4

\* drop() clears the flags and keeps the counters.
LEMMA DropStep ==
    ASSUME NEW t \in SessionType
    PROVE  LET u == Drop(t)
           IN  /\ u \in SessionType /\ u.redir = t.redir /\ u.fd = FALSE
               /\ SameCounts(t, u)
               /\ u.subscribed = FALSE /\ u.authorized = FALSE /\ u.have_job = FALSE
  BY DEF Drop, SessionType, SameCounts

\* What a dial and a fault do to the history.
LEMMA HistStep ==
    ASSUME TypeOK
    PROVE  /\ LET h == CountDial(hist)
              IN  /\ h \in HistType /\ h.redirects = hist.redirects /\ h.strays = hist.strays
                  /\ h.dialled = hist.dialled + IF Redirected THEN 1 ELSE 0
           /\ hist.faults < MaxFaults =>
                LET h == [CountDial(hist) EXCEPT !.faults = CountDial(hist).faults + 1]
                IN  /\ h \in HistType /\ h.redirects = hist.redirects /\ h.strays = hist.strays
                    /\ h.dialled = hist.dialled + IF Redirected THEN 1 ELSE 0
           /\ hist.faults < MaxFaults =>
                LET h == [hist EXCEPT !.faults = hist.faults + 1]
                IN  /\ h \in HistType /\ h.redirects = hist.redirects
                    /\ h.strays = hist.strays /\ h.dialled = hist.dialled
<1> DEFINE n == hist.dialled + IF Redirected THEN 1 ELSE 0
           m == hist.faults + 1
<1>1. hist \in HistType
  BY DEF TypeOK, HistType
<1>2. n \in Nat
  BY <1>1 DEF HistType
<1>3. CountDial(hist) = [hist EXCEPT !.dialled = n]
  BY DEF CountDial
<1>4. hist.faults < MaxFaults => m \in 0 .. MaxFaults
  BY <1>1, Limits DEF HistType
<1> HIDE DEF n, m
<1>5. LET h == [hist EXCEPT !.dialled = n]
      IN  /\ h \in HistType /\ h.redirects = hist.redirects /\ h.strays = hist.strays
          /\ h.dialled = n /\ h.faults = hist.faults
  BY <1>1, <1>2 DEF HistType
<1>6. hist.faults < MaxFaults =>
        LET h == [[hist EXCEPT !.dialled = n] EXCEPT !.faults = m]
        IN  /\ h \in HistType /\ h.redirects = hist.redirects /\ h.strays = hist.strays
            /\ h.dialled = n
  BY <1>1, <1>2, <1>4 DEF HistType
<1>7. hist.faults < MaxFaults =>
        LET h == [hist EXCEPT !.faults = m]
        IN  /\ h \in HistType /\ h.redirects = hist.redirects
            /\ h.strays = hist.strays /\ h.dialled = hist.dialled
  BY <1>1, <1>4 DEF HistType
<1> QED
  BY <1>3, <1>5, <1>6, <1>7 DEF n, m

---------------------------------------------------------------------------
(* The inductive invariant. *)

Verdicts == {"share", "stray"}

\* A reply that grants a subscription or an authorization was granted by the
\* pool of this connection.
Vouched(q, granted) ==
    \A i \in DOMAIN q : q[i].kind \in {"sub", "auth"} /\ q[i].ok => q[i].kind \in granted

\* A line too long to be read is never dispatched.
NoFlood(q) == \A i \in DOMAIN q : q[i].kind # "flood"

Typed == /\ s \in SessionType /\ rx \in Seq(Line) /\ wire \in WireType
         /\ poolAt \in Ips /\ hist \in HistType

\* Lines are left to dispatch only while connected, and what is under way,
\* read or unread, accounts for every verdict and every grant.
Accounts ==
    /\ rx # <<>> => s.fd
    /\ wire.shares <= s.submitted
    /\ NoFlood(rx)
    /\ Vouched(rx, wire.granted)
    /\ Vouched(wire.pipe, wire.granted)
    /\ s.accepted + s.rejected + Count(rx, Verdicts) + Count(wire.pipe, Verdicts) + wire.shares
        <= s.submitted + hist.strays

SessionInv == Typed /\ Accounts /\ BelievesThisPool /\ RedirectOnce

\* The numbers the accounts are kept in.
LEMMA Numbers ==
    ASSUME SessionInv
    PROVE  /\ s.accepted \in Nat /\ s.rejected \in Nat /\ s.submitted \in Nat
           /\ wire.shares \in Nat /\ hist.strays \in Nat
           /\ hist.redirects \in Nat /\ hist.dialled \in Nat
           /\ Count(rx, Verdicts) \in Nat /\ Count(wire.pipe, Verdicts) \in Nat
           /\ wire.shares <= s.submitted
           /\ s.accepted + s.rejected + Count(rx, Verdicts) + Count(wire.pipe, Verdicts)
                + wire.shares <= s.submitted + hist.strays
<1>0. Typed
  BY DEF SessionInv
<1>1. rx \in Seq(Line) /\ wire.pipe \in Seq(Line)
  BY <1>0 DEF Typed, WireType
<1>2. Count(rx, Verdicts) \in Nat /\ Count(wire.pipe, Verdicts) \in Nat
  BY <1>1, CountNat
<1>3. s.accepted \in Nat /\ s.rejected \in Nat /\ s.submitted \in 0 .. MaxShares
  BY <1>0 DEF Typed, SessionType
<1>4. wire.shares \in 0 .. MaxShares
  BY <1>0 DEF Typed, WireType
<1>5. hist.strays \in Nat /\ hist.redirects \in Nat /\ hist.dialled \in Nat
  BY <1>0 DEF Typed, HistType
<1>6. /\ wire.shares <= s.submitted
      /\ s.accepted + s.rejected + Count(rx, Verdicts) + Count(wire.pipe, Verdicts)
            + wire.shares <= s.submitted + hist.strays
  BY Zenon DEF SessionInv, Accounts
<1> QED
  BY <1>2, <1>3, <1>4, <1>5, <1>6, Limits

\* Lines and shares that are forgotten leave the account balanced.
LEMMA Forget ==
    ASSUME SessionInv
    PROVE  /\ s.accepted + s.rejected + 0 + 0 + 0 <= s.submitted + hist.strays
           /\ 0 <= s.submitted
           /\ s.accepted + s.rejected + 0 + Count(wire.pipe, Verdicts) + wire.shares
                <= s.submitted + hist.strays
  BY Numbers

\* The invariant carries the properties the run checks.
LEMMA InvGives ==
    ASSUME SessionInv
    PROVE  TypeOK /\ VerdictsAccounted /\ BelievesThisPool /\ RedirectOnce
<1>1. TypeOK
  BY DEF SessionInv, Typed, TypeOK, SessionType, WireType, HistType
<1>2. Lines(Verdicts) = Count(rx, Verdicts) + Count(wire.pipe, Verdicts)
  BY DEF Lines, Count
<1>4. s.accepted + s.rejected + Lines(Verdicts) + wire.shares <= s.submitted + hist.strays
  BY <1>2, Numbers
<1> QED
  BY <1>1, <1>4 DEF SessionInv, VerdictsAccounted, Verdicts

\* It holds when stratum_init() is done.
LEMMA InvInit ==
    ASSUME Init
    PROVE  SessionInv
<1>0. <<>> \in Seq(Line)
  OBVIOUS
<1>1. s \in SessionType
  BY Limits DEF Init, SessionType
<1>2. wire \in WireType
  BY Limits, <1>0 DEF Init, NoWire, WireType
<1>3. hist \in HistType
  BY Limits DEF Init, HistType
<1>4. Typed
  BY <1>0, <1>1, <1>2, <1>3 DEF Init, Typed, Ips
<1>5. Count(<<>>, Verdicts) = 0
  BY <1>0, CountNat
<1>6. Vouched(<<>>, {}) /\ NoFlood(<<>>)
  BY DEF Vouched, NoFlood
<1>7. Accounts
  BY <1>5, <1>6 DEF Init, NoWire, Accounts
<1>8. BelievesThisPool /\ RedirectOnce
  BY DEF Init, BelievesThisPool, RedirectOnce, Redirected, None
<1> QED
  BY <1>4, <1>7, <1>8 DEF SessionInv

\* The connection as the pool sees it when there is none, and when a new one
\* was just made.
LEMMA FreshWire ==
    /\ NoWire \in WireType /\ NoWire.shares = 0 /\ NoWire.pipe = <<>>
    /\ LET w == [NoWire EXCEPT !.open = TRUE, !.asked = Hello]
       IN  w \in WireType /\ w.shares = 0 /\ w.pipe = <<>>
    /\ Count(<<>>, Verdicts) = 0
    /\ NoFlood(<<>>) /\ \A g : Vouched(<<>>, g)
<1>0. <<>> \in Seq(Line)
  OBVIOUS
<1>1. Count(<<>>, Verdicts) = 0
  BY <1>0, CountNat
<1>2. NoFlood(<<>>) /\ \A g : Vouched(<<>>, g)
  BY DEF Vouched, NoFlood
<1>3. NoWire \in WireType /\ NoWire.shares = 0 /\ NoWire.pipe = <<>>
  BY Limits, <1>0 DEF NoWire, WireType
<1>4. LET w == [NoWire EXCEPT !.open = TRUE, !.asked = Hello]
      IN  w \in WireType /\ w.shares = 0 /\ w.pipe = <<>>
  <2>1. Hello \in SUBSET Hello
    OBVIOUS
  <2> QED
    BY <1>3, <2>1 DEF WireType
<1> QED
  BY <1>1, <1>2, <1>3, <1>4

---------------------------------------------------------------------------
(* One lemma per operation. *)

\* drop(), from stratum_poll(), stratum_submit() or client.reconnect: nothing
\* is left of the connection; a redirect may just have been armed.
LEMMA DroppedKeeps ==
    ASSUME SessionInv, s' \in SessionType, ~s'.fd, SameCounts(s, s'),
           ~s'.subscribed, ~s'.authorized, ~s'.have_job,
           rx' = <<>>, wire' = NoWire, poolAt' \in Ips, hist' \in HistType,
           hist'.strays = hist.strays, RedirectOnce'
    PROVE  SessionInv'
<1>0. <<>> \in Seq(Line)
  OBVIOUS
<1>1. Typed'
  BY <1>0, FreshWire DEF Typed
<1>2. /\ s'.submitted = s.submitted /\ s'.accepted = s.accepted /\ s'.rejected = s.rejected
      /\ Count(rx', Verdicts) = 0 /\ Count(wire'.pipe, Verdicts) = 0 /\ wire'.shares = 0
  BY FreshWire DEF SameCounts
<1>3. s'.accepted + s'.rejected + Count(rx', Verdicts) + Count(wire'.pipe, Verdicts) + wire'.shares
        <= s'.submitted + hist'.strays
  BY <1>2, Forget
<1>4. Accounts'
  BY <1>2, <1>3, Forget, FreshWire DEF Accounts
<1>5. BelievesThisPool'
  BY DEF BelievesThisPool
<1> QED
  BY <1>1, <1>4, <1>5 DEF SessionInv

\* stratum_poll() meets a closed connection or a full buffer, or
\* stratum_submit() cannot send.
LEMMA DropKeeps ==
    ASSUME SessionInv, PollDrops \/ SubmitFails
    PROVE  SessionInv'
<1>1. /\ s \in SessionType /\ poolAt' \in Ips /\ hist' = hist /\ hist \in HistType
      /\ s' = Drop(s) /\ rx' = <<>> /\ wire' = NoWire /\ s.fd
  BY DEF SessionInv, Typed, PollDrops, SubmitFails, MaySubmit
<1>2. RedirectOnce'
  BY <1>1, DropStep DEF SessionInv, RedirectOnce, Redirected
<1> QED
  BY <1>1, <1>2, DropStep, DroppedKeeps

\* What every outcome of dial() has in common: the redirect is consumed and
\* counted, and the session is down or on a connection just made.
LEMMA DialFacts ==
    ASSUME SessionInv, dial
    PROVE  /\ ~s.fd /\ rx' = <<>> /\ rx = <<>> /\ poolAt' = poolAt
           /\ s' \in SessionType /\ s'.redir = None
           /\ SameCounts(s, s')
           /\ (s'.subscribed => s.subscribed) /\ (s'.authorized => s.authorized)
           /\ (s'.have_job => s.have_job)
           /\ hist' \in HistType /\ hist'.redirects = hist.redirects
           /\ hist'.strays = hist.strays
           /\ hist'.dialled = hist.dialled + IF Redirected THEN 1 ELSE 0
           /\ \/ wire' = wire
              \/ wire' = [NoWire EXCEPT !.open = TRUE, !.asked = Hello]
<1>1. s \in SessionType /\ TypeOK
  BY InvGives DEF SessionInv, Typed
<1>2. ~s.fd /\ rx' = <<>> /\ rx = <<>> /\ poolAt' = poolAt
  BY DEF dial, DialUnresolved, DialNoSocket, DialRefused, DialConnected, DialSendFails, MayDial
<1>3. \/ wire' = wire
      \/ wire' = [NoWire EXCEPT !.open = TRUE, !.asked = Hello]
  BY DEF dial, DialUnresolved, DialNoSocket, DialRefused, DialConnected, DialSendFails
<1>4. /\ hist' \in HistType /\ hist'.redirects = hist.redirects
      /\ hist'.strays = hist.strays
      /\ hist'.dialled = hist.dialled + IF Redirected THEN 1 ELSE 0
  <2>1. \/ hist' = CountDial(hist)
        \/ /\ hist.faults < MaxFaults
           /\ hist' = [CountDial(hist) EXCEPT !.faults = CountDial(hist).faults + 1]
    BY DEF dial, DialUnresolved, DialNoSocket, DialRefused, DialConnected, DialSendFails
  <2> QED
    BY <1>1, <2>1, HistStep
<1> DEFINE Kept(u) == /\ u \in SessionType /\ u.redir = None /\ SameCounts(s, u)
                      /\ (u.subscribed => s.subscribed) /\ (u.authorized => s.authorized)
                      /\ (u.have_job => s.have_job)
<1>5. Kept(Consume(s))
  BY <1>1, ConsumeStep DEF SameFlags
<1>6. ASSUME NEW u, Kept(u), NEW a \in Ips
      PROVE  Kept(WithAddr(u, a))
  BY <1>6, WithAddrStep DEF SameFlags, SameCounts
<1>7. ASSUME NEW u, Kept(u)
      PROVE  Kept(BackOff(u))
  BY <1>7, BackOffStep DEF SameFlags, SameCounts
<1>8. ASSUME NEW u, Kept(u)
      PROVE  Kept([u EXCEPT !.fd = TRUE, !.backoff = 0]) /\ Kept([u EXCEPT !.backoff = 0])
  <2>1. 0 \in 0 .. BackoffMax
    BY Limits
  <2>2. u \in SessionType
    BY <1>8
  <2>3. /\ [u EXCEPT !.fd = TRUE, !.backoff = 0] \in SessionType
        /\ [u EXCEPT !.backoff = 0] \in SessionType
    BY <2>1, <2>2 DEF SessionType
  <2> QED
    BY <1>8, <2>2, <2>3 DEF SessionType, SameCounts
<1>9. ASSUME NEW u, Kept(u)
      PROVE  Kept(Drop(u))
  BY <1>9, DropStep DEF SameCounts
<1> HIDE DEF Kept
<1>10. Kept(s')
  <2>1. CASE DialUnresolved
    BY <2>1, <1>5, <1>7 DEF DialUnresolved
  <2>2. CASE DialNoSocket
    BY <2>2, <1>1, <1>5, <1>6, AddressValue DEF DialNoSocket
  <2>3. CASE DialRefused
    BY <2>3, <1>1, <1>5, <1>6, <1>7, AddressValue DEF DialRefused
  <2>4. CASE DialConnected
    BY <2>4, <1>1, <1>5, <1>6, <1>8, AddressValue DEF DialConnected
  <2>5. CASE DialSendFails
    BY <2>5, <1>1, <1>5, <1>6, <1>8, <1>9, AddressValue DEF DialSendFails
  <2> QED
    BY <2>1, <2>2, <2>3, <2>4, <2>5 DEF dial
<1> QED
  BY <1>2, <1>3, <1>4, <1>10 DEF Kept

\* dial(), with every way it can fail.
LEMMA DialKeeps ==
    ASSUME SessionInv, dial
    PROVE  SessionInv'
<1>1. Typed'
  BY DialFacts, FreshWire DEF SessionInv, Typed
<1>2. ~s.subscribed /\ ~s.authorized /\ ~s.have_job
  BY DialFacts DEF SessionInv, BelievesThisPool
<1>3. BelievesThisPool'
  BY <1>2, DialFacts DEF BelievesThisPool
<1>4. RedirectOnce'
  <2>1. hist.dialled \in Nat
    BY DEF SessionInv, Typed, HistType
  <2> QED
    BY <2>1, DialFacts DEF SessionInv, RedirectOnce, Redirected
<1>5. /\ s'.submitted = s.submitted /\ s'.accepted = s.accepted /\ s'.rejected = s.rejected
      /\ Count(rx, Verdicts) = 0 /\ Count(rx', Verdicts) = 0 /\ hist'.strays = hist.strays
  BY DialFacts, FreshWire DEF SameCounts
<1>5a. \/ wire' = wire
       \/ wire'.shares = 0 /\ wire'.pipe = <<>> /\ Count(wire'.pipe, Verdicts) = 0
  BY DialFacts, FreshWire
<1>6. ASSUME wire' = wire
      PROVE  Accounts'
  <2>1. Vouched(wire.pipe, wire.granted) /\ wire.shares <= s.submitted
    BY DEF SessionInv, Accounts
  <2>2. s'.accepted + s'.rejected + Count(rx', Verdicts) + Count(wire'.pipe, Verdicts)
            + wire'.shares <= s'.submitted + hist'.strays
    BY <1>5, <1>6, Forget, Zenon
  <2> QED
    BY <1>5, <1>6, <2>1, <2>2, DialFacts, FreshWire DEF Accounts
<1>7. ASSUME wire'.shares = 0, wire'.pipe = <<>>, Count(wire'.pipe, Verdicts) = 0
      PROVE  Accounts'
  <2>1. s'.accepted + s'.rejected + Count(rx', Verdicts) + Count(wire'.pipe, Verdicts)
            + wire'.shares <= s'.submitted + hist'.strays
    BY <1>5, <1>7, Forget, Zenon
  <2>2. 0 <= s'.submitted
    BY <1>5, Forget, Zenon
  <2> QED
    BY <1>7, <2>1, <2>2, DialFacts, FreshWire DEF Accounts
<1> QED
  BY <1>1, <1>3, <1>4, <1>5a, <1>6, <1>7 DEF SessionInv

\* The positions of a part, within the whole.
LEMMA PartPositions ==
    ASSUME NEW m \in Nat, NEW n \in Nat, m >= 1,
           NEW l, l = (IF m <= n THEN n - m + 1 ELSE 0), NEW i \in 1 .. l
    PROVE  i \in 1 .. n - m + 1 /\ m + i - 1 \in 1 .. n
<1>1. CASE m <= n
  BY <1>1
<1>2. CASE ~(m <= n)
  BY <1>2
<1> QED
  BY <1>1, <1>2

\* What is said of every line is said of the lines of a part.
LEMMA PartOf ==
    ASSUME NEW q \in Seq(Line), NEW m \in 1 .. Len(q) + 1, NEW n \in 0 .. Len(q)
    PROVE  /\ \A g : Vouched(q, g) => Vouched(SubSeq(q, m, n), g)
           /\ (\A i \in 1 .. n : q[i].kind # "flood") => NoFlood(SubSeq(q, m, n))
<1> DEFINE r == SubSeq(q, m, n)
<1>0. Len(q) \in Nat /\ DOMAIN q = 1 .. Len(q) /\ \A i \in 1 .. Len(q) : q[i] \in Line
  OBVIOUS
<1>1. m \in Nat /\ n \in Nat /\ m >= 1 /\ n <= Len(q) /\ m .. n \subseteq 1 .. Len(q)
  BY <1>0
<1>2. \A i \in m .. n : q[i] \in Line
  BY <1>0, <1>1
<1>3. /\ r \in Seq(Line) /\ Len(r) = (IF m <= n THEN n - m + 1 ELSE 0)
      /\ \A i \in 1 .. n - m + 1 : r[i] = q[m + i - 1]
  BY <1>1, <1>2, SubSeqProperties
<1> HIDE DEF r
<1>4. ASSUME NEW i \in DOMAIN r
      PROVE  \E j \in 1 .. n : j \in DOMAIN q /\ r[i] = q[j]
  <2>0. r \in Seq(Line) /\ Len(r) = (IF m <= n THEN n - m + 1 ELSE 0)
    BY <1>3, Zenon
  <2>1. i \in 1 .. Len(r)
    <3>1. \A u \in Seq(Line) : DOMAIN u = 1 .. Len(u)
      OBVIOUS
    <3> QED
      BY <2>0, <3>1, Zenon
  <2>2. i \in 1 .. n - m + 1 /\ m + i - 1 \in 1 .. n
    BY <1>1, <2>0, <2>1, PartPositions, Zenon
  <2>3. 1 .. n \subseteq DOMAIN q
    BY <1>0, <1>1
  <2>4. r[i] = q[m + i - 1]
    BY <1>3, <2>2
  <2> QED
    BY <2>2, <2>3, <2>4
<1>5. \A g : Vouched(q, g) => Vouched(r, g)
  BY <1>4 DEF Vouched
<1>6. (\A i \in 1 .. n : q[i].kind # "flood") => NoFlood(r)
  BY <1>4 DEF NoFlood
<1> QED
  BY <1>5, <1>6 DEF r

\* Lines that move from the pipe to the lines read still count.
LEMMA MovedLines ==
    ASSUME NEW v \in Nat, NEW w \in Nat, NEW x \in Nat, NEW y \in Nat, NEW z \in Nat,
           NEW t \in Nat, NEW u \in Nat, v + w + 0 + (x + y) + z <= t + u
    PROVE  v + w + x + y + z <= t + u
  OBVIOUS

\* stratum_poll() takes a prefix of what the pool has written.
LEMMA ReadKeeps ==
    ASSUME SessionInv, PollReads
    PROVE  SessionInv'
<1>1. PICK n \in 1 .. Len(wire.pipe) :
        /\ \A i \in 1 .. n : wire.pipe[i].kind # "flood"
        /\ rx' = SubSeq(wire.pipe, 1, n)
        /\ wire' = [wire EXCEPT !.pipe = SubSeq(wire.pipe, n + 1, Len(wire.pipe))]
  BY DEF PollReads
<1>2. s' = s /\ poolAt' = poolAt /\ hist' = hist /\ rx = <<>> /\ s.fd
  BY DEF PollReads
<1>3. /\ wire \in WireType /\ wire.pipe \in Seq(Line) /\ Len(wire.pipe) \in Nat
      /\ Vouched(wire.pipe, wire.granted)
  BY DEF SessionInv, Typed, WireType, Accounts
<1> DEFINE p == wire.pipe
           r == SubSeq(p, n + 1, Len(p))
<1>4. /\ n \in 0 .. Len(p) /\ n + 1 \in 1 .. Len(p) + 1 /\ 1 \in 1 .. Len(p) + 1
      /\ Len(p) \in 0 .. Len(p)
  BY <1>3
<1>5. /\ rx' \in Seq(Line) /\ r \in Seq(Line)
      /\ Count(p, Verdicts) = Count(rx', Verdicts) + Count(r, Verdicts)
  BY <1>1, <1>3, <1>4, CountSplit
<1>6. NoFlood(rx') /\ Vouched(rx', wire.granted) /\ Vouched(r, wire.granted)
  BY <1>1, <1>3, <1>4, PartOf
<1>7. wire' \in WireType /\ wire'.pipe = r /\ wire'.shares = wire.shares
      /\ wire'.granted = wire.granted
  <2> HIDE DEF r
  <2>1. wire' = [wire EXCEPT !.pipe = r]
    BY <1>1 DEF r
  <2> QED
    BY <1>3, <1>5, <2>1 DEF WireType
<1> HIDE DEF p, r
<1>8. Typed'
  BY <1>2, <1>5, <1>7 DEF SessionInv, Typed
<1>9. s.accepted + s.rejected + Count(rx', Verdicts) + Count(r, Verdicts) + wire.shares
        <= s.submitted + hist.strays
  <2>1. Count(rx', Verdicts) \in Nat /\ Count(r, Verdicts) \in Nat
    BY <1>5, CountNat
  <2>2. Count(p, Verdicts) = Count(rx', Verdicts) + Count(r, Verdicts)
        /\ p = wire.pipe
    BY <1>5 DEF p
  <2>3. s.accepted + s.rejected + 0 + Count(p, Verdicts) + wire.shares
            <= s.submitted + hist.strays
    BY Forget DEF p
  <2>4. s.accepted \in Nat /\ s.rejected \in Nat /\ s.submitted \in Nat
        /\ wire.shares \in Nat /\ hist.strays \in Nat
    BY Numbers
  <2>5. s.accepted + s.rejected + 0 + (Count(rx', Verdicts) + Count(r, Verdicts)) + wire.shares
            <= s.submitted + hist.strays
    BY <2>2, <2>3, Zenon
  <2> QED
    BY <2>1, <2>4, <2>5, MovedLines, Zenon
<1>10. Accounts'
  BY <1>2, <1>6, <1>7, <1>9 DEF SessionInv, Accounts
<1>11. BelievesThisPool' /\ RedirectOnce'
  BY <1>2, <1>7 DEF SessionInv, BelievesThisPool, RedirectOnce, Redirected
<1> QED
  BY <1>8, <1>10, <1>11 DEF SessionInv

\* What leaves the lines read may join the verdicts counted.
LEMMA LedgerTakes ==
    ASSUME SessionInv, NEW v \in Nat, NEW b \in Nat, NEW x \in {0, 1},
           Count(rx, Verdicts) = b + x, v <= s.accepted + s.rejected + x
    PROVE  v + b + Count(wire.pipe, Verdicts) + wire.shares <= s.submitted + hist.strays
  BY Numbers

\* A line was handled and the connection stands: what is believed was
\* granted, and the line is counted at most once.
LEMMA HandledKeeps ==
    ASSUME SessionInv, rx # <<>>, s' \in SessionType, s'.fd,
           rx' = Tail(rx), wire' = wire, hist' = hist, poolAt' = poolAt,
           s'.redir = s.redir, s'.submitted = s.submitted,
           s'.accepted + s'.rejected
               <= s.accepted + s.rejected + IF Head(rx).kind \in Verdicts THEN 1 ELSE 0,
           s'.subscribed => "sub" \in wire.granted,
           s'.authorized => "auth" \in wire.granted
    PROVE  SessionInv'
<1>1. rx \in Seq(Line) /\ NoFlood(rx) /\ Vouched(rx, wire.granted)
  BY DEF SessionInv, Typed, Accounts
<1>2. /\ Tail(rx) \in Seq(Line)
      /\ Count(rx, Verdicts) = Count(Tail(rx), Verdicts)
                               + IF Head(rx).kind \in Verdicts THEN 1 ELSE 0
  BY <1>1, CountTail
<1>3. NoFlood(Tail(rx)) /\ Vouched(Tail(rx), wire.granted)
  <2>1. Tail(rx) = SubSeq(rx, 2, Len(rx))
    BY <1>1, TailIsSubSeq
  <2>2. Len(rx) \in Nat /\ Len(rx) >= 1 /\ DOMAIN rx = 1 .. Len(rx)
    BY <1>1, HeadTailProperties
  <2>3. 2 \in 1 .. Len(rx) + 1 /\ Len(rx) \in 0 .. Len(rx)
    BY <2>2
  <2>4. \A i \in 1 .. Len(rx) : rx[i].kind # "flood"
    BY <1>1, <2>2 DEF NoFlood
  <2> QED
    BY <1>1, <2>1, <2>3, <2>4, PartOf
<1>4. Typed'
  BY <1>2 DEF SessionInv, Typed
<1>5. s'.accepted + s'.rejected + Count(rx', Verdicts) + Count(wire'.pipe, Verdicts) + wire'.shares
        <= s'.submitted + hist'.strays
  <2> DEFINE x == IF Head(rx).kind \in Verdicts THEN 1 ELSE 0
             b == Count(Tail(rx), Verdicts)
             v == s'.accepted + s'.rejected
  <2>1. b \in Nat /\ x \in {0, 1} /\ Count(rx, Verdicts) = b + x
    BY <1>2, CountNat
  <2>2. v \in Nat /\ v <= s.accepted + s.rejected + x
    <3>1. s'.accepted \in Nat /\ s'.rejected \in Nat
      BY DEF SessionType
    <3> QED
      BY <3>1
  <2> HIDE DEF x, b, v
  <2>3. v + b + Count(wire.pipe, Verdicts) + wire.shares <= s.submitted + hist.strays
    BY <2>1, <2>2, LedgerTakes
  <2> QED
    BY <2>3 DEF v, b
<1>6. Accounts'
  BY <1>3, <1>5 DEF SessionInv, Accounts
<1>7. BelievesThisPool'
  BY DEF BelievesThisPool
<1>8. RedirectOnce'
  BY DEF SessionInv, RedirectOnce, Redirected, Accounts
<1> QED
  BY <1>4, <1>6, <1>7, <1>8 DEF SessionInv

\* on_line(): a handshake reply, a verdict, a job, a rotation, a redirect.
LEMMA DispatchKeeps ==
    ASSUME SessionInv, Dispatch
    PROVE  SessionInv'
<1> DEFINE l == Head(rx)
<1>1. /\ rx # <<>> /\ s' = on_line(l) /\ rx' = Rest(s') /\ poolAt' = poolAt
      /\ wire' = IF s'.fd THEN wire ELSE NoWire
      /\ hist' = IF l.kind = "reconnect" /\ l.redir # None
                 THEN [hist EXCEPT !.redirects = hist.redirects + 1] ELSE hist
  BY DEF Dispatch
<1>2. /\ s \in SessionType /\ rx \in Seq(Line) /\ hist \in HistType /\ poolAt \in Ips
      /\ NoFlood(rx) /\ Vouched(rx, wire.granted) /\ s.fd
      /\ (s.subscribed => "sub" \in wire.granted)
      /\ (s.authorized => "auth" \in wire.granted)
  BY <1>1 DEF SessionInv, Typed, Accounts, BelievesThisPool
<1>3. /\ l \in Line /\ l.kind # "flood"
      /\ l.kind \in {"sub", "auth"} /\ l.ok => l.kind \in wire.granted
  <2>1. l \in Line /\ l = rx[1] /\ 1 \in DOMAIN rx
    BY <1>1, <1>2, HeadTailProperties
  <2> QED
    BY <1>2, <2>1 DEF NoFlood, Vouched
<1>4. \/ l.kind \in Hello /\ l.ok \in BOOLEAN
      \/ l.kind \in Verdicts /\ l.ok \in BOOLEAN
      \/ l.kind \in {"notify", "rotate"}
      \/ l.kind = "reconnect" /\ l.redir \in {"host", "port0", None} /\ l.wait \in 0 .. MaxAsked
  BY <1>3 DEF Line, Hello, Verdicts
<1>5. /\ s.accepted \in Nat /\ s.rejected \in Nat
      /\ s.accepted + s.rejected <= s.accepted + s.rejected + 0
  BY Numbers
<1> HIDE DEF l
<1>6. CASE l.kind \in Hello /\ l.ok \in BOOLEAN
  <2>1. s' = OnReply(l.kind, l.ok)
    BY <1>1, <1>6 DEF on_line, Hello
  <2>2. /\ s' \in SessionType /\ s'.fd /\ s'.redir = s.redir /\ SameCounts(s, s')
        /\ s'.subscribed => "sub" \in wire.granted
        /\ s'.authorized => "auth" \in wire.granted
    <3>1. CASE l.kind = "sub"
      <4> DEFINE v == s.subscribed \/ l.ok
      <4>1. v \in BOOLEAN /\ (v => "sub" \in wire.granted)
        BY <1>2, <1>3, <3>1
      <4>2. s' = [s EXCEPT !.subscribed = v]
        BY <2>1, <3>1 DEF OnReply
      <4> HIDE DEF v
      <4> QED
        BY <1>2, <4>1, <4>2 DEF SessionType, SameCounts
    <3>2. CASE l.kind = "auth"
      <4> DEFINE v == l.ok
      <4>1. v \in BOOLEAN /\ (v => "auth" \in wire.granted)
        BY <1>3, <1>6, <3>2
      <4>2. s' = [s EXCEPT !.authorized = v]
        BY <2>1, <3>2 DEF OnReply
      <4> HIDE DEF v
      <4> QED
        BY <1>2, <4>1, <4>2 DEF SessionType, SameCounts
    <3>3. CASE l.kind = "suggest"
      <4>1. s' = s
        BY <2>1, <3>3 DEF OnReply
      <4> QED
        BY <1>2, <4>1 DEF SameCounts
    <3> QED
      BY <1>6, <3>1, <3>2, <3>3 DEF Hello
  <2>3. Head(rx).kind \notin Verdicts /\ hist' = hist /\ rx' = Tail(rx) /\ wire' = wire
    BY <1>1, <1>6, <2>2 DEF Hello, Verdicts, Rest, l
  <2>4. s'.accepted + s'.rejected
            <= s.accepted + s.rejected + IF Head(rx).kind \in Verdicts THEN 1 ELSE 0
    BY <1>5, <2>2, <2>3 DEF SameCounts
  <2>5. s'.submitted = s.submitted
    BY <2>2 DEF SameCounts
  <2> QED
    BY <1>1, <2>2, <2>3, <2>4, <2>5, HandledKeeps
<1>7. CASE l.kind \in Verdicts /\ l.ok \in BOOLEAN
  <2>1. s' = OnVerdict(l.ok)
    BY <1>1, <1>7 DEF on_line, Hello, Verdicts
  <2>2. /\ s' \in SessionType /\ s'.fd /\ s'.redir = s.redir /\ s'.submitted = s.submitted
        /\ s'.subscribed = s.subscribed /\ s'.authorized = s.authorized
        /\ \/ s'.accepted = s.accepted + 1 /\ s'.rejected = s.rejected
           \/ s'.accepted = s.accepted /\ s'.rejected = s.rejected + 1
    <3> DEFINE a == s.accepted + 1
               r == s.rejected + 1
    <3>1. a \in Nat /\ r \in Nat
      BY <1>5
    <3>2. s' = [s EXCEPT !.accepted = a] \/ s' = [s EXCEPT !.rejected = r]
      BY <2>1 DEF OnVerdict
    <3> HIDE DEF a, r
    <3>3. /\ s' \in SessionType /\ s'.fd /\ s'.redir = s.redir /\ s'.submitted = s.submitted
          /\ s'.subscribed = s.subscribed /\ s'.authorized = s.authorized
          /\ \/ s'.accepted = a /\ s'.rejected = s.rejected
             \/ s'.accepted = s.accepted /\ s'.rejected = r
      BY <1>2, <3>1, <3>2 DEF SessionType
    <3> QED
      BY <3>3 DEF a, r
  <2>3. Head(rx).kind \in Verdicts /\ hist' = hist /\ rx' = Tail(rx) /\ wire' = wire
    BY <1>1, <1>7, <2>2 DEF Verdicts, Rest, l
  <2>4. s'.accepted + s'.rejected
            <= s.accepted + s.rejected + IF Head(rx).kind \in Verdicts THEN 1 ELSE 0
    <3>1. s'.accepted + s'.rejected <= s.accepted + s.rejected + 1
      BY <1>5, <2>2
    <3> QED
      BY <2>3, <3>1
  <2> QED
    BY <1>1, <1>2, <2>2, <2>3, <2>4, HandledKeeps
<1>8. CASE l.kind \in {"notify", "rotate"}
  <2>1. \E j \in BOOLEAN : s' = [s EXCEPT !.have_job = j]
    <3>1. CASE l.kind = "notify"
      <4>1. s' = [s EXCEPT !.have_job = TRUE]
        BY <1>1, <3>1 DEF on_line, Hello
      <4> QED
        BY <4>1, Zenon
    <3>2. CASE l.kind = "rotate"
      <4>1. s' = [s EXCEPT !.have_job = s.have_job /\ ~l.ok]
        BY <1>1, <3>2 DEF on_line, OnRotate, Hello
      <4>2. (s.have_job /\ ~l.ok) \in BOOLEAN
        BY Zenon
      <4> QED
        BY <4>1, <4>2, Zenon
    <3> QED
      BY <1>8, <3>1, <3>2
  <2>2. /\ s' \in SessionType /\ s'.fd /\ s'.redir = s.redir /\ SameCounts(s, s')
        /\ s'.subscribed = s.subscribed /\ s'.authorized = s.authorized
    BY <1>2, <2>1 DEF SessionType, SameCounts
  <2>3. Head(rx).kind \notin Verdicts /\ hist' = hist /\ rx' = Tail(rx) /\ wire' = wire
    BY <1>1, <1>8, <2>2 DEF Verdicts, Rest, l
  <2>4. s'.accepted + s'.rejected
            <= s.accepted + s.rejected + IF Head(rx).kind \in Verdicts THEN 1 ELSE 0
    BY <1>5, <2>2, <2>3 DEF SameCounts
  <2>5. s'.submitted = s.submitted
    BY <2>2 DEF SameCounts
  <2> QED
    BY <1>1, <1>2, <2>2, <2>3, <2>4, <2>5, HandledKeeps
<1>9. CASE l.kind = "reconnect" /\ l.redir \in {"host", "port0", None} /\ l.wait \in 0 .. MaxAsked
  <2> DEFINE t == IF l.redir = None THEN s
                  ELSE [s EXCEPT !.redir = l.redir, !.addr = None, !.wait = l.wait]
  <2>1. s' = Drop(t)
    BY <1>1, <1>9 DEF on_line, OnReconnect, Hello
  <2>2. /\ t \in SessionType /\ SameCounts(s, t)
        /\ t.redir = IF l.redir = None THEN s.redir ELSE l.redir
    <3>1. CASE l.redir = None
      BY <1>2, <3>1 DEF SameCounts
    <3>2. CASE l.redir # None
      <4>1. l.wait \in 0 .. Max({BackoffMax, MaxAsked})
        BY <1>9, Limits
      <4>2. None \in Ips \cup {None}
        OBVIOUS
      <4> QED
        BY <1>2, <1>9, <3>2, <4>1, <4>2 DEF SessionType, SameCounts
    <3> QED
      BY <3>1, <3>2
  <2> HIDE DEF t
  <2>3. /\ s' \in SessionType /\ ~s'.fd /\ SameCounts(s, s') /\ s'.redir = t.redir
        /\ ~s'.subscribed /\ ~s'.authorized /\ ~s'.have_job
    BY <2>1, <2>2, DropStep DEF SameCounts
  <2>4. rx' = <<>> /\ wire' = NoWire
    BY <1>1, <2>3 DEF Rest
  <2>5. hist' \in HistType /\ hist'.strays = hist.strays /\ hist'.dialled = hist.dialled
        /\ hist'.redirects = hist.redirects + IF l.redir = None THEN 0 ELSE 1
    <3> DEFINE n == hist.redirects + 1
    <3>1. n \in Nat /\ hist.redirects \in Nat /\ hist.redirects = hist.redirects + 0
      BY Numbers
    <3>2. hist' = IF l.redir # None THEN [hist EXCEPT !.redirects = n] ELSE hist
      BY <1>1, <1>9
    <3> HIDE DEF n
    <3>3. hist' \in HistType /\ hist'.strays = hist.strays /\ hist'.dialled = hist.dialled
          /\ hist'.redirects = IF l.redir = None THEN hist.redirects ELSE n
      BY <1>2, <3>1, <3>2 DEF HistType
    <3> QED
      BY <3>1, <3>3 DEF n
  <2>6. RedirectOnce'
    <3>1. s.redir = None /\ hist.redirects = hist.dialled + 0
      BY <1>2 DEF SessionInv, RedirectOnce, Redirected
    <3>2. s'.redir = l.redir
      BY <2>2, <2>3, <3>1
    <3>3. hist.dialled \in Nat
      BY Numbers
    <3> QED
      BY <2>3, <2>5, <3>1, <3>2, <3>3 DEF RedirectOnce, Redirected
  <2> QED
    BY <1>1, <1>2, <2>3, <2>4, <2>5, <2>6, DroppedKeeps
<1> QED
  BY <1>4, <1>6, <1>7, <1>8, <1>9

\* A share submitted is one more the pool may answer.
LEMMA LedgerSubmits ==
    ASSUME SessionInv, NEW w \in Nat, w <= wire.shares + 1
    PROVE  /\ w <= s.submitted + 1
           /\ s.accepted + s.rejected + Count(rx, Verdicts) + Count(wire.pipe, Verdicts) + w
                <= s.submitted + 1 + hist.strays
  BY Numbers

\* stratum_submit() sends, to a pool that is there or is not any more.
LEMMA SubmitKeeps ==
    ASSUME SessionInv, SubmitSent
    PROVE  SessionInv'
<1> DEFINE n == s.submitted + 1
           w == wire.shares + 1
<1>1. s \in SessionType /\ wire \in WireType /\ s.submitted < MaxShares
  BY DEF SessionInv, Typed, SubmitSent, MaySubmit
<1>2. n \in 0 .. MaxShares /\ w \in 0 .. MaxShares
  BY <1>1, Numbers, Limits
<1>3. /\ s' = [s EXCEPT !.submitted = n]
      /\ wire' = IF wire.open THEN [wire EXCEPT !.shares = w] ELSE wire
      /\ rx' = rx /\ poolAt' = poolAt /\ hist' = hist
  BY DEF SubmitSent
<1> HIDE DEF n, w
<1>4. /\ s' \in SessionType /\ s'.submitted = n /\ s'.accepted = s.accepted
      /\ s'.rejected = s.rejected /\ s'.fd = s.fd /\ s'.redir = s.redir /\ SameFlags(s, s')
  BY <1>1, <1>2, <1>3 DEF SessionType, SameFlags
<1>5. /\ wire' \in WireType /\ wire'.pipe = wire.pipe /\ wire'.granted = wire.granted
      /\ wire'.shares \in {w, wire.shares}
  BY <1>1, <1>2, <1>3 DEF WireType
<1>6. wire'.shares \in Nat /\ wire'.shares <= wire.shares + 1
  <2>1. wire.shares \in Nat
    BY Numbers
  <2> QED
    BY <2>1, <1>5 DEF w
<1>7. /\ wire'.shares <= s'.submitted
      /\ s'.accepted + s'.rejected + Count(rx', Verdicts) + Count(wire'.pipe, Verdicts)
            + wire'.shares <= s'.submitted + hist'.strays
  <2>1. /\ wire'.shares <= n
        /\ s.accepted + s.rejected + Count(rx, Verdicts) + Count(wire.pipe, Verdicts)
                + wire'.shares <= n + hist.strays
    BY <1>6, LedgerSubmits DEF n
  <2> QED
    BY <1>3, <1>4, <1>5, <2>1, Zenon
<1>8. Typed'
  BY <1>3, <1>4, <1>5 DEF SessionInv, Typed
<1>9. Accounts'
  BY <1>3, <1>4, <1>5, <1>7 DEF SessionInv, Accounts
<1>10. BelievesThisPool' /\ RedirectOnce'
  BY <1>3, <1>4, <1>5 DEF SessionInv, BelievesThisPool, RedirectOnce, Redirected, SameFlags
<1> QED
  BY <1>8, <1>9, <1>10 DEF SessionInv

\* st_get_work() builds an item: the session itself is only read.
LEMMA GetWorkKeeps ==
    ASSUME SessionInv, GetWork
    PROVE  SessionInv'
<1>1. hist \in HistType /\ hist' = [hist EXCEPT !.built = TRUE]
  BY DEF SessionInv, Typed, GetWork
<1>2. /\ hist' \in HistType /\ hist'.redirects = hist.redirects
      /\ hist'.dialled = hist.dialled /\ hist'.strays = hist.strays
  BY <1>1 DEF HistType
<1>3. s' = s /\ rx' = rx /\ wire' = wire /\ poolAt' = poolAt
  BY DEF GetWork
<1>4. Typed' /\ Accounts'
  BY <1>2, <1>3 DEF SessionInv, Typed, Accounts
<1>5. BelievesThisPool' /\ RedirectOnce'
  BY <1>2, <1>3 DEF SessionInv, BelievesThisPool, RedirectOnce, Redirected
<1> QED
  BY <1>4, <1>5 DEF SessionInv

\* A second passes.
LEMMA SecondKeeps ==
    ASSUME SessionInv, Second
    PROVE  SessionInv'
<1> DEFINE n == s.wait - 1
<1>1. s \in SessionType /\ s.wait \in 0 .. Max({BackoffMax, MaxAsked}) /\ s.wait > 0
  BY DEF SessionInv, Typed, Second, SessionType
<1>2. n \in 0 .. Max({BackoffMax, MaxAsked})
  BY <1>1, Limits
<1>3. s' = [s EXCEPT !.wait = n] /\ UNCHANGED <<rx, wire, poolAt, hist>>
  BY DEF Second
<1> HIDE DEF n
<1>4. /\ s' \in SessionType /\ SameCounts(s, s') /\ s'.fd = s.fd /\ s'.redir = s.redir
      /\ SameFlags(s, s')
  BY <1>1, <1>2, <1>3 DEF SessionType, SameCounts, SameFlags
<1>5. Typed' /\ Accounts'
  BY <1>3, <1>4 DEF SessionInv, Typed, Accounts, SameCounts
<1>6. BelievesThisPool' /\ RedirectOnce'
  BY <1>3, <1>4 DEF SessionInv, BelievesThisPool, RedirectOnce, Redirected, SameFlags
<1> QED
  BY <1>5, <1>6 DEF SessionInv

---------------------------------------------------------------------------
(* The pool. *)

\* A verdict or a stray reply is written, and counted once.
LEMMA LedgerWrites ==
    ASSUME SessionInv, NEW c \in Nat, NEW w \in Nat, NEW k \in Nat, w <= wire.shares,
           c + w + hist.strays <= Count(wire.pipe, Verdicts) + wire.shares + k
    PROVE  /\ s.accepted + s.rejected + Count(rx, Verdicts) + c + w <= s.submitted + k
           /\ w <= s.submitted
  BY Numbers

\* The lines written, from the one line that is.
LEMMA LedgerAdds ==
    ASSUME SessionInv, NEW x \in Nat, NEW n \in 0 .. MaxShares, NEW k \in Nat, NEW c,
           c = Count(wire.pipe, Verdicts) + x,
           x + n + hist.strays <= wire.shares + k
    PROVE  c + n + hist.strays <= Count(wire.pipe, Verdicts) + wire.shares + k
  BY Numbers, Limits

\* A step of the pool grants no less than before, writes only what it
\* grants, and answers a share at most once.
LEMMA PoolKeeps ==
    ASSUME SessionInv, s' = s, rx' = rx, poolAt' \in Ips, hist' \in HistType,
           hist'.redirects = hist.redirects, hist'.dialled = hist.dialled,
           wire' \in WireType, wire'.shares <= wire.shares,
           wire.granted \cap {"sub", "auth"} \subseteq wire'.granted,
           Vouched(wire'.pipe, wire'.granted),
           Count(wire'.pipe, Verdicts) + wire'.shares + hist.strays
               <= Count(wire.pipe, Verdicts) + wire.shares + hist'.strays
    PROVE  SessionInv'
<1>1. Typed'
  BY DEF SessionInv, Typed
<1>2. Vouched(rx', wire'.granted)
  BY DEF SessionInv, Accounts, Vouched
<1>3. BelievesThisPool' /\ RedirectOnce'
  BY DEF SessionInv, BelievesThisPool, RedirectOnce, Redirected
<1> DEFINE c == Count(wire'.pipe, Verdicts)
           w == wire'.shares
           k == hist'.strays
<1>4. c \in Nat /\ w \in Nat /\ k \in Nat
  <2>1. wire'.pipe \in Seq(Line) /\ w \in 0 .. MaxShares /\ k \in Nat
    BY DEF WireType, HistType
  <2>2. c \in Nat
    BY <2>1, CountNat
  <2>3. w \in Nat
    BY <2>1, Limits, Zenon
  <2> QED
    BY <2>1, <2>2, <2>3
<1>5. w <= wire.shares /\ c + w + hist.strays <= Count(wire.pipe, Verdicts) + wire.shares + k
  OBVIOUS
<1>6. /\ s.accepted + s.rejected + Count(rx, Verdicts) + c + w <= s.submitted + k
      /\ w <= s.submitted
  <2> HIDE DEF c, w, k
  <2> QED
    BY <1>4, <1>5, LedgerWrites
<1>8. Accounts'
  BY <1>2, <1>6 DEF SessionInv, Accounts
<1> QED
  BY <1>1, <1>3, <1>8 DEF SessionInv

\* A line of a longer pipe is the line written or was there before.
LEMMA AppendedLine ==
    ASSUME NEW q \in Seq(Line), NEW l \in Line
    PROVE  \A i \in DOMAIN Append(q, l) :
               Append(q, l)[i] = l \/ (i \in DOMAIN q /\ Append(q, l)[i] = q[i])
<1> DEFINE p == Append(q, l)
<1>1. /\ DOMAIN p = 1 .. Len(q) + 1 /\ p[Len(q) + 1] = l
      /\ DOMAIN q = 1 .. Len(q) /\ Len(q) \in Nat
      /\ \A i \in 1 .. Len(q) : p[i] = q[i]
  BY AppendProperties
<1> HIDE DEF p
<1>2. \A i \in DOMAIN p : p[i] = l \/ (i \in DOMAIN q /\ p[i] = q[i])
  BY <1>1
<1> QED
  BY <1>2 DEF p

\* A line is written, with what the pool asks itself to remember of it.
LEMMA WriteKeeps ==
    ASSUME SessionInv, s' = s, rx' = rx, poolAt' = poolAt, hist' \in HistType,
           hist'.redirects = hist.redirects, hist'.dialled = hist.dialled,
           NEW l \in Line, NEW g \in SUBSET (Hello \cup {"notify"}),
           NEW a \in SUBSET Hello, NEW n \in 0 .. MaxShares,
           wire' = [wire EXCEPT !.pipe = Append(wire.pipe, l), !.asked = a,
                                !.granted = g, !.shares = n],
           wire.granted \cap {"sub", "auth"} \subseteq g,
           l.kind \in {"sub", "auth"} /\ l.ok => l.kind \in g,
           n <= wire.shares,
           (IF l.kind \in Verdicts THEN 1 ELSE 0) + n + hist.strays
               <= wire.shares + hist'.strays
    PROVE  SessionInv'
<1> DEFINE x == IF l.kind \in Verdicts THEN 1 ELSE 0
<1>1. wire \in WireType /\ Vouched(wire.pipe, wire.granted) /\ poolAt' \in Ips
  BY DEF SessionInv, Typed, Accounts
<1>2. /\ wire' \in WireType /\ wire'.shares = n /\ wire'.granted = g
      /\ Vouched(wire'.pipe, wire'.granted)
      /\ Count(wire'.pipe, Verdicts) = Count(wire.pipe, Verdicts) + x
  <2> DEFINE p == Append(wire.pipe, l)
  <2>1. wire.pipe \in Seq(Line)
    BY <1>1 DEF WireType
  <2>2. p \in Seq(Line) /\ Count(p, Verdicts) = Count(wire.pipe, Verdicts) + x
    BY <2>1, CountAppend
  <2>3. \A i \in DOMAIN p : p[i] = l \/ (i \in DOMAIN wire.pipe /\ p[i] = wire.pipe[i])
    BY <2>1, AppendedLine
  <2> HIDE DEF p, x
  <2>4. Vouched(p, g)
    <3>1. ASSUME NEW i \in DOMAIN p, p[i].kind \in {"sub", "auth"}, p[i].ok
          PROVE  p[i].kind \in g
      <4>1. CASE p[i] = l
        BY <3>1, <4>1
      <4>2. CASE i \in DOMAIN wire.pipe /\ p[i] = wire.pipe[i]
        <5>1. p[i].kind \in wire.granted
          BY <1>1, <3>1, <4>2 DEF Vouched
        <5> QED
          BY <3>1, <5>1
      <4> QED
        BY <2>3, <4>1, <4>2
    <3> QED
      BY <3>1 DEF Vouched
  <2>5. wire' = [wire EXCEPT !.pipe = p, !.asked = a, !.granted = g, !.shares = n]
    BY DEF p
  <2>6. wire' \in WireType /\ wire'.shares = n /\ wire'.granted = g /\ wire'.pipe = p
    BY <1>1, <2>2, <2>5 DEF WireType
  <2> QED
    BY <2>2, <2>4, <2>6, Zenon
<1>3. x + n + hist.strays <= wire.shares + hist'.strays
  OBVIOUS
<1>4. hist'.strays \in Nat /\ x \in Nat
  BY DEF HistType
<1> HIDE DEF x
<1>5. Count(wire'.pipe, Verdicts) + wire'.shares + hist.strays
        <= Count(wire.pipe, Verdicts) + wire.shares + hist'.strays
  <2> DEFINE k == hist'.strays
             c == Count(wire'.pipe, Verdicts)
  <2>1. x + n + hist.strays <= wire.shares + k /\ k \in Nat
        /\ c = Count(wire.pipe, Verdicts) + x
    BY <1>2, <1>3, <1>4
  <2> HIDE DEF k, c
  <2>2. c + n + hist.strays <= Count(wire.pipe, Verdicts) + wire.shares + k
    BY <1>4, <2>1, LedgerAdds
  <2> QED
    BY <1>2, <2>2 DEF k, c
<1> QED
  BY <1>1, <1>2, <1>5, PoolKeeps

\* Every step of the pool.
LEMMA PoolStepKeeps ==
    ASSUME SessionInv, Pool
    PROVE  SessionInv'
<1> USE DEF Verdicts, Hello
<1>1. /\ wire \in WireType /\ hist \in HistType /\ poolAt \in Ips /\ TypeOK
      /\ wire.granted \in SUBSET (Hello \cup {"notify"}) /\ wire.asked \in SUBSET Hello
      /\ wire.shares \in 0 .. MaxShares /\ Vouched(wire.pipe, wire.granted)
  BY InvGives DEF SessionInv, Typed, WireType, Accounts
<1>2. /\ wire.shares \in Nat /\ hist.strays \in Nat /\ wire.shares <= wire.shares
      /\ 0 + wire.shares + hist.strays <= wire.shares + hist.strays
  BY Numbers
<1>3. \A b \in BOOLEAN, k \in Hello \cup {"share", "stray", "notify", "rotate", "flood"} :
        [kind |-> k, ok |-> b] \in Line
  BY DEF Line
<1>4. s' = s /\ rx' = rx
  BY DEF Pool, PoolAnswers, PoolVerdict, PoolNotifies, PoolRotates, PoolStray, PoolRedirects,
         PoolFloods, PoolCloses, PoolMoves
<1>5. CASE PoolAnswers
  <2>1. PICK k \in wire.asked, ok \in BOOLEAN :
          /\ ok \/ k = "suggest" \/ hist.faults < MaxFaults
          /\ hist' = IF ok \/ k = "suggest" THEN hist
                     ELSE [hist EXCEPT !.faults = hist.faults + 1]
          /\ wire' = [Write(wire, [kind |-> k, ok |-> ok]) EXCEPT
                          !.asked = @ \ {k},
                          !.granted = IF ok THEN @ \cup {k} ELSE @]
    BY <1>5, Zenon DEF PoolAnswers
  <2> DEFINE l == [kind |-> k, ok |-> ok]
             g == IF ok THEN wire.granted \cup {k} ELSE wire.granted
             a == wire.asked \ {k}
  <2>2. /\ l \in Line /\ l.kind \notin Verdicts /\ g \in SUBSET (Hello \cup {"notify"})
        /\ a \in SUBSET Hello /\ wire.granted \cap {"sub", "auth"} \subseteq g
        /\ l.kind \in {"sub", "auth"} /\ l.ok => l.kind \in g
    <3>1. k \in Hello /\ l.kind = k /\ l.ok = ok
      BY <1>1
    <3>2. l \in Line
      BY <1>3, <3>1
    <3>3. l.kind \notin Verdicts /\ a \in SUBSET Hello
      BY <1>1, <3>1
    <3>4. CASE ok
      BY <1>1, <3>1, <3>2, <3>3, <3>4
    <3>5. CASE ~ok
      BY <1>1, <3>1, <3>2, <3>3, <3>5
    <3> QED
      BY <3>4, <3>5
  <2>3. wire' = [wire EXCEPT !.pipe = Append(wire.pipe, l), !.asked = a,
                             !.granted = g, !.shares = wire.shares]
    <3>1. wire' = [Write(wire, l) EXCEPT
                        !.asked = Write(wire, l).asked \ {k},
                        !.granted = IF ok THEN Write(wire, l).granted \cup {k}
                                    ELSE Write(wire, l).granted]
      BY <2>1, Zenon DEF l
    <3> HIDE DEF l
    <3>2. Write(wire, l).asked = wire.asked /\ Write(wire, l).granted = wire.granted
      BY <1>1 DEF Write, WireType
    <3>3. wire' = [Write(wire, l) EXCEPT !.asked = a, !.granted = g]
      BY <3>1, <3>2, Zenon DEF a, g
    <3> HIDE DEF g, a
    <3> QED
      BY <1>1, <3>3 DEF Write, WireType
  <2>4. /\ hist' \in HistType /\ hist'.redirects = hist.redirects
        /\ hist'.dialled = hist.dialled /\ hist'.strays = hist.strays
    BY <1>1, <2>1, HistStep
  <2>5. (IF l.kind \in Verdicts THEN 1 ELSE 0) + wire.shares + hist.strays
            <= wire.shares + hist'.strays
    BY <1>2, <2>2, <2>4
  <2>6. poolAt' = poolAt
    BY <1>5 DEF PoolAnswers
  <2> HIDE DEF l, g, a, Verdicts, Hello
  <2> QED
    BY <1>1, <1>2, <1>4, <2>2, <2>3, <2>4, <2>5, <2>6, WriteKeeps
<1>6. CASE PoolVerdict
  <2>1. PICK ok \in BOOLEAN :
          wire' = [Write(wire, [kind |-> "share", ok |-> ok]) EXCEPT
                        !.shares = wire.shares - 1]
    BY <1>6 DEF PoolVerdict, Write
  <2>2. wire.shares > 0 /\ poolAt' = poolAt /\ hist' = hist
    BY <1>6 DEF PoolVerdict
  <2> DEFINE l == [kind |-> "share", ok |-> ok]
             n == wire.shares - 1
  <2>3. n \in 0 .. MaxShares /\ n <= wire.shares /\ 1 + n + hist.strays <= wire.shares + hist.strays
    BY <1>1, <1>2, <2>2
  <2>4. l \in Line /\ l.kind \in Verdicts /\ l.kind \notin {"sub", "auth"}
    BY <1>3
  <2>5. wire' = [wire EXCEPT !.pipe = Append(wire.pipe, l), !.asked = wire.asked,
                             !.granted = wire.granted, !.shares = n]
    <3> HIDE DEF l, n
    <3>1. wire' = [Write(wire, l) EXCEPT !.shares = n]
      BY <2>1 DEF l, n
    <3> QED
      BY <1>1, <3>1 DEF Write, WireType
  <2>6. (IF l.kind \in Verdicts THEN 1 ELSE 0) + n + hist.strays <= wire.shares + hist'.strays
    BY <2>2, <2>3, <2>4
  <2>7. wire.granted \cap {"sub", "auth"} \subseteq wire.granted
    OBVIOUS
  <2> HIDE DEF l, n, Verdicts, Hello
  <2> QED
    BY <1>1, <1>4, <2>2, <2>3, <2>4, <2>5, <2>6, <2>7, WriteKeeps
<1>7. ASSUME NEW l \in Line, NEW g \in SUBSET (Hello \cup {"notify"}),
             l.kind \notin Verdicts \cup {"sub", "auth"},
             wire.granted \cap {"sub", "auth"} \subseteq g,
             wire' = [Write(wire, l) EXCEPT !.granted = g],
             poolAt' = poolAt,
             hist' = hist \/ Fault
      PROVE  SessionInv'
  <2>1. wire' = [wire EXCEPT !.pipe = Append(wire.pipe, l), !.asked = wire.asked,
                             !.granted = g, !.shares = wire.shares]
    BY <1>1, <1>7 DEF Write, WireType
  <2>2. /\ hist' \in HistType /\ hist'.redirects = hist.redirects
        /\ hist'.dialled = hist.dialled /\ hist'.strays = hist.strays
    BY <1>1, <1>7, HistStep DEF Fault
  <2>3. (IF l.kind \in Verdicts THEN 1 ELSE 0) + wire.shares + hist.strays
            <= wire.shares + hist'.strays
    BY <1>2, <1>7, <2>2
  <2>4. l.kind \notin {"sub", "auth"}
    BY <1>7
  <2> HIDE DEF Verdicts, Hello
  <2> QED
    BY <1>1, <1>2, <1>4, <1>7, <2>1, <2>2, <2>3, <2>4, WriteKeeps
<1>8. ASSUME NEW l \in Line
      PROVE  Write(wire, l) = [Write(wire, l) EXCEPT !.granted = wire.granted]
  BY <1>1 DEF Write, WireType
<1>9. CASE PoolNotifies
  <2> DEFINE l == [kind |-> "notify", ok |-> TRUE]
             g == wire.granted \cup {"notify"}
  <2>1. /\ l \in Line /\ l.kind \notin Verdicts \cup {"sub", "auth"}
        /\ g \in SUBSET (Hello \cup {"notify"})
        /\ wire.granted \cap {"sub", "auth"} \subseteq g
    BY <1>1, <1>3
  <2>2. wire' = [Write(wire, l) EXCEPT !.granted = g] /\ hist' = hist /\ poolAt' = poolAt
    BY <1>9 DEF PoolNotifies, Write
  <2> HIDE DEF l, g, Hello, Verdicts
  <2> QED
    BY <2>1, <2>2, <1>7
<1>10. CASE PoolRotates
  <2>0. PICK ok \in BOOLEAN :
          wire' = [Write(wire, [kind |-> "rotate", ok |-> ok]) EXCEPT !.granted = @ \ {"notify"}]
    BY <1>10, Zenon DEF PoolRotates
  <2> DEFINE l == [kind |-> "rotate", ok |-> ok]
             g == wire.granted \ {"notify"}
  <2>1. /\ l \in Line /\ l.kind \notin Verdicts \cup {"sub", "auth"}
        /\ g \in SUBSET (Hello \cup {"notify"})
        /\ wire.granted \cap {"sub", "auth"} \subseteq g
    BY <1>1, <1>3
  <2>2. wire' = [Write(wire, l) EXCEPT !.granted = g] /\ Fault /\ poolAt' = poolAt
    <3>1. Write(wire, l).granted = wire.granted
      BY DEF Write
    <3>2. wire' = [Write(wire, l) EXCEPT !.granted = g]
      BY <2>0, <3>1
    <3> QED
      BY <1>10, <3>2 DEF PoolRotates
  <2> HIDE DEF l, g, Hello, Verdicts
  <2> QED
    BY <2>1, <2>2, <1>7
<1>11. CASE PoolRedirects
  <2>1. PICK r \in {"host", "port0", None}, w \in 0 .. MaxAsked :
          wire' = Write(wire, [kind |-> "reconnect", redir |-> r, wait |-> w])
    BY <1>11 DEF PoolRedirects
  <2> DEFINE l == [kind |-> "reconnect", redir |-> r, wait |-> w]
  <2>2. l \in Line /\ l.kind \notin Verdicts \cup {"sub", "auth"}
    BY DEF Line
  <2>3. Fault /\ poolAt' = poolAt /\ wire' = [Write(wire, l) EXCEPT !.granted = wire.granted]
    BY <1>8, <1>11, <2>1, <2>2 DEF PoolRedirects
  <2>4. wire.granted \cap {"sub", "auth"} \subseteq wire.granted
    OBVIOUS
  <2> HIDE DEF l, Hello, Verdicts
  <2> QED
    BY <1>1, <2>2, <2>3, <2>4, <1>7
<1>12. CASE PoolFloods
  <2> DEFINE l == [kind |-> "flood", ok |-> FALSE]
  <2>1. l \in Line /\ l.kind \notin Verdicts \cup {"sub", "auth"}
    BY <1>3
  <2>2. Fault /\ poolAt' = poolAt /\ wire' = [Write(wire, l) EXCEPT !.granted = wire.granted]
    BY <1>8, <1>12, <2>1 DEF PoolFloods
  <2>3. wire.granted \cap {"sub", "auth"} \subseteq wire.granted
    OBVIOUS
  <2> HIDE DEF l, Hello, Verdicts
  <2> QED
    BY <1>1, <2>1, <2>2, <2>3, <1>7
<1>13. CASE PoolStray
  <2> DEFINE l == [kind |-> "stray", ok |-> FALSE]
             f == hist.faults + 1
             k == hist.strays + 1
  <2>1. l \in Line /\ l.kind \in Verdicts /\ l.kind \notin {"sub", "auth"}
    BY <1>3
  <2>2. /\ hist' = [hist EXCEPT !.faults = f, !.strays = k] /\ poolAt' = poolAt
        /\ wire' = Write(wire, l) /\ hist.faults < MaxFaults
    BY <1>13 DEF PoolStray
  <2>3. f \in 0 .. MaxFaults /\ k \in Nat /\ 1 + wire.shares + hist.strays <= wire.shares + k
    BY <1>1, <1>2, <2>2, Limits DEF HistType
  <2>4. wire' = [wire EXCEPT !.pipe = Append(wire.pipe, l), !.asked = wire.asked,
                             !.granted = wire.granted, !.shares = wire.shares]
    <3> HIDE DEF l
    <3> QED
      BY <1>1, <2>2 DEF Write, WireType
  <2> HIDE DEF f, k
  <2>5. /\ hist' \in HistType /\ hist'.redirects = hist.redirects
        /\ hist'.dialled = hist.dialled /\ hist'.strays = k
    BY <1>1, <2>2, <2>3 DEF HistType
  <2>6. (IF l.kind \in Verdicts THEN 1 ELSE 0) + wire.shares + hist.strays
            <= wire.shares + hist'.strays
    BY <2>1, <2>3, <2>5
  <2>7. wire.granted \cap {"sub", "auth"} \subseteq wire.granted
    OBVIOUS
  <2> HIDE DEF l, Hello, Verdicts
  <2> QED
    BY <1>1, <1>2, <1>4, <2>1, <2>2, <2>4, <2>5, <2>6, <2>7, WriteKeeps
<1>14. CASE PoolCloses \/ PoolMoves
  <2>1. /\ wire' = [wire EXCEPT !.open = FALSE] /\ poolAt' \in Ips
    BY <1>1, <1>14 DEF PoolCloses, PoolMoves
  <2>2. /\ wire' \in WireType /\ wire'.pipe = wire.pipe /\ wire'.granted = wire.granted
        /\ wire'.shares = wire.shares
    BY <1>1, <2>1 DEF WireType
  <2>3. /\ hist' \in HistType /\ hist'.redirects = hist.redirects
        /\ hist'.dialled = hist.dialled /\ hist'.strays = hist.strays
    <3>1. CASE PoolCloses
      BY <1>1, <3>1, HistStep DEF PoolCloses, Fault
    <3>2. CASE PoolMoves
      <4> DEFINE m == hist.moves + 1
      <4>1. m \in 0 .. MaxMoves /\ hist' = [hist EXCEPT !.moves = m]
        BY <1>1, <3>2, Limits DEF PoolMoves, HistType
      <4> HIDE DEF m
      <4> QED
        BY <1>1, <4>1 DEF HistType
    <3> QED
      BY <1>14, <3>1, <3>2
  <2>4. Count(wire.pipe, Verdicts) + wire.shares + hist.strays
            <= Count(wire.pipe, Verdicts) + wire.shares + hist.strays
    <3> HIDE DEF Verdicts
    <3> QED
      BY Numbers
  <2> HIDE DEF Verdicts, Hello
  <2> QED
    BY <1>1, <1>2, <1>4, <2>1, <2>2, <2>3, <2>4, PoolKeeps
<1> QED
  BY <1>5, <1>6, <1>9, <1>10, <1>11, <1>12, <1>13, <1>14 DEF Pool

---------------------------------------------------------------------------
(* The theorems. *)

\* Every step of the session and of the pool keeps the invariant.
LEMMA InvStep ==
    ASSUME SessionInv, [Next]_vars
    PROVE  SessionInv'
<1>1. CASE UNCHANGED vars
  <2>1. Typed' /\ Accounts'
    BY <1>1 DEF SessionInv, Typed, Accounts, vars
  <2>2. BelievesThisPool' /\ RedirectOnce'
    BY <1>1 DEF SessionInv, BelievesThisPool, RedirectOnce, Redirected, vars
  <2> QED
    BY <2>1, <2>2 DEF SessionInv
<1>2. CASE Next
  BY <1>2, DialKeeps, DropKeeps, ReadKeeps, DispatchKeeps, GetWorkKeeps, SubmitKeeps, SecondKeeps,
     PoolStepKeeps DEF Next
<1> QED
  BY <1>1, <1>2

\* The invariant holds in every reachable state.
LEMMA InvAlways == Spec => []SessionInv
  BY InvInit, InvStep, PTL DEF Spec

\* The back-off stays within its cap and every wait within what the code or
\* the pool may ask, whatever dial() meets.
THEOREM SessionTypeCorrect == Spec => []TypeOK
<1>1. SessionInv => TypeOK
  BY InvGives
<1> QED
  BY <1>1, InvAlways, PTL

\* on_line() counts no verdict the pool did not owe: across drops, redials
\* and strays the verdicts never outnumber the shares submitted and the strays.
THEOREM VerdictsAreAccounted == Spec => []VerdictsAccounted
<1>1. SessionInv => VerdictsAccounted
  BY InvGives
<1> QED
  BY <1>1, InvAlways, PTL

\* What on_line() made the session believe, the pool of this connection said;
\* drop() leaves nothing of it.
THEOREM BeliefsAreThisPools == Spec => []BelievesThisPool
<1>1. SessionInv => BelievesThisPool
  BY InvGives
<1> QED
  BY <1>1, InvAlways, PTL

\* dial() consumes every client.reconnect exactly once.
THEOREM RedirectsDialledOnce == Spec => []RedirectOnce
<1>1. SessionInv => RedirectOnce
  BY InvGives
<1> QED
  BY <1>1, InvAlways, PTL

===========================================================================
