-------------------------- MODULE StratumSession --------------------------
(***************************************************************************)
(* The connection side of one Stratum session: stratum_poll(), dial() with *)
(* its DNS lookup, back-off and client.reconnect redirect, the line        *)
(* dispatcher, stratum_submit(), against a pool that answers each request  *)
(* at most once and may close, flood, redirect, rotate or move at any time.*)
(*                                                                         *)
(*  - retry_at - now is kept as a countdown, s.wait.                       *)
(*  - A reply is known by the request it answers.  next_id never repeats   *)
(*    and replies die with their socket, so an id matches a request of the *)
(*    present connection or none ("stray": id null, or an id never sent).  *)
(*  - The bytes of an unfinished line are still in the pipe: a poll takes  *)
(*    any prefix of the lines the pool has written.                        *)
(***************************************************************************)
EXTENDS Integers, Sequences, FiniteSets, FiniteSetsExt, SequencesExt

CONSTANTS BackoffMin, BackoffMax, \* BACKOFF_MIN_S = 2, BACKOFF_MAX_S = 120
          MaxAsked,               \* longest wait a client.reconnect may ask: 300
          NServers,               \* nameservers load_nameservers() returned
          MaxPipe,                \* bound: lines in flight from the pool
          MaxFaults,              \* bound: failures, closes, redirects, rotations
          MaxMoves,               \* bound: changes of the pool's address
          MaxShares               \* bound: shares submitted

ASSUME SessionConstants ==
    /\ {BackoffMin, BackoffMax, MaxAsked, NServers} \subseteq Nat \ {0}
    /\ BackoffMin <= BackoffMax
    /\ {MaxPipe, MaxFaults, MaxMoves, MaxShares} \subseteq Nat

VARIABLES s,      \* stratum_t
          rx,     \* complete lines of this poll, not yet dispatched
          wire,   \* the connection as the pool sees it
          poolAt, \* the address the configured host name should resolve to
          hist    \* history: what the properties count

vars == <<s, rx, wire, poolAt, hist>>

None  == "none"
Ips   == {"first", "second"}
Hello == {"sub", "auth", "suggest"}
Line  == [kind : Hello \cup {"share", "stray", "notify", "rotate", "flood"}, ok : BOOLEAN]
         \cup [kind : {"reconnect"}, redir : {"host", "port0", None}, wait : 0 .. MaxAsked]

\* The connection state the pool keeps: what it was asked and has not
\* answered, what it granted, the lines written and not yet read.
NoWire == [open |-> FALSE, pipe |-> <<>>, asked |-> {}, shares |-> 0, granted |-> {}]

\* stratum_init.
Init ==
    /\ s = [fd |-> FALSE, subscribed |-> FALSE, authorized |-> FALSE, have_job |-> FALSE,
            addr |-> None, backoff |-> 0, wait |-> 0, redir |-> None,
            submitted |-> 0, accepted |-> 0, rejected |-> 0]
    /\ rx = <<>>
    /\ wire = NoWire
    /\ poolAt = "first"
    /\ hist = [faults |-> 0, moves |-> 0, strays |-> 0, redirects |-> 0, dialled |-> 0,
               built |-> FALSE]

Fault == /\ hist.faults < MaxFaults
         /\ hist' = [hist EXCEPT !.faults = @ + 1]

\* drop(): close the socket, clear the flags and the receive buffer.
Drop(t) == [t EXCEPT !.fd = FALSE, !.subscribed = FALSE, !.authorized = FALSE,
                     !.have_job = FALSE]

stratum_ready == s.fd /\ s.subscribed /\ s.authorized /\ s.have_job

-----------------------------------------------------------------------------
(* dns.c *)

\* dns_resolve_a(): the servers are asked in order, each once; a server that
\* does not answer, or answers with an error or without an A record, is
\* skipped and the first A record wins.
Resolve(answer) ==
    LET answering == {i \in 1 .. NServers : answer[i] # None}
    IN  IF answering = {} THEN None ELSE answer[Min(answering)]

\* query_one(): no reply, a refusal, or the address of the pool.  A server
\* that fails the query is a fault of the environment.
Answers == [1 .. NServers -> {None, poolAt}]

-----------------------------------------------------------------------------
(* dial() *)

MayDial == ~s.fd /\ rx = <<>> /\ s.wait = 0

\* The address dial() starts from: a redirect resolves into a buffer of its
\* own, the configured host into the cached s.addr.
Redirected == s.redir # None

\* MUTANT of Consume: the redirect is forgotten only once it has worked.
ConsumeOnSuccess(t) == t

\* The redirect is consumed before this attempt's outcome is known.
Consume(t) == [t EXCEPT !.redir = None]

CountDial(h) == [h EXCEPT !.dialled = @ + IF Redirected THEN 1 ELSE 0]

\* MUTANT of BackOff: the cap is forgotten.
BackOffUncapped(t) ==
    LET b == IF t.backoff = 0 THEN BackoffMin ELSE 2 * t.backoff
    IN  [t EXCEPT !.backoff = b, !.wait = b]

\* Exponential back-off after a failed lookup or connect.
BackOff(t) ==
    LET b == Min({BackoffMax, IF t.backoff = 0 THEN BackoffMin ELSE 2 * t.backoff})
    IN  [t EXCEPT !.backoff = b, !.wait = b]

\* The cache after the lookup.
WithAddr(t, a) == IF Redirected THEN t ELSE [t EXCEPT !.addr = a]

\* The lookup failed.
DialUnresolved ==
    /\ MayDial
    /\ Redirected \/ s.addr = None
    /\ hist.faults < MaxFaults
    /\ \E answer \in Answers : Resolve(answer) = None
    /\ hist' = [CountDial(hist) EXCEPT !.faults = @ + 1]
    /\ s' = BackOff(Consume(s))
    /\ UNCHANGED <<rx, wire, poolAt>>

\* The outcomes of the lookup: the cached address, or the one just resolved.
Address == IF s.addr # None /\ ~Redirected THEN {s.addr}
           ELSE {Resolve(answer) : answer \in Answers} \ {None}

\* socket() failed: no back-off, the next poll tries again.
DialNoSocket ==
    /\ MayDial
    /\ hist.faults < MaxFaults
    /\ \E a \in Address : s' = WithAddr(Consume(s), a)
    /\ hist' = [CountDial(hist) EXCEPT !.faults = @ + 1]
    /\ UNCHANGED <<rx, wire, poolAt>>

\* connect() failed or timed out after 8 s.  A redirect's target may be dead
\* (port 0 always is); the configured host refuses when the pool has left
\* the address, or by a fault.  The cached address is kept.
DialRefused ==
    /\ MayDial
    /\ \E a \in Address :
        /\ \/ /\ Redirected \/ a # poolAt
              /\ hist' = CountDial(hist)
           \/ /\ hist.faults < MaxFaults
              /\ hist' = [CountDial(hist) EXCEPT !.faults = @ + 1]
        /\ s' = BackOff(WithAddr(Consume(s), a))
    /\ UNCHANGED <<rx, wire, poolAt>>

\* Connected: back-off cleared, subscribe, authorize and suggest_difficulty
\* sent in one burst.
DialConnected ==
    /\ MayDial
    /\ s.redir # "port0"
    /\ \E a \in Address :
        /\ Redirected \/ a = poolAt
        /\ s' = [WithAddr(Consume(s), a) EXCEPT !.fd = TRUE, !.backoff = 0]
    /\ hist' = CountDial(hist)
    /\ wire' = [NoWire EXCEPT !.open = TRUE, !.asked = Hello]
    /\ UNCHANGED <<rx, poolAt>>

\* Connected, and one of the three requests could not be sent: dropped, with
\* no back-off.
DialSendFails ==
    /\ MayDial
    /\ s.redir # "port0"
    /\ hist.faults < MaxFaults
    /\ \E a \in Address :
        /\ Redirected \/ a = poolAt
        /\ s' = Drop([WithAddr(Consume(s), a) EXCEPT !.backoff = 0])
    /\ hist' = [CountDial(hist) EXCEPT !.faults = @ + 1]
    /\ UNCHANGED <<rx, wire, poolAt>>

dial == DialUnresolved \/ DialNoSocket \/ DialRefused \/ DialConnected \/ DialSendFails

-----------------------------------------------------------------------------
(* stratum_poll() with the socket up: recv until it would block *)

\* MUTANT of PollDrops: recv() returning 0 is taken for "nothing yet".
PollDropsFull ==
    /\ s.fd /\ rx = <<>>
    /\ \E i \in DOMAIN wire.pipe : wire.pipe[i].kind = "flood"
    /\ s' = Drop(s)
    /\ wire' = NoWire
    /\ UNCHANGED <<rx, poolAt, hist>>

\* A closed connection, or a buffer full before the reading stops: dropped,
\* with whatever complete lines were already read.
PollDrops ==
    /\ s.fd /\ rx = <<>>
    /\ \/ ~wire.open
       \/ \E i \in DOMAIN wire.pipe : wire.pipe[i].kind = "flood"
    /\ s' = Drop(s)
    /\ wire' = NoWire
    /\ UNCHANGED <<rx, poolAt, hist>>

PollReads ==
    /\ s.fd /\ rx = <<>> /\ wire.open
    /\ \E n \in 1 .. Len(wire.pipe) :
        /\ \A i \in 1 .. n : wire.pipe[i].kind # "flood"
        /\ rx' = SubSeq(wire.pipe, 1, n)
        /\ wire' = [wire EXCEPT !.pipe = SubSeq(@, n + 1, Len(@))]
    /\ UNCHANGED <<s, poolAt, hist>>

\* on_line(): a reply to one of the three handshake requests.  An authorize
\* the pool refuses and a subscribe it refuses leave the session unready.
OnReply(kind, ok) ==
    CASE kind = "sub"  -> [s EXCEPT !.subscribed = @ \/ ok]
      [] kind = "auth" -> [s EXCEPT !.authorized = ok]
      [] OTHER         -> s

\* Anything else with an id is a submit verdict.
OnVerdict(ok) == IF ok THEN [s EXCEPT !.accepted = @ + 1]
                       ELSE [s EXCEPT !.rejected = @ + 1]

\* mining.set_extranonce voids the job, unless the new value is not hex: then
\* the job stays.
OnRotate(ok) == [s EXCEPT !.have_job = @ /\ ~ok]

\* client.reconnect: a usable host arms the redirect, clears the cached
\* address and sets the wait; the connection is dropped either way.
OnReconnect(l) ==
    Drop(IF l.redir = None THEN s
         ELSE [s EXCEPT !.redir = l.redir, !.addr = None, !.wait = l.wait])

\* MUTANT of on_line: the reply to suggest_difficulty is not told apart.
on_line_TwoIds(l) ==
    CASE l.kind \in {"sub", "auth"}                -> OnReply(l.kind, l.ok)
      [] l.kind \in {"share", "stray", "suggest"}  -> OnVerdict(l.ok)
      [] l.kind = "notify"                         -> [s EXCEPT !.have_job = TRUE]
      [] l.kind = "rotate"                         -> OnRotate(l.ok)
      [] OTHER                                     -> OnReconnect(l)

on_line(l) ==
    CASE l.kind \in Hello              -> OnReply(l.kind, l.ok)
      [] l.kind \in {"share", "stray"} -> OnVerdict(l.ok)
      [] l.kind = "notify"             -> [s EXCEPT !.have_job = TRUE]
      [] l.kind = "rotate"             -> OnRotate(l.ok)
      [] OTHER                         -> OnReconnect(l)

\* MUTANT of Rest: the lines behind the one that dropped us are dispatched.
RestAll(t) == Tail(rx)

\* A handler that dropped us ends the dispatch.
Rest(t) == IF t.fd THEN Tail(rx) ELSE <<>>

\* The dispatch loop, one line.
Dispatch ==
    /\ rx # <<>>
    /\ LET t == on_line(Head(rx)) IN
        /\ s' = t
        /\ rx' = Rest(t)
        /\ wire' = IF t.fd THEN wire ELSE NoWire
        /\ hist' = IF Head(rx).kind = "reconnect" /\ Head(rx).redir # None
                   THEN [hist EXCEPT !.redirects = @ + 1] ELSE hist
    /\ UNCHANGED poolAt

-----------------------------------------------------------------------------
(* The work source: st_get_work() and stratum_submit() *)

\* An item is built on this session: from now on a candidate of it may come.
GetWork ==
    /\ stratum_ready /\ rx = <<>>
    /\ ~hist.built
    /\ hist' = [hist EXCEPT !.built = TRUE]
    /\ UNCHANGED <<s, rx, wire, poolAt>>

\* All a submit needs is a socket: the item may be of an earlier connection,
\* and the handshake of this one, or its job, still missing.
MaySubmit == s.fd /\ rx = <<>> /\ hist.built /\ s.submitted < MaxShares

SubmitSent ==
    /\ MaySubmit
    /\ s' = [s EXCEPT !.submitted = @ + 1]
    /\ wire' = IF wire.open THEN [wire EXCEPT !.shares = @ + 1] ELSE wire
    /\ UNCHANGED <<rx, poolAt, hist>>

\* send() failed because the peer is gone: dropped, not counted.
SubmitFails ==
    /\ MaySubmit
    /\ ~wire.open
    /\ s' = Drop(s)
    /\ wire' = NoWire
    /\ UNCHANGED <<rx, poolAt, hist>>

\* Another second of wall-clock time.
Second ==
    /\ s.wait > 0
    /\ s' = [s EXCEPT !.wait = @ - 1]
    /\ UNCHANGED <<rx, wire, poolAt, hist>>

-----------------------------------------------------------------------------
(* The pool (external) *)

Write(w, l) == [w EXCEPT !.pipe = Append(@, l)]

CanWrite == wire.open /\ Len(wire.pipe) < MaxPipe

PoolAnswers ==
    /\ CanWrite
    /\ \E k \in wire.asked, ok \in BOOLEAN :
        /\ ok \/ k = "suggest" \/ hist.faults < MaxFaults
        /\ hist' = IF ok \/ k = "suggest" THEN hist ELSE [hist EXCEPT !.faults = @ + 1]
        /\ wire' = [Write(wire, [kind |-> k, ok |-> ok]) EXCEPT
                        !.asked = @ \ {k},
                        !.granted = IF ok THEN @ \cup {k} ELSE @]
    /\ UNCHANGED <<s, rx, poolAt>>

PoolVerdict ==
    /\ CanWrite
    /\ wire.shares > 0
    /\ \E ok \in BOOLEAN :
        wire' = [Write(wire, [kind |-> "share", ok |-> ok]) EXCEPT !.shares = @ - 1]
    /\ UNCHANGED <<s, rx, poolAt, hist>>

\* A mining.notify; the pool repeats it only when its job was voided.
PoolNotifies ==
    /\ CanWrite
    /\ "notify" \notin wire.granted
    /\ wire' = [Write(wire, [kind |-> "notify", ok |-> TRUE]) EXCEPT
                    !.granted = @ \cup {"notify"}]
    /\ UNCHANGED <<s, rx, poolAt, hist>>

\* mining.set_extranonce, well formed or not: to the pool the job is void
\* until the next notify.
PoolRotates ==
    /\ CanWrite /\ Fault
    /\ \E ok \in BOOLEAN :
        wire' = [Write(wire, [kind |-> "rotate", ok |-> ok]) EXCEPT
                    !.granted = @ \ {"notify"}]
    /\ UNCHANGED <<s, rx, poolAt>>

\* A reply that answers nothing we asked (id null).
PoolStray ==
    /\ CanWrite
    /\ hist.faults < MaxFaults
    /\ hist' = [hist EXCEPT !.faults = @ + 1, !.strays = @ + 1]
    /\ wire' = Write(wire, [kind |-> "stray", ok |-> FALSE])
    /\ UNCHANGED <<s, rx, poolAt>>

PoolRedirects ==
    /\ CanWrite /\ Fault
    /\ \E r \in {"host", "port0", None}, w \in 0 .. MaxAsked :
        wire' = Write(wire, [kind |-> "reconnect", redir |-> r, wait |-> w])
    /\ UNCHANGED <<s, rx, poolAt>>

\* Enough bytes to fill rx[262144] in one poll, lines ended or not: the
\* buffer's fill is tested before any line of it is dispatched.
PoolFloods ==
    /\ CanWrite /\ Fault
    /\ wire' = Write(wire, [kind |-> "flood", ok |-> FALSE])
    /\ UNCHANGED <<s, rx, poolAt>>

PoolCloses ==
    /\ wire.open /\ Fault
    /\ wire' = [wire EXCEPT !.open = FALSE]
    /\ UNCHANGED <<s, rx, poolAt>>

\* The pool's name is given another address; its connections end.
PoolMoves ==
    /\ hist.moves < MaxMoves
    /\ hist' = [hist EXCEPT !.moves = @ + 1]
    /\ poolAt' \in Ips \ {poolAt}
    /\ wire' = [wire EXCEPT !.open = FALSE]
    /\ UNCHANGED <<s, rx>>

-----------------------------------------------------------------------------

Pool == \/ PoolAnswers \/ PoolVerdict \/ PoolNotifies \/ PoolRotates \/ PoolStray
        \/ PoolRedirects \/ PoolFloods \/ PoolCloses \/ PoolMoves

Next == dial \/ PollDrops \/ PollReads \/ Dispatch
        \/ GetWork \/ SubmitSent \/ SubmitFails \/ Second \/ Pool

Spec == Init /\ [][Next]_vars

(***************************************************************************)
(* The mining loop polls the session every iteration and time passes; a    *)
(* pool that is up answers what it is asked and announces a job.  Faults   *)
(* are never fair: they happen at most MaxFaults times.                    *)
(***************************************************************************)
Fairness == /\ WF_vars(dial)
            /\ WF_vars(PollDrops \/ PollReads)
            /\ WF_vars(Dispatch)
            /\ WF_vars(Second)
            /\ WF_vars(PoolNotifies)
            /\ \A k \in Hello : WF_vars(PoolAnswers /\ k \in wire.asked /\ k \notin wire'.asked)

FairSpec == Spec /\ Fairness

-----------------------------------------------------------------------------
(* Properties *)

\* The back-off never passes its cap, a wait is one the code or the pool may
\* ask for, and the session's fields keep their shape through every redial.
TypeOK ==
    /\ s \in [fd : BOOLEAN, subscribed : BOOLEAN, authorized : BOOLEAN, have_job : BOOLEAN,
              addr : Ips \cup {None}, backoff : 0 .. BackoffMax,
              wait : 0 .. Max({BackoffMax, MaxAsked}), redir : {"host", "port0", None},
              submitted : 0 .. MaxShares, accepted : Nat, rejected : Nat]
    /\ rx \in Seq(Line)
    /\ wire \in [open : BOOLEAN, pipe : Seq(Line), asked : SUBSET Hello,
                 shares : 0 .. MaxShares, granted : SUBSET (Hello \cup {"notify"})]
    /\ poolAt \in Ips
    /\ hist \in [faults : 0 .. MaxFaults, moves : 0 .. MaxMoves,
                 strays : Nat, redirects : Nat, dialled : Nat, built : BOOLEAN]

Lines(kinds) == Cardinality({i \in DOMAIN rx : rx[i].kind \in kinds})
                + Cardinality({i \in DOMAIN wire.pipe : wire.pipe[i].kind \in kinds})

(***************************************************************************)
(* With a pool that answers each request once, the verdicts counted and    *)
(* those still under way never outnumber the shares submitted, except by   *)
(* the stray replies: no handshake reply is counted as a verdict, across   *)
(* drops, redials and answers that overtake each other, shares submitted   *)
(* in the middle of a handshake included.                                  *)
(***************************************************************************)
VerdictsAccounted ==
    s.accepted + s.rejected + Lines({"share", "stray"}) + wire.shares
        <= s.submitted + hist.strays

(***************************************************************************)
(* The session believes only what the pool of the present connection said: *)
(* it is subscribed and authorized only if that pool granted it, and       *)
(* nothing, a job included, outlives the connection.                       *)
(***************************************************************************)
BelievesThisPool ==
    /\ s.subscribed => s.fd /\ "sub" \in wire.granted
    /\ s.authorized => s.fd /\ "auth" \in wire.granted
    /\ s.have_job => s.fd

(***************************************************************************)
(* dial() consumes a client.reconnect exactly once: every redirect was     *)
(* dialled once or is the one still pending, and it is pending only while  *)
(* down.                                                                   *)
(***************************************************************************)
RedirectOnce ==
    /\ hist.redirects = hist.dialled + IF Redirected THEN 1 ELSE 0
    /\ Redirected => ~s.fd

\* The pool has answered everything and will not have this worker.
Refused == s.fd /\ wire.open /\ wire.asked = {} /\ ~({"sub", "auth"} \subseteq wire.granted)

\* The pool has left the address dial() has cached.
StaleAddress == s.addr \notin {None, poolAt}

(***************************************************************************)
(* While the cached address is the pool's, a session that is not refused   *)
(* becomes ready again and again, whatever closes, floods, rotations,      *)
(* redirects and failed dials came before.                                 *)
(***************************************************************************)
ComesBack == []<>(stratum_ready \/ Refused \/ StaleAddress)

====
