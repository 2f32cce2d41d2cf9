----------------------------- MODULE Stratum -----------------------------
(***************************************************************************)
(* A Stratum session as stratum.c keeps it (stratum_t), and what each      *)
(* protocol event does to it.  These are operators on session records, so  *)
(* that the modules that own a session (PoolMiner owns two) share one      *)
(* translation of the handlers.                                            *)
(*                                                                         *)
(* Byte strings are abstracted to identities: a job is the notify that     *)
(* brought it (seq), extranonce1 is the era in which the pool assigned it, *)
(* or Torn when it is the value of no assignment.                          *)
(* The era is a history field; a new one starts whenever the pool's        *)
(* extranonce assignment changes: at each connection and at each           *)
(* mining.set_extranonce.                                                  *)
(***************************************************************************)
EXTENDS Integers

\* js_hex() decodes into extranonce1 itself: a character that is no hex digit
\* ends it half-way, with the front of the old value overwritten.
Torn == -1

\* stratum_init: not connected, no job yet (job.seq is 0).
NewSession(prev) ==
    [fd |-> FALSE, subscribed |-> FALSE, authorized |-> FALSE, have_job |-> FALSE,
     en1 |-> 0, era |-> 0,
     job |-> [seq |-> 0, prev |-> prev, clean |-> FALSE, fits |-> FALSE, era |-> 0]]

\* MUTANT of Drop: the job survives the connection.
DropKeepingJob(s) ==
    [s EXCEPT !.fd = FALSE, !.subscribed = FALSE, !.authorized = FALSE]

\* drop(): the job, its seq and extranonce1 stay in the record; only the
\* flags that make it usable are cleared.
Drop(s) ==
    [s EXCEPT !.fd = FALSE, !.subscribed = FALSE, !.authorized = FALSE, !.have_job = FALSE]

\* The end of a successful dial().
Dialled(s) == [s EXCEPT !.fd = TRUE, !.era = @ + 1]

\* on_subscribe() with a usable extranonce2_size, with one it refuses, and
\* with an extranonce1 that turns out not to be hex half-way: extranonce1 is
\* stored before anything is refused.
OnSubscribe(s)        == [s EXCEPT !.en1 = s.era, !.subscribed = TRUE]
OnSubscribeBadSize(s) == [s EXCEPT !.en1 = s.era]
OnSubscribeBadHex(s)  == [s EXCEPT !.en1 = Torn]

OnAuthorize(s, ok) == [s EXCEPT !.authorized = ok]

\* on_notify() once every parameter has parsed. fits says whether the job
\* can be laid out for this bitstream (52-byte stage 3, no merkle branch).
OnNotify(s, prev, clean, fits) ==
    [s EXCEPT !.have_job = TRUE,
              !.job = [seq |-> @.seq + 1, prev |-> prev, clean |-> clean,
                       fits |-> fits, era |-> s.era]]

\* mining.set_extranonce, and one that turns out not to be hex half-way: the
\* handler does nothing more, so the job and its readiness stay.
OnSetExtranonce(s) ==
    [s EXCEPT !.era = @ + 1, !.en1 = s.era + 1, !.have_job = FALSE]

OnSetExtranonceBad(s) == [s EXCEPT !.en1 = Torn]

\* stratum_ready.
Ready(s) == s.fd /\ s.subscribed /\ s.authorized /\ s.have_job

====
