-------------------------- MODULE CountedChannel --------------------------
(***************************************************************************)
(* What the FPGA's result path promises the host, without its arbiter and  *)
(* its transmitter: every core has a one-place channel.  A candidate is    *)
(* waiting, or has been delivered, or is counted as lost; a step delivers  *)
(* at most one, and which core is served is left open.  Candidates are     *)
(* known by their ordinal in their core; 0 is none.                        *)
(***************************************************************************)
EXTENDS Naturals

CONSTANTS
    Cores,    \* the sources
    DropMax   \* what a loss counter can show

VARIABLES
    raised,   \* raised[k]: candidates core k has produced
    waiting,  \* waiting[k]: the one in the channel, or 0
    last,     \* last[k]: the newest one delivered, or 0
    shown     \* shown[k]: the loss counter

vars == <<raised, waiting, last, shown>>

Init ==
    /\ raised  = [k \in Cores |-> 0]
    /\ waiting = [k \in Cores |-> 0]
    /\ last    = [k \in Cores |-> 0]
    /\ shown   = [k \in Cores |-> 0]

\* The channel of k can take a candidate in the step that delivers D.
Free(k, D) == waiting[k] = 0 \/ k \in D

\* The cores of S produce a candidate while those of D are delivered.
Step(S, D) ==
    /\ \A k \in D : waiting[k] # 0
    /\ \A j, k \in D : j = k
    /\ raised' = [k \in Cores |-> IF k \in S THEN raised[k] + 1 ELSE raised[k]]
    /\ last'   = [k \in Cores |-> IF k \in D THEN waiting[k] ELSE last[k]]
    /\ waiting' = [k \in Cores |->
                     IF k \in S /\ Free(k, D) THEN raised[k] + 1
                     ELSE IF k \in D THEN 0 ELSE waiting[k]]
    /\ shown'  = [k \in Cores |->
                    IF k \in S /\ ~Free(k, D) /\ shown[k] < DropMax
                    THEN shown[k] + 1 ELSE shown[k]]

Next == \E S, D \in SUBSET Cores : Step(S, D)

Spec == Init /\ [][Next]_vars

====
