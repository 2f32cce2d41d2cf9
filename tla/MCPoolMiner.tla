--------------------------- MODULE MCPoolMiner ---------------------------
(***************************************************************************)
(* Bounds for model checking PoolMiner.  The developer's pool connects     *)
(* once and announces one job; the user's rotates or reconnects at most    *)
(* once and announces two jobs.                                            *)
(***************************************************************************)
EXTENDS PoolMiner

OneEra  == [x \in Sessions |-> 1]
TwoEras == [x \in Sessions |-> IF x = "main" THEN 2 ELSE 1]
TwoJobs == [x \in Sessions |-> IF x = "main" THEN 2 ELSE 1]

====
