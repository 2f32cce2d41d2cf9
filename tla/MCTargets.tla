---------------------------- MODULE MCTargets ----------------------------
(* An instance of Targets on bytes of two bits: a target has eight bits,   *)
(* its top word and the remainder's register four, and diff1 is 00111100.  *)
EXTENDS Targets

SmallDiff1 == <<0, 0, 1, 1, 1, 1, 0, 0>>

====
