---------------------------- MODULE MC_Alerting ----------------------------
(* Instances of Alerting for TLC: two events matching a rule each, apart    *)
(* from a detection of S3 ingestion; each correlation counts both rules.   *)
EXTENDS Alerting, TLC

CONSTANTS e1, e2, r1, r2, c1, c2, d1

SomeMatch == (e1 :> {r1} @@ e2 :> {r2})

CountAll == [c \in Correlations |-> Rules]

Apart == {{e1, e2}, {d1}}
=============================================================================
