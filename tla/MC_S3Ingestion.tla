---------------------------- MODULE MC_S3Ingestion ----------------------------
(* Instances of S3Ingestion for TLC: an upload notified twice and a replay. *)
EXTENDS S3Ingestion, TLC

CONSTANTS live, replay, m1, m2, m3, r1, r2

Deliveries == (m1 :> live @@ m2 :> live @@ m3 :> replay)

Uncertain == <<{"EVALUATED", "QUARANTINED"}, {"DROPPED"}>>

Changing == <<{r1}, {r1, r2}>>
=============================================================================
