---------------------------- MODULE MC_Notifier ----------------------------
(* Instances of Notifier for TLC.                                          *)
EXTENDS Notifier

CONSTANTS m1, m2, c1, c2, w1, w2
=============================================================================
