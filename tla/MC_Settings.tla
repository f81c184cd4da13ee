---------------------------- MODULE MC_Settings ----------------------------
(* Instances of Settings for TLC.                                          *)
EXTENDS Settings

CONSTANTS ta, tb

(* Files have two webhook targets, in either order.                        *)
TwoTargets == {<<ta, tb>>, <<tb, ta>>}
=============================================================================
