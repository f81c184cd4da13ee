---------------------------- MODULE MC_Responder ----------------------------
(* Instances of Responder for TLC.  A message that comes back while it is   *)
(* being handled also stands for a second message with the same actions.   *)
EXTENDS Responder, TLC

CONSTANTS a1, a2, a3, m1, w1, w2

All == [m \in Messages |-> Actions]

Symmetry == Permutations(Workers) \cup Permutations(Actions)
=============================================================================
