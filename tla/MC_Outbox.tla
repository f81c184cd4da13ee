------------------------------ MODULE MC_Outbox ------------------------------
(* Instances of Outbox for TLC.                                            *)
EXTENDS Outbox, TLC

CONSTANTS o1, o2, d1, d2, w1, w2

(* One row naming two queues, and concurrent workers.                      *)
TwoDests == [o \in Rows |-> {d1, d2}]

(* A second row that names no queue: the publisher can only give it up.    *)
OneEmpty == [o \in Rows |-> IF o = o2 THEN {} ELSE {d1, d2}]

Symmetry == Permutations(Workers) \cup Permutations(Destinations)
=============================================================================
