--------------------------- MODULE MC_IrRollback ---------------------------
(* Instances of IrRollback for TLC.                                        *)
EXTENDS IrRollback, TLC

CONSTANTS a1, a2, c1, c2, h1, h2, m1, m2

Symmetry == Permutations(Clients) \cup Permutations(Handlers) \cup Permutations(Messages)
=============================================================================
