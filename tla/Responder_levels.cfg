SPECIFICATION Spec
CONSTANTS
  a1 = a1
  a2 = a2
  a3 = a3
  m1 = m1
  w1 = w1
  w2 = w2
  Actions = {a1, a2, a3}
  Messages = {m1}
  ActionsOf <- All
  Workers = {w1, w2}
  MaxReceives = 2
  MaxActions = 1
  StoresInfo = FALSE
SYMMETRY Symmetry
INVARIANTS
  BreakerHolds
CHECK_DEADLOCK FALSE
