SPECIFICATION Spec
CONSTANTS
  a1 = a1
  a2 = a2
  c1 = c1
  c2 = c2
  h1 = h1
  h2 = h2
  m1 = m1
  m2 = m2
  Actions = {a1}
  Supported = {a1}
  Runnable = {a1}
  Clients = {c1}
  Handlers = {h1, h2}
  Messages = {m1, m2}
  MaxReceives = 2
  MaxActions = 1
  BestEffortFails = TRUE
  StaleReads = TRUE
SYMMETRY Symmetry
INVARIANTS
  ReportedMeansUndone
  UndoBounded
CHECK_DEADLOCK FALSE
