SPECIFICATION Spec
CONSTANTS
  e1 = e1
  e2 = e2
  r1 = r1
  r2 = r2
  c1 = c1
  c2 = c2
  d1 = d1
  Events = {e1, e2}
  Rules = {r1, r2}
  Matching <- SomeMatch
  Notifying = {r2}
  Managed = {d1}
  Arrivals <- Apart
  Correlations = {c1, c2}
  Counts <- CountAll
  Unindexed = {c2}
  Threshold = 2
  Window = 1
  Limit = 10
  Background = 0
  LaggingIndex = FALSE
  MaxTries = 2
  MaxReceives = 2
  MaxBatches = 2
  MaxTime = 2
  MaxFaults = 0
INVARIANT
  ThresholdMeansAlert
CHECK_DEADLOCK FALSE
