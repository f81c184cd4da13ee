SPECIFICATION MCSpec
CONSTANTS
  e1 = e1
  e2 = e2
  r1 = r1
  r2 = r2
  c1 = c1
  c2 = c2
  d1 = d1
  f1 = f1
  f2 = f2
  f3 = f3
  Events = {e1, e2}
  Rules = {r1, r2}
  Matching <- SomeMatch
  Notifying = {r2}
  Managed = {d1}
  Arrivals <- Apart
  Correlations = {c1}
  Counts <- CountAll
  Unindexed = {}
  Threshold = 2
  Window = 1
  Limit = 10
  Background = 0
  LaggingIndex = FALSE
  MaxTries = 2
  MaxReceives = 2
  MaxBatches = 2
  MaxTime = 2
  MaxFaults = 1
  EventFields = {"actor", "integration_id", "source"}
  FieldValues = {"v", "w", "i", "falco", "aws"}
  Documents <- SomeDocuments
  Subjects <- SomeSubjects
  Snapshots <- SomeSnapshots
  LastDay = 3
  FirstToday = 2
  RangeDays = 2
  PerDay = 2
  PageSizes = {1, 2}
  MetricsSize = 2
  MaxChanges = 2
  Responses <- Replies
  MappedFields = {f1, f2, f3}
  Incidents <- Occurrences
INVARIANTS
  DoneMeansEnqueued
  OneAlertPerTrigger
  ThresholdMeansAlert
  FiresOnEvidence
  ForeignNeverResponds
  ListingIsWhole
  ActsOnMappedTargets
  UndoAddressesItsAction
CHECK_DEADLOCK FALSE
