SPECIFICATION MCSpec
CONSTANTS
  v1 = v1
  v2 = v2
  r1 = r1
  r2 = r2
  b1 = b1
  b2 = b2
  e1 = e1
  ta = ta
  tb = tb
  o1 = o1
  o2 = o2
  d1 = d1
  d2 = d2
  w1 = w1
  w2 = w2
  Rows = {o1, o2}
  Workers = {w1, w2}
  Destinations = {d1, d2}
  DestsOf <- OneEmpty
  MaxAttempts = 2
  ClaimAge = 1
  Timeout = 1
  Values = {v1, v2}
  Editors = {w1, w2}
  ListReaders = {e1}
  Contents <- OneContent
  MaxListWrites = 3
  ListAttempts = 2
  RuleIds = {r1, r2}
  Bodies = {b1, b2}
  ReleaseBodies = {b2}
  Manifests <- OneRelease
  Authors = {w1, w2}
  MaxRuleWrites = 3
  TargetNames = {ta, tb}
  Layouts <- NoneOrTwo
  Clients = {w1, w2}
  MaxTargets = 2
  MaxSecrets = 2
  MaxSettingsWrites = 3
SYMMETRY WritesSymmetry
INVARIANTS
  SentMeansDelivered
  LegacyNeverReplayed
  SnapshotsAreWhole
  ActiveSecretsHold
PROPERTIES
  RecordNeverLost
  EditsBuildOnEachOther
  ActsAsRegister
  RuleEditsBuildOnEachOther
  SecretsSurviveEdits
CHECK_DEADLOCK FALSE
