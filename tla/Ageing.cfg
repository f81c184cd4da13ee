SPECIFICATION MCSpec
CONSTANTS
  o1 = o1
  o2 = o2
  d1 = d1
  d2 = d2
  w1 = w1
  w2 = w2
  Rows = {o1}
  Workers = {w1, w2}
  Destinations = {d1, d2}
  DestsOf <- TwoDests
  MaxAttempts = 3
  ClaimAge = 2
  Timeout = 1
  p1 = p1
  p2 = p2
  e1 = e1
  e2 = e2
  ra = ra
  rd = rd
  Publishers = {p1, p2}
  Containers = {e1, e2}
  KindOf <- Processors
  MaxPublications = 2
  KeyNames <- SomeKeys
  ApiContainers = {e1}
  KeyTTL = 2
  KeyHorizon = 5
  AccountRoleArns = {ra}
  DefaultArn = rd
  Responders = {e1}
  RoleTTL = 2
  ClientTTL = 3
  SessionTime = 4
  RoleHorizon = 6
INVARIANTS
  EvaluatesAnnounced
  CurrentMeansLoaded
  AccessEndsInTime
  ActsWithCurrentRole
PROPERTIES
  RecordedNeverResent
  KeepsPromise
  EventuallySettled
  EventuallyCurrent
CHECK_DEADLOCK FALSE
