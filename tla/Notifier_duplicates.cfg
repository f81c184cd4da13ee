SPECIFICATION FairSpec
CONSTANTS
  m1 = m1
  m2 = m2
  c1 = c1
  c2 = c2
  w1 = w1
  w2 = w2
  Messages = {m1, m2}
  Channels = {c1, c2}
  Routes = {{c1}, {c1, c2}}
  Workers = {w1, w2}
  MaxReceives = 2
  Timeout = 1
  Lease = 2
  Visibility = 4
  MaxFaults = 1
INVARIANTS
  TypeOK
  DeletedMeansDelivered
  RecordedNeverRepeated
PROPERTIES
  EventuallyDelivered
CHECK_DEADLOCK FALSE
