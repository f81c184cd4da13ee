SPECIFICATION FairSpec
CONSTANTS
  live = live
  replay = replay
  m1 = m1
  m2 = m2
  m3 = m3
  r1 = r1
  r2 = r2
  Live = live
  Replays = {replay}
  Messages = {m1, m2, m3}
  JobOf <- Deliveries
  Framed = {1}
  Records = 2
  Outcomes <- Uncertain
  Rules = {r1, r2}
  Matching <- Changing
  MaxVersion = 2
  MaxRev = 2
  MaxWorkers = 2
  MaxReceives = 2
  MaxFaults = 1
INVARIANTS
  TypeOK
  OneEvaluation
  ReportIsTrue
  DeletedMeansReported
PROPERTIES
  KeepsPromise
  EventuallyReported
CHECK_DEADLOCK FALSE
