CONSTANTS
  u1 = u1
  u2 = u2
  j1 = j1
  j2 = j2
  j3 = j3
  m1 = m1
  a = a
  b = b
  KnUsers = {u1, u2}
  KnSystem = KnSystem
  PrefixLen = 2
  ChunkSize = 8
  ContainedIn <- MCContainedIn
  GraphLimit = 3
  Uploads = {j1, j2, j3}
  Briefs = {m1}
  JobOwner <- MCJobOwner
  Text <- MCText
  Extracted <- MCExtracted
  GraphSafe = {m1}
  Workers = {w1, w2}
  Activity = Activity
  QueueCap = 1
  IgMaxAttempts = 2
  MaxFaults = 2
  Asker = u1
  RsNames = {a}
  ReportLimit = 1
SPECIFICATION MCSpec
INVARIANTS IndexedIsWhole GraphSavedWhole ReportFromOwnSources
PROPERTIES UploadsEnd
CHECK_DEADLOCK FALSE
