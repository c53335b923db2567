SPECIFICATION Spec
CONSTANTS
  m1 = m1
  m2 = m2
  u1 = u1
  j1 = j1
  j2 = j2
  r1 = r1
  r2 = r2
  Monitor = {m1}
  Url = {u1}
  UrlOf <- OneUrl
  Job = {j1, j2}
  Request = {r1, r2}
  LockTtl = 2
  RetryDelay = 1
  Interval = 3
  BatchSize = 1
  MaxTries = 2
  MaxJobs = 2
  MaxFaults = 1
  NoTime = NoTime
  NoJob = NoJob
  NoMonitor = NoMonitor
SYMMETRY Symmetry
INVARIANTS TypeOK LockExclusion NextFollowsStatus
PROPERTIES LockIsKept CheckLandsOnActive StoppedStaysStopped
