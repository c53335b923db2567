SPECIFICATION FairSpec
CONSTANTS
  m1 = m1
  m2 = m2
  u1 = u1
  j1 = j1
  j2 = j2
  r1 = r1
  r2 = r2
  Monitor = {m1, m2}
  Url = {u1}
  UrlOf <- OneUrl
  Job = {j1, j2}
  Request = {}
  LockTtl = 1
  RetryDelay = 1
  Interval = 1
  BatchSize = 1
  MaxTries = 1
  MaxJobs = 2
  MaxFaults = 1
  NoTime = NoTime
  NoJob = NoJob
  NoMonitor = NoMonitor
PROPERTIES NeverForgotten
