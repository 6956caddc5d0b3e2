SPECIFICATION FairSpec
CONSTANTS
  p1 = p1  p2 = p2  c1 = c1  s1 = s1  s2 = s2  NULL = NULL
  Jobs = {1, 2}
  Providers = {p1, p2}
  Consumers = {c1}
  Slots = {s1}
  Consumer <- OneConsumer
  Cost <- FreeCost
  Bills <- FreeBills
  Fits <- OneEach
  Deposit = 4
  BatchLimit = 2
  MaxRestoreAttempts = 1
  Workload = {"rest", "idle", "lost", "job_heartbeat", "fail"}
PROPERTIES
  QueuedServed
