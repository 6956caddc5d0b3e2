SPECIFICATION Spec
CONSTANTS
  p1 = p1  p2 = p2  c1 = c1  s1 = s1  s2 = s2  NULL = NULL
  Jobs = {1}
  Providers = {p1, p2}
  Consumers = {c1}
  Slots = {s1, s2}
  Consumer <- OneConsumer
  Cost <- TwoCost
  Bills <- TwoBills
  Fits <- AllFit
  Deposit = 2
  BatchLimit = 2
  MaxRestoreAttempts = 1
  Workload = {"rest", "cancel", "fail", "lost", "idle", "job_heartbeat"}
SYMMETRY Symmetry
INVARIANTS
  PaidPerDispatch
