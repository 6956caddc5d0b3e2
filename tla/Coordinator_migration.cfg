SPECIFICATION Spec
CONSTANTS
  p1 = p1  p2 = p2  c1 = c1  s1 = s1  s2 = s2  NULL = NULL
  Jobs = {1}
  Providers = {p1, p2}
  Consumers = {c1}
  Slots = {s1}
  Consumer <- OneConsumer
  Cost <- FreeCost
  Bills <- FreeBills
  Fits <- AllFit
  Deposit = 0
  BatchLimit = 2
  MaxRestoreAttempts = 1
  Workload = {"grpc", "idle", "silence", "crash", "restart"}
SYMMETRY Symmetry
INVARIANTS
  LeaseExclusive QueuedUnowned DispatchBound PaidPerDispatch
