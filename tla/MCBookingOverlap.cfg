\* Handlers that interleave, and a process that ends anywhere: the quotas.
SPECIFICATION Spec
CONSTANTS
  g1 = g1
  g2 = g2
  d1 = d1
  d2 = d2
  r1 = r1
  r2 = r2
  Groups <- TwoGroups
  Devices <- TwoDevices
  Requests <- TwoRequests
  Windows <- Soon
  AllocatedNumber = 1
  AllocatedDuration = 1
  Origin = Origin
  NoId = NoId
  NoGroup = NoGroup
  NoUser = NoUser
  NoTask = NoTask
  Idle = Idle
  Timer = Timer
  Overlap = TRUE
  MaxRequests = 2
  MaxCrashes = 1
  MaxTime = 1
CHECK_DEADLOCK FALSE
SYMMETRY Alike
INVARIANTS TypeOK ConsumedWithinQuota
