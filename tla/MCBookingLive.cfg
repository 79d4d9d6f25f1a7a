\* Every handler alone, and a process that ends anywhere: groups start, end and stay paid for.
SPECIFICATION Spec
CONSTANTS
  g1 = g1
  g2 = g2
  d1 = d1
  d2 = d2
  r1 = r1
  r2 = r2
  Groups <- TwoGroups
  Devices <- OneDevice
  Requests <- OneRequest
  Windows <- EarlyAndLate
  AllocatedNumber = 2
  AllocatedDuration = 4
  Origin = Origin
  NoId = NoId
  NoGroup = NoGroup
  NoUser = NoUser
  NoTask = NoTask
  Idle = Idle
  Timer = Timer
  Overlap = FALSE
  MaxRequests = 2
  MaxCrashes = 1
  MaxTime = 2
CHECK_DEADLOCK FALSE
INVARIANT GroupsArePaid
  
