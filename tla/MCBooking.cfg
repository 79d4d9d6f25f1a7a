\* Every handler alone: bookings, quotas and current groups.
SPECIFICATION Spec
CONSTANTS
  g1 = g1
  g2 = g2
  d1 = d1
  d2 = d2
  r1 = r1
  r2 = r2
  Groups <- TwoGroups
  Devices <- TwoDevices
  Requests <- OneRequest
  Windows <- Overlapping
  AllocatedNumber = 2
  AllocatedDuration = 4
  Origin = Origin
  NoId = NoId
  NoGroup = NoGroup
  NoUser = NoUser
  NoTask = NoTask
  Idle = Idle
  Timer = Timer
  Overlap = FALSE
  MaxRequests = 4
  MaxCrashes = 0
  MaxTime = 2
CHECK_DEADLOCK FALSE
SYMMETRY Alike
INVARIANTS NoDoubleBooking NumberExact GroupDurationExact CurrentReservedDevice
