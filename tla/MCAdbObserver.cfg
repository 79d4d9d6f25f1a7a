\* One device that hangs, goes and comes, and connections that are lost and refused.
SPECIFICATION Spec
CONSTANTS
  None = None
  NumDevices = 1
  NumSockets = 3
  Network <- OneDevice
  MayHang <- OneDevice
  MaxHealthAttempts = 2
  MaxReconnects = 2
  Slow = FALSE
  MaxFaults = 2
CHECK_DEADLOCK FALSE
INVARIANT OneRequestEach
PROPERTIES  EverySettled
