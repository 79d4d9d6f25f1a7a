\* Two users, one device worker: safety, the abstract lease and its end.
SPECIFICATION Spec
CONSTANTS
  g1 = g1
  g2 = g2
  None = None
  NoId = None
  NoChannel = NoChannel
  Groups <- TwoGroups
  Timeouts <- AskedTimeouts
  GroupTimeout = 2
  Quarter = 1
  MaxTimeout = 4
  MaxChecks = 2
INVARIANTS TypeOK LeaseAgrees AnnouncedOwner TimerInTime
PROPERTIES ImplementsDeviceLease IdleTimedLeaseEnds
