\* Two devices, both sides: every order of bumps, drops and checks of the set.
SPECIFICATION Spec
CONSTANTS
  d1 = d1
  d2 = d2
  p1 = p1
  p2 = p2
  Nil = Nil
  Serials <- TwoDevices
  Processors <- OneProcessor
  Sides <- BothSides
  TTL = 2
  MaxQueue = 1
  MaxRestarts = 1
  MaxHandlers = 2
SYMMETRY DeviceSymmetry
INVARIANTS SetInOrder SetTimerCoversHead
