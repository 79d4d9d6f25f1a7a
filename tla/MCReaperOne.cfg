\* One device; the reaper subscribes to the device side, as shipped.
SPECIFICATION Spec
CONSTANTS
  d1 = d1
  d2 = d2
  p1 = p1
  p2 = p2
  Nil = Nil
  Serials <- OneDevice
  Processors <- OneProcessor
  Sides <- DevSide
  TTL = 2
  MaxQueue = 2
  MaxRestarts = 1
  MaxHandlers = 2
PROPERTIES ReapOnlySilent TrackedLostIsReaped
