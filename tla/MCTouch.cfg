\* Two gestures whose numbers begin again, messages that overtake one another, and a
\* consumer whose streams end.
SPECIFICATION Spec
CONSTANTS
  Size = 5
  MaxWaiting = 4
  FailLimit = 1
  MaxFaults = 2
  Kinds <- TwoGestures
  Window = 3
  MaxLost = 1
CHECK_DEADLOCK FALSE
INVARIANTS RunInOrder GestureLeavesNothing DeviceInOrder RestsStarted
 
