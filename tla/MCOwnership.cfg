\* One processor, a request, two joins or leaves of a page or of the idle timer, a
\* crash and a timeout that comes too early.
SPECIFICATION FairSpec
CONSTANTS
  Users = {u1, u2}
  NoUser = NoUser
  NoReply = NoReply
  Calls = {k1}
  Processors = {p1}
  MaxGroupings = 2
  MaxCrashes = 1
  MaxLate = 1
CHECK_DEADLOCK FALSE
INVARIANTS OwnerRecorded ListenersHaveTimers IdleMaySleep
PROPERTIES UseIsAnswered
