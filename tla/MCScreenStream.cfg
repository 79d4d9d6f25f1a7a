\* Two clients; the producer fails, is reconfigured and restarted while it starts.
SPECIFICATION FairSpec
CONSTANTS
  Clients = {c1, c2}

  Grabbers = {TRUE, FALSE}
  FailLimit = 2
  MaxChanges = 2
  MaxFaults = 3
CHECK_DEADLOCK FALSE
INVARIANTS RestsAtWish WatchersTold FramesArePulled
 
