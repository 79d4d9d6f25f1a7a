\* Two devices whose workers exit and hang: entries are served in the end, ports are kept.
SPECIFICATION Spec
CONSTANTS
  d1 = d1
  d2 = d2
  d3 = d3
  NoProcess = NoProcess
  ResourceCount = 2
  Devices <- TwoDevices
  AllPorts <- FourPorts
  Failures <- NoSignal
  MaxEvents = 7
INVARIANT CrashedWorkerRestarts
PROPERTIES EntryIsServed
\* The bound on events, and a farm without devices, leave nothing to do.
CHECK_DEADLOCK FALSE
