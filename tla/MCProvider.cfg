\* Three devices and ports for two: their entries and ports, with every failure but
\* workers that hang.
SPECIFICATION Spec
CONSTANTS
  d1 = d1
  d2 = d2
  d3 = d3
  NoProcess = NoProcess
  ResourceCount = 2
  Devices <- ThreeDevices
  AllPorts <- FourPorts
  Failures <- NoHang
  MaxEvents = 6
SYMMETRY DeviceSymmetry
INVARIANTS PortsPartition PortsInFixedGroups EntryIsTracked
\* The bound on events, and a farm without devices, leave nothing to do.
CHECK_DEADLOCK FALSE
