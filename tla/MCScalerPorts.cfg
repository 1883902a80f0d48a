CONSTANTS
  MinInstances = 1
  MaxInstances = 3
  OutStep = 2
  InStep = 1
  MaxPort = 3
  MaxStarts = 4
  MaxCrashes = 1
SPECIFICATION Spec
INVARIANT PortsDistinct
CHECK_DEADLOCK FALSE
