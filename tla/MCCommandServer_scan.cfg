SPECIFICATION Spec
CONSTANTS
  Addresses = {"attached", "remote"}
  Attached = "attached"
  ScanRange <- MCScanBoth
  Capacity = 2
  MaxFaults = 0
INVARIANT
  DevicesAreAtTheirAddress
CHECK_DEADLOCK FALSE
