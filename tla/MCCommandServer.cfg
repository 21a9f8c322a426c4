SPECIFICATION FairSpec
CONSTANTS
  Addresses = {"attached", "remote"}
  Attached = "attached"
  ScanRange <- MCScanRange
  Capacity = 2
  MaxFaults = 1
INVARIANTS
  AckIsOwn
  ResponseIsFresh
  OneReplyOfItsKind
PROPERTY
  EveryRequestAnswered
CHECK_DEADLOCK FALSE
