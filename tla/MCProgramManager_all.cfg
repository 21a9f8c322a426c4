SPECIFICATION Spec
CONSTANTS
  N = 3
  Kind <- MCKind
  Values = {0, 1}
  Levels = {0}
  NULL = NULL
  SequenceMax = 2
  Requests <- SharedRequests
  Wrap = 3
  MaxNow = 3
  ClockSets = {}
PROPERTY
  AllOutputsSparesOthers
