SPECIFICATION FairSpec
CONSTANTS
  N = 2
  Kind <- MCKind1
  Values = {0, 1}
  Levels = {0, 1}
  NULL = NULL
  SequenceMax = 2
  Requests <- TimedRequests
  Wrap = 8
  MaxNow = 4
  ClockSets = {}
PROPERTIES
  DoneIsReleased
  TimedChangeEnds
