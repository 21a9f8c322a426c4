SPECIFICATION Spec
CONSTANTS
  N = 3
  Kind <- MCKind
  Values = {0, 1}
  Levels = {0}
  NULL = NULL
  SequenceMax = 2
  Requests <- AllRequests
  Wrap = 3
  MaxNow = 3
  ClockSets = {0, 1, 2}
INVARIANTS
  TypeOK
  HeapMatchesTrackers
  ProgramFitsOutput
  TimedChangeShowsItsValue
  SequenceLightsOneStep
  PinsCurrent
PROPERTY
  ImplementsSlots
