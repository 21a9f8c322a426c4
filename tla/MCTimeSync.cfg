SPECIFICATION Spec
CONSTANTS
  m = m
  a = a
  b = b
  ANY = ANY
  Nodes = {m, a, b}
  Targets = {a, ANY}
  Starters = {m}
  Checkers = {b}
  Setters = {a}
  Offset <- MCOffset
  Wrap = 5
  MaxDelay = 1
  MaxNet = 2
INVARIANTS
  SetIsAwaited
  LatencyIsPossible
PROPERTY
  ClockIsClose
