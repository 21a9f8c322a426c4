SPECIFICATION FairSpec
CONSTANTS
  m = m
  a = a
  b = b
  ANY = ANY
  Nodes = {m, a}
  Targets = {a}
  Starters = {m}
  Checkers = {}
  Setters = {}
  Offset <- MCOffset1
  Wrap = 5
  MaxDelay = 1
  MaxNet = 2
PROPERTY
  HotWaitEnds
