SPECIFICATION Spec
CONSTANTS
  NULL = NULL
  Address = 64
  N = 2
  Kind <- MCKind
  Configured <- MCConfigured
  Requests <- MCRequests
  Steps = {1, 3}
  MaxNow = 4
INVARIANT AllShowTheirPhase
