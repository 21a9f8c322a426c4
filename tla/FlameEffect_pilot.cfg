SPECIFICATION Spec
CONSTANTS
  IGNITE_PERIOD = 2
  PILOT_DELAY_PERIOD = 1
  POOF_MAX = 1
  SwitchPeriod = 1
  HasPilot = TRUE
  Periods = {3}
  Wrap = 16
  MaxNow = 6
  MaxNet = 0
INVARIANT
  ReadyMeansPilot
