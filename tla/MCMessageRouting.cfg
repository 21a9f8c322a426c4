SPECIFICATION FairSpec
CONSTANTS
  Modules = {"gate", "relay", "far"}
  ANY = "any"
  AnyDevice = "0"
  Sensor = "sensor"
  Unused = {"new"}
  Media = {"bus", "radio"}
  On <- MCOn
  Narrow = {"radio"}
  Hosts = {"gate", "relay"}
  MaxSent = 2
INVARIANTS
  HandledOnce
  DeliveredWhenQuiet
  ResponsesGoBack
PROPERTY
  ForwardingEnds
CHECK_DEADLOCK FALSE
