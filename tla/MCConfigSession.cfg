SPECIFICATION Spec
CONSTANTS
  NULL = NULL
  Files <- MCFiles
  Addresses = {3}
  BuildTypes = {"value", "rgb", "pixels", "xbee", "mpr121"}
  MAX_PIN_NUM = 5
  HMTL_MAX_OUTPUTS = 6
  MaxSessions = 3
INVARIANTS WriteFindsItsOutputs WroteIsStored StoredIsValid RefusesForAReason
