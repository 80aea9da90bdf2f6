SPECIFICATION Spec
CONSTANTS
  Contents = {a, b}
  None = None
  Torn = Torn
  Checked = FALSE
  MaxFaults = 0
  MaxAttempts = 2
INVARIANT SearchIsYours
CHECK_DEADLOCK FALSE
