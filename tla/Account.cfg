SPECIFICATION Spec
CONSTANTS
  Contents = {a, b}
  None = None
  Torn = Torn
  Checked = FALSE
  MaxFaults = 1
  MaxAttempts = 3
INVARIANT SavedMatchesSession
PROPERTIES ImplementsStoredValue RequestsAnswered
CHECK_DEADLOCK FALSE
