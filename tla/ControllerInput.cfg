SPECIFICATION PadSpec
CONSTANTS
  Inputs = {"button", "exit"}
  Combo = {"exit"}
  Sticks <- MCSticks
  MaxAxis = 8
  Deadzone = 2
  Threshold = 1
  Hold = 2
  MaxPlugs = 2
  MaxChanges = 3
INVARIANT ServerAgrees
PROPERTY ComboEndsStream
CHECK_DEADLOCK FALSE
