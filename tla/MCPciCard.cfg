SPECIFICATION Spec
CONSTANTS
  NBuses = 2
  NSlots = 2
  NFuncs = 2
  MaxDevs = 4
  Crowd = 4
INVARIANT CardUsable
CHECK_DEADLOCK FALSE
