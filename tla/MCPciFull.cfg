SPECIFICATION Spec
CONSTANTS
  NBuses = 2
  NSlots = 2
  NFuncs = 2
  MaxDevs = 3
  Crowd = 4
INVARIANT DevsFit
CHECK_DEADLOCK FALSE
