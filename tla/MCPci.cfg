SPECIFICATION Spec
CONSTANTS
  NBuses = 2
  NSlots = 2
  NFuncs = 2
  MaxDevs = 4
  Crowd = 4
INVARIANTS FoundExactly OneCard
PROPERTY Ends
\* The kernel stops in its final loop.
CHECK_DEADLOCK FALSE
