SPECIFICATION Spec
CONSTANTS
  NPages = 6
  MaxRequest = 3
  Clients = {c1, c2, c3, c4}
SYMMETRY Symmetry
INVARIANT NeverWild
CHECK_DEADLOCK FALSE
