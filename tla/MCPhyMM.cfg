SPECIFICATION Spec
CONSTANTS
  NPages = 6
  MaxRequest = 3
  Clients = {c1, c2, c3, c4}
SYMMETRY Symmetry
INVARIANTS TypeOK Exclusive InUseExact StackInOrder LoopsAgree
\* Once an address from outside the stack is used the program is undefined.
CHECK_DEADLOCK FALSE
