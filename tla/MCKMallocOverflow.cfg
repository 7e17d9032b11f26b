SPECIFICATION Spec
CONSTANTS
  HeapStart = 4096
  MinHeap = 0
  Word = 65536
  Lengths = {200, 33000}
  SelfTest = 3000
  Counts = {2}
  MaxHeap = 8192
  MaxLive = 3
  MaxLost = 40
CONSTRAINT FewLost
INVARIANT LiveFits
