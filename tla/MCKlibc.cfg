SPECIFICATION KlibcSpec
CONSTANTS
  HeapStart = 4096
  MinHeap = 0
  Word = 65536
  SelfTest = 3000
  Lengths = {8, 448, 3568}
  Counts = {}
  MaxHeap = 32768
  MaxLive = 2
  BufferLen = 200
  ScreenLen = 3840
  Halves = {0, 1, 9, 10, 15, 16, 99, 100, 255}
  HalfWord = 256
  MaxLost = 40
  Explored = 12288
CONSTRAINT FewLost
INVARIANTS
  CallersSafe
  OverrunInHeap
  PrintAgain
  TextRight
