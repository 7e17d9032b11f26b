SPECIFICATION Spec
CONSTANTS
  PageUnits = 4
  Word = 1024
  Word64 = 1048576
  TableSize = 16
  KernelSlot = 4
  HighTable = 3
  VgaPage = 2
  FrameLimit = 128
  InfoBytes = 250
  KernelEnds <- MCKernelEnds
  EntryPool <- MCEntryPool
  BehindPool <- MCBehindPool
  MaxEntries = 3
INVARIANT InfoFits
CHECK_DEADLOCK FALSE
