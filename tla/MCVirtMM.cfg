SPECIFICATION KernelSpec
CONSTANTS
  NPages = 6
  MaxRequest = 3
  TableSize = 2
  HeapTables = 2
  PageSize = 4096
  StalePages = {1, 50}
  Devices = {100}
  DevPages = 2
  MaxDevices = 2
INVARIANTS FramesOwned MappingsHold TlbFresh
\* Once physical page 0 serves as a page table the program is undefined.
CHECK_DEADLOCK FALSE
