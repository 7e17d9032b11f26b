SPECIFICATION Spec
CONSTANTS
  NPages = 4
  MaxRequest = 3
  TableSize = 3
  HeapTables = 1
  PageSize = 4096
  StalePages = {1}
  Devices = {100}
  DevPages = 1
  MaxDevices = 1
INVARIANT MappingsHold
PROPERTY KeepsProtocol
CHECK_DEADLOCK FALSE
