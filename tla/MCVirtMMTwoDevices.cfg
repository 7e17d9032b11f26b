SPECIFICATION Spec
CONSTANTS
  NPages = 8
  MaxRequest = 2
  TableSize = 2
  HeapTables = 2
  PageSize = 4096
  StalePages = {}
  Devices = {100}
  DevPages = 1
  MaxDevices = 2
INVARIANT DevicesMapped
CHECK_DEADLOCK FALSE
