SPECIFICATION Spec
CONSTANTS
  RingN = 64
  FrameLen = 42
  RingOffset = 0
  BufferOffsets = {0}
  Firmware <- LiveCards
  MaxSends = 3
INVARIANT WireInOrder
CHECK_DEADLOCK FALSE
