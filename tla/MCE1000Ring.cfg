SPECIFICATION Spec
CONSTANTS
  RingN = 64
  FrameLen = 42
  RingOffset = 1024
  BufferOffsets = {0}
  Firmware <- QuietCards
  MaxSends = 3
INVARIANT FetchedWhole
CHECK_DEADLOCK FALSE
