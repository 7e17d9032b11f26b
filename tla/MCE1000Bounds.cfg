SPECIFICATION Spec
CONSTANTS
  RingN = 16
  FrameLen = 42
  RingOffset = 0
  BufferOffsets = {0}
  Firmware <- QuietCards
  MaxSends = 17
INVARIANT RingInBounds
CHECK_DEADLOCK FALSE
