SPECIFICATION Spec
CONSTANTS
  RingN = 16
  FrameLen = 42
  RingOffset = 0
  BufferOffsets = {0}
  Firmware <- QuietCards
  MaxSends = 1
INVARIANT LengthIsBuffer
CHECK_DEADLOCK FALSE
