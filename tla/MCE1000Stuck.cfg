SPECIFICATION Spec
CONSTANTS
  RingN = 16
  FrameLen = 42
  RingOffset = 0
  BufferOffsets = {0}
  Firmware <- QuietCards
  MaxSends = 4
PROPERTY EverySent
CHECK_DEADLOCK FALSE
