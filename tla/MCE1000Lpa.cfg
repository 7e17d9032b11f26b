SPECIFICATION Spec
CONSTANTS
  RingN = 64
  FrameLen = 42
  RingOffset = 0
  BufferOffsets = {0, 1024}
  Firmware <- QuietCards
  MaxSends = 3
INVARIANT BufferPhysical
CHECK_DEADLOCK FALSE
