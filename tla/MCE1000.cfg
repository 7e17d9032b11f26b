SPECIFICATION Spec
CONSTANTS
  RingN = 64
  FrameLen = 42
  RingOffset = 1008
  BufferOffsets = {0, 1023}
  Firmware <- QuietCards
  MaxSends = 7
INVARIANTS WireInOrder FetchedWhole
PROPERTIES NoWriteUnderDma EverySent Loads
\* The kernel stops after its last packet.
CHECK_DEADLOCK FALSE
