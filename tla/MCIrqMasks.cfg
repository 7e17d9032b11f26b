SPECIFICATION Spec
CONSTANTS
  Lines <- MCLines
  FaultVectors <- MCFaultVectors
  BiosMasks <- MCBiosMasks
  IsrAddr <- MCIsrAddr
  MaxDepth = 3
CHECK_DEADLOCK FALSE
INVARIANT AllMasked
