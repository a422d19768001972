SPECIFICATION Spec
CONSTANTS
  MaxUp = 1
  MaxDown = 2
  SndBuf = 1
  Stops = TRUE
INVARIANT PcbNotUsedAfterFree
CHECK_DEADLOCK FALSE
