SPECIFICATION Spec
CONSTANTS
  MaxUp = 1
  MaxDown = 2
  SndBuf = 1
  Stops = TRUE
INVARIANT StopClosesConnections
CHECK_DEADLOCK FALSE
