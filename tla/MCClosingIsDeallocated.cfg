SPECIFICATION FairSpec
CONSTANTS
  MaxUp = 1
  MaxDown = 0
  SndBuf = 1
  Stops = FALSE
PROPERTY ClosingIsDeallocated
CHECK_DEADLOCK FALSE
