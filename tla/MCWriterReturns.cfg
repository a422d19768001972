SPECIFICATION FairSpec
CONSTANTS
  MaxUp = 0
  MaxDown = 2
  SndBuf = 1
  Stops = FALSE
PROPERTY WriterReturns
CHECK_DEADLOCK FALSE
