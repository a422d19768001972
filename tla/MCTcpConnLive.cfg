SPECIFICATION FairSpec
CONSTANTS
  MaxUp = 1
  MaxDown = 2
  SndBuf = 1
  Stops = FALSE
PROPERTIES
  LwipThreadUnblocks
  ClosedIsReleased
  RefusedIsRetried
  WriterIsWoken
CHECK_DEADLOCK FALSE
