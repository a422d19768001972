SPECIFICATION Spec
CONSTANTS
  MaxUp = 2
  MaxDown = 2
  SndBuf = 1
  Stops = TRUE
INVARIANTS
  TypeOK
  
  FinAfterData
  NoSilentDiscard
  NoOrphanInTimeWait
PROPERTIES
  OrderedDelivery
  
CHECK_DEADLOCK FALSE
