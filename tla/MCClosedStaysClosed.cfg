SPECIFICATION Spec
CONSTANTS
  MaxConns = 1
  MaxDsts = 1
  MaxPkts = 1
  QueueCap = 1
  StopAt = {0, 1}
PROPERTIES ClosedStaysClosed
CHECK_DEADLOCK FALSE
