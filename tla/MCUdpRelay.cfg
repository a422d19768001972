SPECIFICATION Spec
CONSTANTS
  MaxConns = 2
  MaxDsts = 2
  MaxPkts = 3
  QueueCap = 1
  StopAt = {0}
INVARIANTS TypeOK RelayLeadsToTarget NoneLeftBehind DroppedOnlyWhenFull
CHECK_DEADLOCK FALSE
