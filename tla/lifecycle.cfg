SPECIFICATION Spec
CONSTANTS
  Connections = {k1, k2}
  Tasks = {p1, p2}
  Faults = {"init", "create"}
  NULL = NULL
INVARIANTS
  TypeOK
  
  
PROPERTIES
  RmmodHangs
  LoadsOnce
CHECK_DEADLOCK FALSE
