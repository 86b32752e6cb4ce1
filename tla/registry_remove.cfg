SPECIFICATION Spec
CONSTANTS
  Pids = {p1}
  GRADIENT = 2
  MaxRegistrations = 3
PROPERTIES
  RemoveKeepsOthers
CHECK_DEADLOCK FALSE
