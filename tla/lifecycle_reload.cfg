SPECIFICATION ReloadSpec
CONSTANTS
  Connections = {k1}
  Tasks = {p1}
  Faults = {}
  NULL = NULL
PROPERTIES
  ReloadSucceeds
CHECK_DEADLOCK FALSE
