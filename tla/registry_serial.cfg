SPECIFICATION Spec
CONSTANTS
  Pids = {p1, p2}
  GRADIENT = 2
  MaxRegistrations = 5
INVARIANTS
  TypeOK
  FreedNeverListed
  WithinCapacity
  ProcEntriesByPid
PROPERTIES
  RemoveTruncates
  NeverRelisted
CHECK_DEADLOCK FALSE
