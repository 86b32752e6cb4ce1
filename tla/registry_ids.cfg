SPECIFICATION Spec
CONSTANTS
  Pids = {p1, p2}
  GRADIENT = 2
  MaxRegistrations = 2
  MaxCount = 4
  Scanners = {s1}
  Blocks = {m1, m2, m3}
  Overlaps = {"callers"}
  NULL = NULL
INVARIANTS
  IdLeadsToInterface
CHECK_DEADLOCK FALSE
