SPECIFICATION Spec
CONSTANTS
  Pids = {p1}
  GRADIENT = 1
  MaxRegistrations = 3
  MaxCount = 7
  Scanners = {s1}
  Blocks = {m1, m2}
  Overlaps = {}
  NULL = NULL
INVARIANTS
  TypeOK
  StrayNeedsOverlap
  SteadyIsFound
  IdLeadsToInterface
PROPERTIES
  ImplementsRegistry
CHECK_DEADLOCK FALSE
