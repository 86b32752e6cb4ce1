SPECIFICATION Spec
CONSTANTS
  c1 = c1
  c2 = c2
  l1 = l1
  l2 = l2
  i1 = i1
  i2 = i2
  d1 = d1
  NULL = NULL
  Garbage = Garbage
  Calls = {c1, c2}
  LocalCalls = {}
  Interfaces = {i1}
  Wants <- MCWants
  Daemons = {d1}
  ServedBy <- MCServedBy
  Void = {}
  Refused = {}
  Failing = {}
  Broken = {}
  QueueCap = 2
  Faults = {}
INVARIANTS
  OwnResult
CHECK_DEADLOCK FALSE
