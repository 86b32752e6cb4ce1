SPECIFICATION Spec
CONSTANTS
  c1 = c1
  c2 = c2
  l1 = l1
  l2 = l2
  i1 = i1
  i2 = i2
  d1 = d1
  NULL = NULL
  Garbage = Garbage
  Calls = {c1, c2, l1, l2}
  LocalCalls = {l1, l2}
  Interfaces = {i1, i2}
  Wants <- MCWants
  Daemons = {d1}
  ServedBy <- MCServedBy
  Void = {i2}
  Refused = {}
  Failing = {c2}
  Broken = {c2}
  QueueCap = 1
  Faults = {"accept", "early", "daemon"}
INVARIANTS
  TypeOK
  AtMostOnce
  AnswerNotShared
  FrameIntact
  OwnResultUndisturbed
  Isolation
  ConnectedCallSurvives
  AnswerNotLost
PROPERTIES
  ImplementsRemoteCall
CHECK_DEADLOCK FALSE
