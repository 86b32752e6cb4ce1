SPECIFICATION Spec
CONSTANTS
  Messages <- MCMessages
  BUFFER_INC_SIZE = 4
  MAX_INTERFACES = 2
  MAX_BUFFER_SIZE = 20
  Leftovers <- MCLeftovers
  Suffix <- MCSuffix
  NULL = NULL
  Unset = Unset
INVARIANTS
  TypeOK
  OverrunNeedsBigField
  RpcRoundTrip
  ShortReadStaysInside
  ListRoundTrip
  InfoRoundTrip
CHECK_DEADLOCK FALSE
