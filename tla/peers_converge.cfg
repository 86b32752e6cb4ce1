SPECIFICATION FairSpec
CONSTANTS
  Hosts = {a, b}
  Interfaces = {x}
  MAX_PEERS = 2
  MAX_INTERFACES = 1
  Lists = {m1, m2, m3}
  Readers = {}
  Faults = {}
  MaxInFlight = 2
  MaxChanges = 2
  NULL = NULL
  NoAddr = NoAddr
PROPERTIES
  Converges
CHECK_DEADLOCK FALSE
