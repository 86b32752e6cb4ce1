SPECIFICATION Spec
CONSTANTS
  Hosts = {a, b}
  Interfaces = {x, y}
  MAX_PEERS = 2
  MAX_INTERFACES = 1
  Lists = {m1, m2, m3}
  Readers = {r1}
  Faults = {"duplicate", "receive"}
  MaxInFlight = 2
  MaxChanges = 2
  NULL = NULL
  NoAddr = NoAddr
INVARIANTS
  TypeOK
  OnePeerPerAddress
  ListFromPeer
  ReadsAreOfThePeer
PROPERTIES
  IdKeepsAddress
  ImplementsPeerTable
SYMMETRY Symmetric
CHECK_DEADLOCK FALSE
