SPECIFICATION Spec
SYMMETRY Symmetry
CONSTANTS
  UUID16_POOL_SIZE = 40
  CHRC_POOL_SIZE = 20
  CCC_POOL_SIZE = 10
  ATTR_MAX = 30
  MAX_CONN = 2
  BLOCKS = 2
  MAX_CLIENT_COUNT = 2
  Conns = {c1, c2}
  Peers = {"p1", "p2"}
  Bonded = {"p1"}
  HIDS_QUEUE_SIZE = 2
  MaxLeaks = 1
INVARIANTS
  ClientsAgree
  NoStuckKeys
  MovesGoOn
  MutexReturned
  ServiceSound
