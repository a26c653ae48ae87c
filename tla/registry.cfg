\* Two goroutines and two owners on one board (registry); one board, one port,
\* a generated id and an alias, three requests (catalog).
SPECIFICATION MCSpec
CONSTANTS
  Paths = {p1}
  Owners = {o1, o2}
  Threads = {t1, t2}
  Locks = {l1, l2}
  NoOwner = NoOwner
  NoLock = NoLock
  NBoards = 1
  NNames = 1
  Ports = {p1}
  NoPort = NoPort
  a1 = a1
  Aliases = {a1}
  Mappings <- MCMappings
  MaxRequests = 3
SYMMETRY Symmetry
INVARIANTS LeaderTypeOK LeaseBacked IndexSound
PROPERTIES LeaseSpec
CHECK_DEADLOCK FALSE
