CONSTANTS
  Jobs = {j1}
  Clients = {c1}
  Paths = {p1,p2}
  Workers = {w1}
  Unwanted = {j1}
  ChanCap = 1
  NoOwner = NoOwner
  NoLock = NoLock
SPECIFICATION Spec
INVARIANTS ExclusivePort
CHECK_DEADLOCK FALSE
