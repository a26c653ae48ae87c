CONSTANTS
  Jobs = {j1}
  Clients = {}
  Paths = {p1}
  Workers = {w1}
  Unwanted = {j1}
  ChanCap = 1
  NoOwner = NoOwner
  NoLock = NoLock
SPECIFICATION Spec
PROPERTIES PeerOfflineReleases
CHECK_DEADLOCK FALSE
