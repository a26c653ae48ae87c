\* A goroutine and two owners on one board (registry), one board and two executions
\* (peer), one board and one user (sleep), two boards that share a port and a channel
\* of two events (watcher), two simulations and two jobs (Wokwi), one job and two
\* clients (progress); channels of one place.
CONSTANTS
  Boards = {b1}
  PeerJobs = {j1, j2}
  Execs = {e1, e2}
  NoJob = NoJob
  NoExec = NoExec
  Managed = {b1}
  Users = {u1}
  NoUser = NoUser
  Serials = {s1, s2}
  Ports = {p1}
  NoPort = NoPort
  EventCap = 2
  MaxLate = 1
  Sims = {w1, w2}
  WokJobs = {f1, f2}
  Viewers = {v1}
  NoSim = NoSim
  OutCap = 1
  Tracked = {k1}
  NoTrack = NoTrack
  Watchers = {c1, c2}
  HubCap = 1
  SendCap = 1
  ReportCap = 1
  Paths = {p1}
  Owners = {o1, o2}
  Threads = {t1}
  Locks = {l1, l2}
  NoOwner = NoOwner
  NoLock = NoLock
SPECIFICATION Spec
INVARIANTS NodeTypeOK OneJobPerBoard BusyIffAssigned TrackedIsExecuting RecordsFollow OneSimulation OrderKept
PROPERTIES
  FairLeaseExpires FairExecutionEnds FairIdleBoardSleeps FairGhostsVanish FairDiscoveryEnds
  FairSimulationEnds FairWatchedJobEnds
CHECK_DEADLOCK FALSE
