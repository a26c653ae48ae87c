\* One board, one job, one execution.
CONSTANTS
  Boards = {b1}
  PeerJobs = {j1}
  Execs = {e1}
  NoJob = NoJob
  NoExec = NoExec
SPECIFICATION PeerFairSpec
PROPERTIES HeartbeatReturns
CHECK_DEADLOCK FALSE
