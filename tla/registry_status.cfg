SPECIFICATION Spec
CONSTANTS
  Paths = {p1}
  Owners = {o1, o2}
  Threads = {t1, t2}
  Locks = {l1, l2}
  NoOwner = NoOwner
  NoLock = NoLock
INVARIANTS ReservedShowsBusy
CHECK_DEADLOCK FALSE
