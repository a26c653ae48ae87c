\* One board, two users of it.
CONSTANTS
  Managed = {b1}
  Users = {u1, u2}
  NoUser = NoUser
SPECIFICATION SleepSpec
INVARIANTS RunningIsBusy
CHECK_DEADLOCK FALSE
