\* Two jobs compete for one worker and one-place channels, one may be cancelled
\* (queue); one image and two flashes (page).
\* No symmetry under liveness.
CONSTANTS
  Jobs = {j1, j2}
  Clients = {}
  Paths = {p1}
  Workers = {w1}
  Unwanted = {j1}
  ChanCap = 1
  NoOwner = NoOwner
  NoLock = NoLock
  MaxJobs = 1
  NImages = 1
  MaxSends = 1
  Resends = 1
  PageImages = {i1}
  NoImage = NoImage
  Binaries = {"app", "bootloader"}
  MaxAttempts = 2
SPECIFICATION MCFairSpec
PROPERTIES PendingIsDispatched SubmittedIsCollected FlashPageEnds
CHECK_DEADLOCK FALSE
