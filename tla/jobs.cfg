\* Two jobs and a client on one board, two workers, one-place channels (queue); two
\* jobs of two images (command); two images and two flashes (page).
CONSTANTS
  Jobs = {j1, j2}
  Clients = {c1}
  Paths = {p1}
  Workers = {w1, w2}
  Unwanted = {j1, j2}
  ChanCap = 1
  NoOwner = NoOwner
  NoLock = NoLock
  MaxJobs = 2
  NImages = 2
  MaxSends = 2
  Resends = 1
  PageImages = {i1, i2}
  NoImage = NoImage
  Binaries = {"app", "bootloader"}
  MaxAttempts = 2
SPECIFICATION MCSpec
SYMMETRY Symmetry
INVARIANTS JobsTypeOK SingleFlight ActiveJobsTracked PortBacked SuccessIsCompletion NothingStillFlashes OneFlash
CHECK_DEADLOCK FALSE
