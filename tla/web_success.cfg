\* Two flashes of one image: the job of the first is still on the leader when the
\* second is polled.
CONSTANTS
  PageImages = {i1}
  NoImage = NoImage
  Binaries = {"app"}
  MaxAttempts = 2
SPECIFICATION WebSpec
PROPERTIES SuccessIsTrue
CHECK_DEADLOCK FALSE
