\* One part of two blocks (flash), one session (monitor), dumps of two lines
\* (snap); channels of one place.  The image: two sections of each kind, a
\* page of 16 bytes.
CONSTANTS
  NParts = 1
  NBlocks = 2
  BlockAttempts = 2
  PartAttempts = 2
  MaxAnswers = 2
  Deadline = 1
  Sids = {m1}
  Flash = Flash
  Nobody = Nobody
  MaxTries = 2
  DataCap = 1
  CtlCap = 1
  DumpLines = 2
  MaxOut = 6
  LineCap = 1
  NFlash = 2
  NRam = 2
  Sizes = {3, 8}
  Gaps = {0, 1, 4, 7}
  FileGaps = {0, 6}
  Align = 2
  SegHeader = 4
  Header = 8
  Page = 16
  PageTail = 6
  FlashBase = 17
  RamBase = 100
SPECIFICATION Spec
INVARIANTS SerialTypeOK VerifiedIsImage SuccessIsImage LeaseIsSession WholeFrame SegmentsMap SectionsLoad
PROPERTIES FlashEnds SessionEnds SnapEnds
CHECK_DEADLOCK FALSE
