SPECIFICATION FairSpec
CONSTANTS
  CirBufSize = 2
  MaxPacketSize = 1
  CwndSize = 2
  MaxBytes = 2
  MaxStreams = 2
  StreamIds = {1, 2}
  NoStream = NoStream
  Rwnds = {0}
  ReadWindow = 1
  ReadSize = 2
  MaxCrashes = 0
  MaxTimeouts = 0
INVARIANT
  HeadBehindReader
PROPERTIES
  OutputArrives
  EndReportedUnlessGap
CHECK_DEADLOCK FALSE
