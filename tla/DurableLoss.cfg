SPECIFICATION Spec
CONSTANTS
  CirBufSize = 2
  MaxPacketSize = 1
  CwndSize = 2
  MaxBytes = 2
  MaxStreams = 2
  StreamIds = {1, 2}
  NoStream = NoStream
  Rwnds = {0}
  ReadWindow = 2
  ReadSize = 2
  MaxCrashes = 0
  MaxTimeouts = 0
INVARIANT
  NothingMissing
CHECK_DEADLOCK FALSE
