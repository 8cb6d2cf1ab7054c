SPECIFICATION Spec
CONSTANTS
  CirBufSize = 2
  MaxPacketSize = 1
  CwndSize = 2
  MaxBytes = 3
  MaxStreams = 2
  StreamIds = {1, 2}
  NoStream = NoStream
  Rwnds = {0}
  ReadWindow = 2
  ReadSize = 2
  MaxCrashes = 1
  MaxTimeouts = 1
INVARIANTS
  TypeOK
  FileIsOutput
CHECK_DEADLOCK FALSE
