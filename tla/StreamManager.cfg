SPECIFICATION SMSpec
CONSTANTS
  CirBufSize = 2
  MaxPacketSize = 2
  CwndSize = 2
  MaxBytes = 3
  StreamIds = {s1, s2}
  NoStream = NoStream
  Rwnds = {0, 1, 3}
INVARIANTS
  SMTypeOK
  NothingStranded
  UnackedHeld
  PacketsTile
  EndAfterAllAcked
PROPERTY
  OnlySentBytesLeave
CHECK_DEADLOCK FALSE
