SPECIFICATION FairSpec
CONSTANTS
  Sessions = {s1, s2}
  MaxSeqNum = 3
  MaxPlain = 1
  MaxItems = 4
  BufSize = 3
  NoSession = NoSession
INVARIANTS
  TypeOK
  InputInOrder
  TimerInTime
PROPERTY
  BufferedIsDelivered
CHECK_DEADLOCK FALSE
