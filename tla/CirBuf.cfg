SPECIFICATION Spec
CONSTANTS
  CirBufSize = 3
  MaxPacketSize = 2
  MaxBytes = 8
  Nothing = Nothing
INVARIANTS
  TypeOK
  PeekedBytesMatchLabel
PROPERTY
  ImplementsOutputBuffer
CHECK_DEADLOCK FALSE
