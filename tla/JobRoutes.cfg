SPECIFICATION FairRoutesSpec
CONSTANTS
  Conns = {c1, c2}
  NoConn = NoConn
INVARIANTS
  RoutesTypeOK
  Settled
  OneClient
PROPERTY
  CallsReturn
CHECK_DEADLOCK FALSE
