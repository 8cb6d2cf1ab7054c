SPECIFICATION FairSpec
CONSTANTS
  MaxDials = 2
  Callers = {k1, k2}
  Nobody = Nobody
INVARIANTS
  TypeOK
  RestIsClean
PROPERTY
  DeadNoticed
