SPECIFICATION FairSpec
CONSTANTS
  MaxMishaps = 1
  MaxAutos = 1
INVARIANTS
  TypeOK
  DoneIsDead
PROPERTY
  FinishedIsDone
CHECK_DEADLOCK FALSE
