SPECIFICATION FairSpec
CONSTANTS
  Files = {f, c}
  Circular = {c}
  Made = {f}
  Callers = {c1}
  Flusher = flusher
  PartSize = 2
  MaxSize = 4
  Lengths = {1, 3}
  Offsets = {1}
  MaxBytes = 6
  MaxOps = 3
  NoFile = NoFile
  NoPart = NoPart
INVARIANTS
  TypeOK
  CachedWhileNeeded
PROPERTIES
  ReadsAndRestarts
  DirtyIsFlushed
CHECK_DEADLOCK FALSE
