SPECIFICATION FairSpec
CONSTANTS
  Streams = {s}
  Requests = {r}
  Commands = {c1}
  MaxResponses = 1
  RespChSize = 1
  OutputChSize = 1
  InputChSize = 1
  CtxDoneChSize = 1
  NoId = NoId
  NoCall = NoCall
INVARIANTS
  TypeOK
  StreamWithoutHoles
  OnlyCancelEndsServer
PROPERTIES
  EndsByItsOwnTime
  RequestsReturn
CHECK_DEADLOCK FALSE
