SPECIFICATION FairSpec
CONSTANTS
  Links = {a, b}
  Routes = {r}
  Requests = {q}
  NoLink = NoLink
  NoRoute = NoRoute
  ClientChSize = 1
  InputChSize = 1
  MaxResponses = 2
INVARIANTS
  TypeOK
  ResponsesInOrder
PROPERTY
  BacklogDrains
CHECK_DEADLOCK FALSE
