SPECIFICATION Spec
CONSTANTS
  h1 = h1
  h2 = h2
  none = none
  Free <- none
  H <- Workers2
  NodeIds <- Ids1
  Names <- Ids1
  Kinds <- Reports
  ConnIds <- NoIds
  ParamIds <- NoIds
  Values <- NoIds
  NodeStates <- NoIds
  NoId = 65535
  CmdCap = 2
  ResCap = 3
  PendingCap = 4
  DiskMayFail = FALSE
  MaxRequests = 3
  MaxLives = 1
INVARIANTS
  TypeOK
  AwaitedKept
  StatesMatchNodes
  LocksHeldBySteps
PROPERTIES
  ImplementsService
SYMMETRY Symmetry
