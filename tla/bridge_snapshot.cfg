SPECIFICATION Spec
CONSTANTS
  h1 = h1
  h2 = h2
  none = none
  Free <- none
  H <- Workers1
  NodeIds <- Ids2
  Names <- Ids1
  Kinds <- Graph
  ConnIds <- NoIds
  ParamIds <- NoIds
  Values <- NoIds
  NodeStates <- NoIds
  NoId = 65535
  CmdCap = 2
  ResCap = 3
  PendingCap = 2
  DiskMayFail = FALSE
  MaxRequests = 4
  MaxLives = 1
INVARIANTS
  SnapshotSound
PROPERTIES
  KeptUntilFull
