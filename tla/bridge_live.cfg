SPECIFICATION FairSpec
CONSTANTS
  h1 = h1
  h2 = h2
  none = none
  Free <- none
  H <- Workers2
  NodeIds <- Ids1
  Names <- Ids1
  Kinds <- Edits
  ConnIds <- Ids1
  ParamIds <- Ids1
  Values <- Ids1
  NodeStates <- State2
  NoId = 65535
  CmdCap = 1
  ResCap = 2
  PendingCap = 4
  DiskMayFail = TRUE
  MaxRequests = 2
  MaxLives = 1
INVARIANTS
  StatesMatchNodes
PROPERTIES
  EveryRequestReplied
