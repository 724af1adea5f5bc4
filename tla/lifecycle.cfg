SPECIFICATION FairSpec
CONSTANTS
  h1 = h1
  h2 = h2
  command = command
  result = result
  telemetryQueue = telemetryQueue
  values = values
  Workers <- Workers2
  Queues <- AllQueues
  Valid <- Either
  Calls <- AllCalls
  MaxCalls = 6
INVARIANTS
  QueuesMappedInUse
  ExitsClean
  TerminatesAfterFailedListen
PROPERTIES
  StopReturns
  TelemetryFollowsServer
