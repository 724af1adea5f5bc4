SPECIFICATION FairSpec
CONSTANTS
  h1 = h1
  h2 = h2
  ticker = ticker
  main = main
  none = none
  Ticker <- ticker
  Main <- main
  Free <- none
  Workers <- Workers1
  Counts <- OneSample
  EventKinds <- AllEvents
  Sinks <- BothSink
  EventCap = 1
  ValueCap = 3
  Budget = 2
  RecentCap = 1
  MayStop = TRUE
  MaxEvents = 2
  MaxDrains = 1
  MaxCsv = 2
  MaxFaults = 1
PROPERTIES
  EventuallyCounted
  StopReturns
