SPECIFICATION Spec
CONSTANTS
  h1 = h1
  h2 = h2
  ticker = ticker
  main = main
  none = none
  Ticker <- ticker
  Main <- main
  Free <- none
  Workers <- Workers1
  Counts <- OneSample
  EventKinds <- CsvEvents
  Sinks <- BothSink
  EventCap = 1
  ValueCap = 3
  Budget = 2
  RecentCap = 1
  MayStop = TRUE
  MaxEvents = 4
  MaxDrains = 1
  MaxCsv = 2
  MaxFaults = 1
INVARIANTS
  ValuesConserved
  OneRowPerCycle
