SPECIFICATION Spec
CONSTANTS
  h1 = h1
  h2 = h2
  ticker = ticker
  main = main
  none = none
  Ticker <- ticker
  Main <- main
  Free <- none
  Workers <- Workers1
  Counts <- TwoCounts
  EventKinds <- ValuesOnly
  Sinks <- NoSinks
  EventCap = 2
  ValueCap = 3
  Budget = 2
  RecentCap = 2
  MayStop = FALSE
  MaxEvents = 3
  MaxDrains = 2
  MaxCsv = 0
  MaxFaults = 0
INVARIANTS
  ValuesAppended
