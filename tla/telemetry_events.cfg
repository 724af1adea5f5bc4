SPECIFICATION Spec
CONSTANTS
  h1 = h1
  h2 = h2
  ticker = ticker
  main = main
  none = none
  Ticker <- ticker
  Main <- main
  Free <- none
  Workers <- Workers1
  Counts <- SomeCounts
  EventKinds <- CsvEvents
  Sinks <- NoSinks
  EventCap = 2
  ValueCap = 5
  Budget = 2
  RecentCap = 2
  MayStop = TRUE
  MaxEvents = 4
  MaxDrains = 2
  MaxCsv = 0
  MaxFaults = 1
INVARIANTS
  TypeOK
  QueuedReadable
  RecentInOrder
  FileInOrder
  OnlyFirstLost
  AllReleased
PROPERTIES
  MeasurementNewest
