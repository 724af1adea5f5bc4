SPECIFICATION Spec
CONSTANTS
  ByteMax = 1
  WordMax = 3
  LongMax = 15
  PriorityMax = 2
  NameMax = 4
  StringMax = 3
  PortCap = 1
  ParamCap = 1
  StateCap = 2
  Doubles <- DoublesUsed
  Floats <- FloatsUsed
  QueueCap = 1
  Values <- ValuesUsed
  Usual <- UsualNumber
  Names <- TextsUsed
  CsvRequests <- CsvRequestsUsed
  Samples <- SamplesUsed
  MaxCycle = 2
INVARIANTS
  RequestTypeOK
  SentAsAsked
  NoReservedIds
  ResultReadsBack
  CsvReadsBack
  CellsUnderTheirNames
PROPERTIES
  FullMeansFull
