SPECIFICATION Spec
CONSTANTS
  h1 = h1
  h2 = h2
  Producers <- TwoProducers
  Cap = 2
  MaxCommands = 3
INVARIANT
  AcceptedDelivered
