SPECIFICATION FairSpec
CONSTANTS
  Kinds <- WideKind
  FixedUnit = 2
  MaxDelta = 3
  Counts <- SomeCounts
  Modes <- SomeModes
  PollPeriod = 3
  MaxStep = 2
PROPERTIES
  CounterWraps
