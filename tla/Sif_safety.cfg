SPECIFICATION FairSpec
CONSTANTS
  Directions = {"SIF0", "SIF1"}
  FifoSize = 4
  Chains <- SomeChains
INVARIANTS
  FramingKept
PROPERTIES
  PipeSpec
  DmaReturns
  Delivered
