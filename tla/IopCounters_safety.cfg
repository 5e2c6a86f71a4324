SPECIFICATION FairSpec
CONSTANTS
  Kinds <- AllKinds
  FixedUnit = 2
  MaxDelta = 3
  Counts <- SomeCounts
  Modes <- SomeModes
  PollPeriod = 3
  MaxStep = 2
INVARIANTS
  TypeOK
  TargetEventsExpected
  CountingIsScheduled
  EventOnTime
  SkewBounded
PROPERTIES
  NarrowCounterWraps
