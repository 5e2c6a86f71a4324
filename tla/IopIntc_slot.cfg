SPECIFICATION FairSpec
CONSTANTS
  Irqs = {dma}
  Last = 2
  Vector = 1
  Masks <- SomeMasks
  Written <- SomeStatuses
  MaxStep = 1
  MaxLate = 1
  MaxDepth = 2
PROPERTIES
  TrapRestarts
