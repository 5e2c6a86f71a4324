SPECIFICATION FairSpec
CONSTANTS
  INTC = {vblank}
  DMAC = {sif0}
  BEIS = BEIS
  Statuses <- SomeStatuses
INVARIANTS
  NoMissingInterrupt
  InterruptsNeverNest
  MarkedIsSoon
PROPERTIES
  IntcServed
  DmacServed
