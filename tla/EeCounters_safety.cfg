SPECIFICATION Spec
CONSTANTS
  CountRange = 5
  Soon = 1
  WaitCycles = 2
  SyncInfo <- SomeSyncInfo
  HsyncRate = 3
  Rates = {1, 2, 3}
  Modes <- SomeModes
  Counts = {0, 2}
  Delays = {2}
  MaxBlock = 3
  MaxCount = 5
INVARIANTS
  NothingPassedOver
  ReadsTrue
