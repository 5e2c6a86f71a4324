\* Two devices, the SPU2's poll, the block's end and Idle in one list; no symmetry,
\* since liveness is checked.
SPECIFICATION FairSpec
CONSTANTS
  Idle = Idle
  BreakForEE = BreakForEE
  SPU2 = SPU2
  Other = {d1, d2}
  Nothing = Nothing
  IdleDelta = 8
  SpuFirst = 3
  SpuDelta = 6
  Deltas <- SomeDeltas
  BlockDeltas <- SomeBlocks
  MaxStep = 2
INVARIANTS
  TypeOK
  ListLinked
  ListSorted
  BlockHasOneEnd
  DispatchedInTime
PROPERTIES
  AlarmSpec
  BlockReturns
  SpuPolled
