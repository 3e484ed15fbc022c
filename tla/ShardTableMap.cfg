CONSTANTS
  Keys <- TwoKeys
  Hash <- TwoHash
  Costs = {1, 2}
  MinSlots = 2
  ShrinkAbove = 2
  SweepBase = 1
  BatchSize = 2
  MaxTime = 1
  MaxLag = 1
  MaxExp = 1
SPECIFICATION FairSpec
INVARIANTS
  TableSound
PROPERTIES
  ImplementsMap
  SweepReclaims
