CONSTANTS
  Keys <- TwoKeys
  Hash <- TwoHash
  Costs = {1}
  MinSlots = 4
  ShrinkAbove = 4
  SweepBase = 1
  BatchSize = 2
  MaxTime = 1
  MaxLag = 1
  MaxExp = 1
SPECIFICATION Spec
INVARIANTS
  ExpiredNeverVisible
