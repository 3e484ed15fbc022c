CONSTANTS
  Keys <- SixKeys
  Hash <- SixHash
  Costs = {1}
  MinSlots = 8
  ShrinkAbove = 64
  SweepBase = 1
  BatchSize = 2
  MaxTime = 1
  MaxLag = 0
  MaxExp = 1
SPECIFICATION ChurnSpec
PROPERTIES
  AlwaysReclaimed
