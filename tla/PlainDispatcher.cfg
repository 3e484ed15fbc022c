CONSTANTS
  Writers = {h1, h2}
  Topics = {i1, i2}
  MaxSeq = 2
  TopAttempts = 2
  ScanLimit = 1
  MaxHalts = 1
  MaxFailures = 1
SPECIFICATION PlainSpec
CHECK_DEADLOCK FALSE
INVARIANTS
  DispatchSound
PROPERTIES
  AllSettle
