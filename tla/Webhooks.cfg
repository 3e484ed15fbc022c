CONSTANTS
  Handlers = {h1, h2}
  Issues = {i1, i2}
  MaxEvents = 2
  MaxAttempts = 2
  Slots = 1
  MaxStops = 2
  MaxErrors = 2
SPECIFICATION FairSpec
CHECK_DEADLOCK FALSE
INVARIANTS
  DispatcherSound
  CausalOrder
  OvertakenOnlyIfLate
  RepeatedOnlyIfDoubtful
PROPERTIES
  Settles
