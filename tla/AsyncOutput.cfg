CONSTANTS
  MaxPending = 2
  MaxItems = 4
SPECIFICATION FairSpec
CHECK_DEADLOCK FALSE
INVARIANTS
  NoLostWakeup
  NoPanic
  BuffersIntact
PROPERTIES
  ImplementsStream
  EndsWithoutPeer
  EventuallyReceived
