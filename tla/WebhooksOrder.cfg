CONSTANTS
  Handlers = {h1, h2}
  Issues = {i1}
  MaxEvents = 2
  MaxAttempts = 2
  Slots = 1
  MaxStops = 0
  MaxErrors = 0
SPECIFICATION Spec
CHECK_DEADLOCK FALSE
INVARIANTS
  EventOrder
