CONSTANTS
  Clients = {c1, c2}
  Channels = {a, b}
  MaxPending = 1
  MaxCmds = 3
  MaxArgs = 2
SPECIFICATION Spec
SYMMETRY Symmetry
CHECK_DEADLOCK FALSE
INVARIANTS
  RegistrySound
  PublishOrder
  AcksRight
