CONSTANTS
  Clients = {c1, c2}
  Channels = {a}
  MaxPending = 1
  MaxCmds = 3
  MaxArgs = 1
  MemClients = {m1, m2}
  MemKeys = {k1, k2}
  Fields = {f, g}
  KeyBase = 2
  ElemBase = 1
  FieldBase = 1
  Lengths = {1, 3}
  MaxMemory = 7
  MaxList = 2
SPECIFICATION MCSpec
CHECK_DEADLOCK FALSE
INVARIANTS
  MemorySound
PROPERTIES
  LiveWithoutPeers
