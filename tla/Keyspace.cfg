CONSTANTS
  Clients = {c1, c2}
  NShards = 2
  Keys <- MCKeys
  ShardOf <- MCShardOf
  Commands <- AllCommands
  NoValue = NoValue
  j = j
  k = k
  l = l
  v = v
  w = w
SPECIFICATION FairSpec
INVARIANTS
  LocksSound
PROPERTIES
  ImplementsAtomic
  CommandsEnd
