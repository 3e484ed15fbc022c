CONSTANTS
  Clients = {c1, c2}
  NShards = 2
  Keys <- MCKeys
  ShardOf <- MCShardOf
  Commands <- PairCommands
  NoValue = NoValue
  j = j
  k = k
  l = l
  v = v
  w = w
SPECIFICATION CommandsOnlySpec
INVARIANTS
  ScanSeesWholeCommands
