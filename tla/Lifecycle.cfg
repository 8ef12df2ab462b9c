\* One seed, one node added while the client runs.
SPECIFICATION Spec
CONSTANTS
  n1 = n1
  n2 = n2
  o1 = o1
  own1 = own1
  Peers <- MCPeers
  Seeds <- MCSeeds
  Objects <- MCObjects
  Own <- MCOwn
  Empty = Empty
  Free = Free
  MaxInputs = 3
  Main = Main
  Pow = Pow
  Inv = Inv
  Fwd = Fwd
INVARIANTS TypeOK SavedIsFinal DeletedIsUnused
PROPERTIES ShutdownCompletes
\* the destructor ends, or waits for ever
CHECK_DEADLOCK FALSE
