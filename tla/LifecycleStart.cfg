\* running before start() sets it.
SPECIFICATION Spec
CONSTANTS
  n1 = n1
  n2 = n2
  o1 = o1
  own1 = own1
  Peers <- MCPeers
  Seeds <- MCSeeds
  Objects <- MCObjects
  Own <- MCOwn
  Empty = Empty
  Free = Free
  MaxInputs = 1
  Main = Main
  Pow = Pow
  Inv = Inv
  Fwd = Fwd
INVARIANTS StartedThreadsRun
\* the destructor ends, or waits for ever
CHECK_DEADLOCK FALSE
