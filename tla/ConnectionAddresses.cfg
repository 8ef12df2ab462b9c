\* A host with two addresses.
SPECIFICATION Spec
CONSTANTS
  c1 = c1
  c2 = c2
  Nodes <- MCNodes
  NFds = 2
  NoFd = NoFd
  Nobody = Nobody
  NAddrs = 2
  MaxPackets <- MCMaxPackets
INVARIANTS TriesEveryAddress
\* the destructor, or all threads, may have ended
CHECK_DEADLOCK FALSE
