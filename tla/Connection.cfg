\* Two connections, two descriptors.
SPECIFICATION Spec
CONSTANTS
  c1 = c1
  c2 = c2
  Nodes <- MCNodes
  NFds = 2
  NoFd = NoFd
  Nobody = Nobody
  NAddrs = 1
  MaxPackets <- MCMaxPackets
INVARIANTS TypeOK QueueWaitsForHandshake DeadConnectionIsClean
PROPERTIES DestructorEnds
\* the destructor, or all threads, may have ended
CHECK_DEADLOCK FALSE
