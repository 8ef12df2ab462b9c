\* An inventory, a getdata and an object at or over the limit, one answer, one partial send.
SPECIFICATION Spec
CONSTANTS
  Base = 5
  Word = 256
  Unit = 2
  extrabytes = 1
  noncetrials = 1
  MinTTL = 1
  Past = 2
  Inventory <- MCInventory
  Queue <- MCQueue
  Sizes = {1, 2}
  MaxObject = 2
  Lives_ = {0, 2}
  MaxTTL = 2
  Window = 5
  MaxEvents = 2
  MaxTime = 4
INVARIANTS TypeOK PeerReadsWhatWasSent RefusedOnlyWhenPast
PROPERTIES FramesArrive
\* all packets may have been sent
CHECK_DEADLOCK FALSE
