\* One seed, one connection that an addr packet adds; a colliding bucket.
SPECIFICATION Spec
CONSTANTS
  n1 = n1
  n2 = n2
  pub = pub
  get = get
  msg = msg
  ack = ack
  none = none
  Objects <- MCObjects
  Tag <- MCTag
  Hashes <- MCHashes
  Buckets <- MCBuckets
  hash_f <- MChash_f
  Own <- MCOwn
  Reply <- MCReply
  Ack <- MCAck
  NoObject = none
  Peers <- MCPeers
  Seeds <- MCSeeds
  MaxInv = 4
  MaxInputs = 3
  Pow = Pow
  Inv = Inv
  Fwd = Fwd
INVARIANTS TypeOK AnnouncedIsServable StoredOnce NoAnnouncementGap
PROPERTIES EveryNodeIsTold
CHECK_DEADLOCK FALSE
