\* processObj exits early on the wrong objects.
SPECIFICATION Spec
CONSTANTS
  n1 = n1
  n2 = n2
  pub = pub
  get = get
  msg = msg
  ack = ack
  none = none
  Objects <- MCObjects
  Tag <- MCTag
  Hashes <- MCHashes
  Buckets <- MCBuckets
  hash_f <- MChash_f
  Own <- MCOwn
  Reply <- MCReply
  Ack <- MCAck
  NoObject = none
  Peers <- MCPeers
  Seeds <- MCSeeds
  MaxInv = 4
  MaxInputs = 2
  Pow = Pow
  Inv = Inv
  Fwd = Fwd
PROPERTIES ExitsIffAlreadyAnalysed
CHECK_DEADLOCK FALSE
