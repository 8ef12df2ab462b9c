\* Two Listeners, two addresses in three spellings.
SPECIFICATION Spec
CONSTANTS
  l1 = l1
  l2 = l2
  longA = longA
  shortA = shortA
  longB = longB
  tagA = tagA
  tagB = tagB
  ripeA = ripeA
  ripeB = ripeB
  Listeners = {l1, l2}
  Main = main
  Addresses = {longA, shortA, longB}
  tag <- MCTag
  ripe <- MCRipe
  version <- MCVersion
  Typed = {longA, shortA}
  Loaded <- MCLoaded
  room = 1
  Objects <- MCObjects
  Hashes <- MCHashes
  Buckets <- MCBuckets
  hash_f <- MCHash_f
  NoKey = NoKey
  Garbage = Garbage
  Nil = Nil
  MaxObjects = 2
  MaxCommands = 2
INVARIANTS TypeOK NoDuplicates WaitIsAsked EncryptsWithKeysSent DeliveredOnce AckBeforeDelivery
\* all objects may have come and all commands been typed
CHECK_DEADLOCK FALSE
PROPERTIES ImplementsKeyBook HeldPoolIsStill PubKeyReachesAll AnswerEndsWait
