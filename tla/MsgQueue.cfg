\* Two producers, one consumer that pops and one that drains.
SPECIFICATION Spec
CONSTANTS
  p1 = p1
  p2 = p2
  c1 = c1
  c2 = c2
  v1 = v1
  v2 = v2
  Producers <- MCProducers
  Consumers <- MCConsumers
  Drainers <- MCDrainers
  Items <- MCItems
  NoItem = none
  Free = free
  MaxPush = 4
INVARIANTS TypeOK NoLostWakeup
PROPERTIES ImplementsFifo
\* nobody is obliged to push: every consumer may end up waiting
CHECK_DEADLOCK FALSE
