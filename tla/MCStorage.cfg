CONSTANTS
  c1 = c1
  c2 = c2
  c3 = c3
  p1 = p1
  p2 = p2
  Consumers <- MCConsumers
  Producers <- MCProducers
  MaxPuts = 2
SPECIFICATION FairSpec
INVARIANT NoLostWakeup
PROPERTIES WakeupFreesConsumers ImplementsFifoQueue
