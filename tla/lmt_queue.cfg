SPECIFICATION FairSpec
CONSTANTS
  p1 = p1
  p2 = p2
  c1 = c1
  c2 = c2
  x = x
  y = y
  NoProcess = NoProcess
  Producers <- TwoProducers
  Consumers <- TwoConsumers
  Items <- TwoItems
  Capacity = 2
INVARIANTS TypeOK CheckedThenTrue LockNeverWaits SlotsAgree NoLostWakeup
PROPERTY IsChannel
