SPECIFICATION Spec
CONSTANTS
  p1 = p1
  p2 = p2
  c1 = c1
  c2 = c2
  x = x
  NoProcess = NoProcess
  Producers <- TwoProducers
  Consumers <- TwoConsumers
  Items <- OneItem
  Capacity = 2
INVARIANTS TypeOK PopIsSafe
PROPERTY Drains
