SPECIFICATION Spec
CONSTANTS
  pkt1 = pkt1
  pkt2 = pkt2
  Modules <- TwoModules
  Packets <- TwoPackets
  CounterNames <- OneCounter
  LatencyPairs <- TwoPairs
  Drops <- DropsInEditor
  Amounts <- One
  Second = 6
  Infinite = Infinite
  Never = Never
  MaxTime = 1
  MaxLog = 4
  Described <- OneDescribed
  NoPacket = NoPacket
  MaxAsked = 2
INVARIANT ShownTimeIsLastUpdate
