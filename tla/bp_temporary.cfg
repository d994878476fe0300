SPECIFICATION Spec
CONSTANTS
  Modules <- OneModule
  Packets <- OnePacket
  UserConditions <- SomeConditions
  MaxTime = 3
  Delays <- OneDelay
  to_string <- SixDecimals
  stof <- NearestFloat
  Slack = 1
  MaxBreakpoints = 2

PROPERTY TemporaryDestroyed
