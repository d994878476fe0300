SPECIFICATION Spec
CONSTANTS
  Modules <- OneModule
  Names <- OneName
  SizeRange = 4
  IntRange = 4
  Values <- ZeroOne
  Absent = Absent
  Liberties <- EarlyReAdd
  MaxEvents = 2
  MaxWatchpoints = 1
INVARIANT NeverThrows
CHECK_DEADLOCK FALSE
