SPECIFICATION Spec
CONSTANTS
  Modules <- TwoModules
  Names <- TwoNames
  SizeRange = 4
  IntRange = 4
  Values <- ZeroOne
  Absent = Absent
  Liberties <- EditInWalk
  MaxEvents = 2
  MaxWatchpoints = 2
INVARIANTS TypeOK Agreement NeverThrows
PROPERTY PromptAgrees
CHECK_DEADLOCK FALSE
