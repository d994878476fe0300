SPECIFICATION Spec
CONSTANTS
  top = top
  m1 = m1
  m2 = m2
  Null = Null
  Observer = Observer
  Groups <- SomeGroups
  Words <- SomeWords
  Form <- SomeForm
  Pieces <- SomePieces
  Levels <- SomeLevels
  Slashed <- SomeSlashed
  MaxGroups = 3
  BuiltFor <- NoArguments
  Modules <- ThreeModules
  Top = top
  Names <- TwoNames
  WithTop <- OnlyTop
  Params <- TwoParams
  Configurations <- SomeConfigurations
  File <- Files
  Nesting <- SomeNesting
  MaxNesting = 3
SYMMETRY Swap
INVARIANTS TypeOK ArgumentsTaken FillKeepsShape NearestWins AllReport
CHECK_DEADLOCK FALSE
