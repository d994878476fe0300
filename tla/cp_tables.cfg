SPECIFICATION Spec
CONSTANTS
  d1 = d1
  d2 = d2
  a1 = a1
  a2 = a2
  Tables <- OneTable
  Actions <- TwoActions
  Data <- TwoData
  Literals <- SomeLiterals
  Base = 2
  DecimalWidth = 2
  Handles <- ThreeHandles
  NoHandle = NoHandle
  Liberties <- NoLiberty
  MaxInFlight = 2
SYMMETRY Swap
INVARIANTS TypeOK EntriesSettle NoneHidden HandlesUnique NumberKept
CHECK_DEADLOCK FALSE
