SPECIFICATION FairSpec
CONSTANTS
  Enable = FALSE
  Commands <- AllRequests
  EarlyContinue = FALSE
  Resent <- RunOnly
  StopKinds <- TwoStops
  MaxInbox = 2
PROPERTY ShutdownCompletes
CHECK_DEADLOCK FALSE
