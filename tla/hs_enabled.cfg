SPECIFICATION FairSpec
CONSTANTS
  Enable = TRUE
  Commands <- AllRequests
  EarlyContinue = FALSE
  Resent <- RunOnly
  StopKinds <- TwoStops
  MaxInbox = 3
INVARIANTS TypeOK Exclusive FreshReply PromptMeansHalted NoLostWakeup
PROPERTIES Answered ImplementsBaton
