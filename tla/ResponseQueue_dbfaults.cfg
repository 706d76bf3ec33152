SPECIFICATION FairSpec
CONSTANTS
  MaxItems = 2
  MaxInsts = 1
  MaxResp = 1
  MaxEffects = 1
  Retries = 2
  Persist = TRUE
  LostReplies = FALSE
  Refuses = TRUE
  DbFaults = TRUE
  Deletions = FALSE
PROPERTIES
  LocksReleased
CHECK_DEADLOCK FALSE
