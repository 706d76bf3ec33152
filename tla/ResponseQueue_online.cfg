SPECIFICATION FairSpec
CONSTANTS
  MaxItems = 3
  MaxInsts = 1
  MaxResp = 2
  MaxEffects = 1
  Retries = 4
  Persist = FALSE
  LostReplies = TRUE
  Refuses = TRUE
  DbFaults = FALSE
  Deletions = TRUE
INVARIANTS
  FinishedIsStored
PROPERTIES
  DeliveredOrReported
CHECK_DEADLOCK FALSE
