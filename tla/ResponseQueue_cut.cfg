SPECIFICATION Spec
CONSTANTS
  MaxItems = 2
  MaxInsts = 1
  MaxResp = 1
  MaxEffects = 1
  Retries = 1
  Persist = TRUE
  LostReplies = FALSE
  Refuses = FALSE
  DbFaults = FALSE
  Deletions = FALSE
PROPERTIES
  SyncCutsOnlyWhatItSent
CHECK_DEADLOCK FALSE
