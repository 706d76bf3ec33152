SPECIFICATION Spec
CONSTANTS
  MaxItems = 3
  MaxInsts = 2
  MaxResp = 2
  MaxEffects = 2
  Retries = 2
  Persist = TRUE
  LostReplies = FALSE
  Refuses = FALSE
  DbFaults = FALSE
  Deletions = FALSE
INVARIANTS
  SentIsHead
  OneResponse
PROPERTIES
  AppliedInOrder
CHECK_DEADLOCK FALSE
