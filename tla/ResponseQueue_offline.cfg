SPECIFICATION Spec
CONSTANTS
  MaxItems = 2
  MaxInsts = 1
  MaxResp = 2
  MaxEffects = 1
  Retries = 2
  Persist = TRUE
  LostReplies = TRUE
  Refuses = TRUE
  DbFaults = FALSE
  Deletions = TRUE
INVARIANTS
  TypeOK
  OneSenderPerSurvey
  NoAnswerForgotten
CHECK_DEADLOCK FALSE
