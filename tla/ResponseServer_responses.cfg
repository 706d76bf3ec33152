SPECIFICATION FairSpec
CONSTANTS
  Quotas = {1, 2}
  EndingQuotas = {1}
  PartialQuotas = {2}
  WideQuotas = {2}
  Limit = 1
  AutoComplete = 2
  MaxAttempts = 2
  MaxResponses = 2
  MaxRequests = 3
  MaxDisturbances = 1
INVARIANTS
  TypeOK
  QuotaLimit
  FinishedIsAnnounced
  NotifiedOnce
  LimitCompletes
PROPERTIES
  NothingTakenBack
  EverythingEnds
CHECK_DEADLOCK FALSE
