SPECIFICATION FairSpec
CONSTANTS
  Users = {a, b, c}
  LongIds = {c}
  NoUser = none
  MaxCalls = 4
INVARIANTS
  TypeOK
  FlushIsVisible
  LogoutSticks
  AttributesAccountedFor
PROPERTIES
  EveryCallRuns
CHECK_DEADLOCK FALSE
