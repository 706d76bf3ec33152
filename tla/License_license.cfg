SPECIFICATION Spec
CONSTANTS
  Instances = {i1, i2}
  FetchTTL = 2
  FailedTTL = 1
  PreviousTTL = 4
  Grace = 2
  Refresh = 0
  MaxTime = 5
  MaxEvents = 2
INVARIANTS
  TypeOK
  NoFreeLicense
  StatusIsRecent
PROPERTIES
  GraceKept
SYMMETRY Alike
CHECK_DEADLOCK FALSE
