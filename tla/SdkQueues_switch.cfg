SPECIFICATION Spec
CONSTANTS
  Users = {a, b, c}
  LongIds = {c}
  NoUser = none
  MaxCalls = 4
INVARIANTS
  AttributesOfTheirUser
CHECK_DEADLOCK FALSE
