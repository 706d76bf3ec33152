SPECIFICATION FairSpec
CONSTANTS
  MaxTime = 3
  Editors = {editor}
  Menus = {menu}
  Worker = w
  NoDecision = none
  MaxFaults = 1
  MaxLimits = 1
INVARIANTS
  TypeOK
  NothingComesBack
PROPERTIES
  ActsOnTime

  DatesTakeEffect
CHECK_DEADLOCK FALSE
