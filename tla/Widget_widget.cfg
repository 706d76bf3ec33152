SPECIFICATION FairSpec
CONSTANTS
  Surveys = {sCode, sPage}
  OnceOnly = {sPage}
  UntilAnswered = {sCode}
  NoCooldown = {sCode}
  Targeted = {sCode}
  Protected = {sCode}
  PageSurveys = {sPage}
  DwellSurveys = {sPage}
  Published = {{sCode, sPage}, {sCode}}
  Users = {u}
  Members = {u}
  NoUser = none
  Pages = {home, shop}
  Matching = {shop}
  MaxCalls = 1
  MaxNavs = 2
  MaxRenders = 3
  MaxFetches = 1
INVARIANTS
  TypeOK
  OneAtATime
  RunningHasCause
  FilteredIsCurrent
PROPERTIES
  EveryTrackEnds
CHECK_DEADLOCK FALSE
