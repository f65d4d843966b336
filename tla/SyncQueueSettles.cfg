\* Two tabs: every dispatch settles.
SPECIFICATION FairSpec
CONSTANTS
  Tabs = {t1, t2}
  Parties = {p1}
  Solo = {}
  NoParty = NoParty
  NoSnapshot = NoSnapshot
  Free = Free
  Answers = {"ok", "unauthenticated", "display_name_required"}
  Kinds = {"plain"}
  OnlineReports = {TRUE}
  MAX_BATCH = 2
  MAX_ATTEMPTS = 2
  MaxDispatches = 2
  MaxConnects = 0
  MaxCloses = 0
CHECK_DEADLOCK FALSE
PROPERTY EveryDispatchSettles
