\* A 422 and a dispatch made during the flight.
SPECIFICATION Spec
CONSTANTS
  Tabs = {t1}
  Parties = {p1}
  Solo = {}
  NoParty = NoParty
  NoSnapshot = NoSnapshot
  Free = Free
  Answers = {"ok", "rejected"}
  Kinds = {"plain"}
  OnlineReports = {TRUE}
  MAX_BATCH = 2
  MAX_ATTEMPTS = 1
  MaxDispatches = 2
  MaxConnects = 0
  MaxCloses = 0
CHECK_DEADLOCK FALSE
INVARIANT RejectedIsRolledBack
