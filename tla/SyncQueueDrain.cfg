\* One tab whose socket connects once: parked rows, the drain, the live retries.
SPECIFICATION Spec
CONSTANTS
  Tabs = {t1}
  Parties = {p1}
  Solo = {}
  NoParty = NoParty
  NoSnapshot = NoSnapshot
  Free = Free
  Answers = {"ok", "rejected", "api_error"}
  Kinds = {"plain", "void"}
  OnlineReports = {TRUE, FALSE}
  MAX_BATCH = 2
  MAX_ATTEMPTS = 2
  MaxDispatches = 2
  MaxConnects = 1
  MaxCloses = 1
CHECK_DEADLOCK FALSE
INVARIANT LogIsServers
INVARIANT TwiceOnlyAfterLoss
PROPERTY KeepsPromise
ACTION_CONSTRAINT FewFaults
