\* Two tabs on one outbox and one lock: one drains the rows the other parked, one
\* is closed, and the server takes, refuses or fails.  Or one tab that moves
\* between a shared and a solo party, online and offline.
SPECIFICATION SpecEither
CONSTANTS
  solo = solo
  Tabs = {t1, t2}
  Parties = {p1, solo}
  Solo = {}
  NoParty = NoParty
  NoSnapshot = NoSnapshot
  Free = Free
  Answers = {"ok", "rejected", "api_error"}
  Kinds = {"mints"}
  OnlineReports = {TRUE}
  MAX_BATCH = 1
  MAX_ATTEMPTS = 1
  MaxDispatches = 3
  MaxConnects = 1
  MaxCloses = 1
  FewAnswers = {"ok", "rejected"}
  PlainKinds = {"plain"}
  Reports = {TRUE, FALSE}
CHECK_DEADLOCK FALSE
INVARIANT ParkedIsKept
INVARIANT OutcomeIsServers
INVARIANT PendingIsCarried
INVARIANT PartyOrderKept
SYMMETRY TabSymmetry
