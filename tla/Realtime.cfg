SPECIFICATION Spec
CONSTANTS
  Users = {u1, u2}
  Tabs = {t1, t2}
  Nobody = Nobody
  NoState = NoState
  Asked = Asked
  Kinds = {"plain", "clocked"}
  MAX_BATCH = 2
  MaxActions = 2
  MaxTurns = 1
SYMMETRY Symmetric
INVARIANTS
  NothingTwice
  
CONSTRAINT OneClock
CHECK_DEADLOCK FALSE
