SPECIFICATION Spec
CONSTANTS
  a = a
  b = b
  s1 = s1
  s2 = s2
  r2 = r2
  r3 = r3
  e2 = e2
  e3 = e3
  Pool = Pool
  Stashes = {Pool, a, b}
  Stacks = {r1}
  Entries = {e1}
  NewStacks <- MCNewStacks
  NewEntries <- MCNewEntries
  Economy = Economy
  Slots = {s1, s2}
  Free = Free
  NoRow = NoRow
  Purses <- MCPurses
  Deltas <- MCDeltas
  Sums <- MCSums
  Splits <- MCSplits
  Markups = {100, 120}
  BaseCost = 4
  SellRate = 50
  MaxRequests = 2
  MaxEdits = 1
CONSTRAINT ListPrices
SYMMETRY Symmetric
INVARIANTS
  CoinsAsLogged
  WaresAsLogged
CHECK_DEADLOCK FALSE
