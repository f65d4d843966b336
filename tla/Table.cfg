SPECIFICATION SpecEither
CONSTANTS
  Users = {n1, n2, n3}
  NoUser = NoUser
  Characters = {k1, k2}
  NoCharacter = NoCharacter
  Goods = {o1}
  Nowhere = Nowhere
  MaxCoins = 2
  Definitions = {d1}
  Items = {i1, i2}
  Sessions = {n1, n2, n3}
  Entries = {e1}
  Wishes = {w1, w2}
  Shop = Shop
  Sheet = Sheet
  PartyRow = PartyRow
  NoRow = NoRow
  Texts = {k1, k2}
  Prices = {p1}
  Slots = {k1, k2}
  Desks <- MCDesks
  MaxRequests = 3
SYMMETRY Symmetric
INVARIANTS
  NothingIsOrphaned
  OfferedIsAllowed
  PoolIsServed
  NothingIsLocked
  RowsAsLogged
  SessionsInOrder
  CatalogHolds
PROPERTY ReducerIsRoster
CHECK_DEADLOCK FALSE
