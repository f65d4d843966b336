SPECIFICATION Spec
CONSTANTS
  Users = {u1, u2, u3}
  NoUser = NoUser
  Slots = {s1, s2}
  MaxCharacters = 1
  MaxRequests = 3
SYMMETRY Symmetry
INVARIANTS
  OneDm
  BankerPlays
  CharactersHaveRows
  ArchivedIsEmpty
  DeletedHasLeft
PROPERTY RosterSteps
CHECK_DEADLOCK FALSE
