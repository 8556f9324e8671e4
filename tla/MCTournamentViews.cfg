SPECIFICATION Spec
CONSTANTS
  p1 = p1
  p2 = p2
  r1 = r1
  r2 = r2
  Players = {p1, p2}
  Rounds = {r1, r2}
  NoPlayer = NoPlayer
  Members <- MCMembers
INVARIANTS
  TablesAreCurrent
  SavedIsTrue
  StaleOnlyIfUntold
