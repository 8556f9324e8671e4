SPECIFICATION TabSpec
CONSTANTS
  p1 = p1
  p2 = p2
  p3 = p3
  r1 = r1
  r2 = r2
  Players = {p1, p2, p3}
  Rounds = {r1, r2}
  NoRound = NoRound
  SpinMax = 1
  Members <- MCMembers
  Loadable <- MCLoadable
  a = a
  b = b
  c = c
  v = v
  w = w
  Items = {a, b, c}
  Words = {v, w}
  Row <- MCRow
  Point = 2
  Passing <- MCPassing
  Hits <- MCHits
  MaxRows = 3
  MatchIds = {r1, r2}
  Lengths = {2, 3}
  Extensions = {2}
  MaxClock = 4
  MaxExtension = 2
  NoMatch = NoMatch
INVARIANTS
  PanelIsCurrent
  ConfirmedAsEntered
  RowIsItem
  FilterIsExact
  NumbersFall
  NeverOptimistic
  OnlyTimeIsMissed
PROPERTIES
  SavedAsEntered
  RefusalEndsLoop
