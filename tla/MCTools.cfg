SPECIFICATION ToolsSpec
CONSTANTS
  Letters = {a, b}
  Em = Em
  Esc = Esc
  Nul = Nul
  None = None
  Size = 3
  MaxPrinted = 7
  UserSettings = {s0, s1}
  DefaultSettings = s0
  NoFile = NoFile
  Durations = {0, 3}
  MaxTime = 2
  MaxPauses = 2
  W = 3
  MaxCoins = 7
  MaxSides = 3
  MaxDice = 4
  MaxInt = 255
  c1 = c1
  c2 = c2
  c3 = c3
  q1 = q1
  q2 = q2
  q3 = q3
  Cards = {c1, c2, c3}
  Queries = {q1, q2, q3}
  NoResult = NoResult
  Attribute <- MCAttribute
  Found <- MCFound
INVARIANTS
  BufferIsTail
  MessageHasTail
  ReportIsDue
  
  ResultsAreTrue
  RowsAreResult
  CellsAreSorted
PROPERTIES
  TimeLeftMoves
CHECK_DEADLOCK FALSE
