SPECIFICATION TableSpec
CONSTANTS
  a = a
  b = b
  c = c
  v = v
  w = w
  Items = {a, b, c}
  Words = {v, w}
  Row <- MCRow
  Point = 2
  Passing <- MCPassing
  Hits <- MCHits
  MaxRows = 3
PROPERTIES
  SortedAsTested
