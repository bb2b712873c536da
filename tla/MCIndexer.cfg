CONSTANTS
  g = g
  s1 = s1
  a2 = a2
  b2 = b2
  b3 = b3
  c1 = c1
  d1 = d1
  d2 = d2
  d3 = d3
  Block = {g, s1, a2, b2, b3, c1, d1, d2, d3}
  Genesis = g
  Parent <- MCParent
  Height <- MCHeight
  Work <- MCWork
  Path <- MCPath
  PathWork <- MCPathWork
  K = 1
  Batch = 2
  Lead = 0
  Detail <- MCDetail
  MaxErrors = 2
  MaxCrashes = 2
  None = None
SPECIFICATION Spec
INVARIANTS
  IndexSound
  IndexedBelow
PROPERTIES
  IndexCatchesUp
CHECK_DEADLOCK FALSE
