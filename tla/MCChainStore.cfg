CONSTANTS
  g = g
  a1 = a1
  a2 = a2
  b1 = b1
  b2 = b2
  b3 = b3
  MCBlock = {g, a1, a2, b1, b2, b3}
  Block = {g, a1, a2, b1, b2, b3}
  Genesis = g
  Parent <- MCParent
  Height <- MCHeight
  Work <- MCWork
  Path <- MCPath
  PathWork <- MCPathWork
  Writer = {loop}
  MaxCrashes = 2
  NoBlock = NoBlock
SPECIFICATION Spec
INVARIANTS
  DurableTipLinked
  WorkMatchesTip
  CacheMatchesDisk
  IndexMatchesTip
PROPERTIES
  RefinesCanonicalChain
CHECK_DEADLOCK FALSE
