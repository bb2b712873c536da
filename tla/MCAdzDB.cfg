CONSTANTS
  g = g
  a1 = a1
  a2 = a2
  b1 = b1
  b2 = b2
  b3 = b3
  MCBlock = {g, a1, b1, b2}
  Block = {g, a1, b1, b2}
  Genesis = g
  Parent <- MCParent
  Height <- MCHeight
  Work <- MCWork
  Path <- MCPath
  PathWork <- MCPathWork
  Writer = {loop}
  Boot = boot
  MaxKills = 2
  MaxOutages = 1
  Tears = FALSE
  NoBlock = NoBlock
SPECIFICATION Spec
INVARIANTS
  PromisesKept
  TipBacked
  OpensAgain
CHECK_DEADLOCK FALSE
