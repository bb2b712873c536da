CONSTANTS
  g = g
  a1 = a1
  a2 = a2
  a3 = a3
  b2 = b2
  x3 = x3
  c1 = c1
  alice = alice
  bob = bob
  pool = pool
  MCBlock = {g, a1, a2, a3, b2, x3}
  Block = {g, a1, a2, a3, b2, x3}
  Genesis = g
  Parent <- MCParent
  Height <- MCHeight
  Work <- MCWork
  Path <- MCPath
  PathWork <- MCPathWork
  Account = {alice, bob, pool}
  EscrowId = {}
  ChannelId = {}
  ProblemId = {}
  LineId = {}
  Pool = {}
  Factor <- MCFactor
  Keep = Keep
  Tx <- MCTx
  NoArbiter = NoArbiter
  Body <- MCPoorBody
  Valid <- MCPoorValid
  GenesisLedger <- MCGenesisLedger
  Importer = {cpp}
  Miner = {}
  Attempt = {r1}
  MinAnchor = 1
  MaxCrashes = 0
  MaxUpsets = 0
  NoBlock = NoBlock
SPECIFICATION Spec
INVARIANT LedgerFollowsTip
CHECK_DEADLOCK FALSE
