CONSTANTS
  alice = alice
  bob = bob
  carol = carol
  esc = esc
  ch = ch
  prob = prob
  line = line
  d5 = d5
  d7 = d7
  Account = {alice, bob, carol}
  EscrowId = {esc}
  ChannelId = {ch}
  ProblemId = {prob}
  LineId = {line}
  Pool = {d5, d7}
  Factor <- MCFactor
  Keep = Keep
  Shares <- MCShares
  Tx <- MCTx
  NoArbiter = NoArbiter
  GenesisLedger <- MCGenesisLedger
  Reward = 1
  MaxTxs = 5
  MaxTime = 2
SPECIFICATION Spec
INVARIANTS
  NoInflation
  RefundAfterTimeout
  BountyFollowsStatus
  ChannelBalanced
PROPERTIES
  SettledForGood
  TransferUnwinds
CHECK_DEADLOCK FALSE
