CONSTANTS
  rich = rich
  poor = poor
  Account = {rich, poor}
  Tx <- MCTx
  From <- MCFrom
  To <- MCTo
  Amount <- MCAmount
  Fee <- MCFee
  Funds <- MCFunds
  Transfer = {"pay", "free1", "free2", "forged"}
  Charged = {"post", "cheap"}
  Signed = {"pay", "post", "free1", "free2", "cheap"}
  Resent = {"free2"}
  PeerBody <- MCPeerBody
  MinFee = 1
  MaxTxs = 3
  MaxSize = 3
  MaxTotal = 2
  Slots = 1
SPECIFICATION PoolSpec
INVARIANTS
  PoolSound
  MinedLeaves
PROPERTIES
  ZeroFeeServed
CHECK_DEADLOCK FALSE
