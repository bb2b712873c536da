CONSTANTS
  first = first
  again = again
  Conn = {first, again}
  Outbound = {again}
  Peer = {"p"}
  PeerOf <- MCPeerOf
  Ip = {"i"}
  IpOf <- MCIpOf
  MaxPerIp = 2
  MaxTotal = 2
  MaxSubnet = 2
  MaxTimeouts = 2
  MinHealthy = 1
  Net = net
SPECIFICATION CppSpec
INVARIANTS
  TablesSound
PROPERTIES
  OnlyCrossedLocksBlock
  SilentPeerLeaves
CHECK_DEADLOCK FALSE
