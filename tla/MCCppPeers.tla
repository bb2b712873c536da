----------------------------- MODULE MCCppPeers ------------------------------
(* CppPeers with one peer that connects (first) while it is dialled (again):  *)
(* nobody else is there, so that the router may be empty.                     *)
EXTENDS CppPeers

CONSTANTS first, again

MCPeerOf == [c \in Conn |-> "p"]
MCIpOf == [c \in Conn |-> "i"]
==============================================================================
