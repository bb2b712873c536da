----------------------------- MODULE MCPeerSync ------------------------------
(* PeerSync with a peer that has the chain and one a block behind it.        *)
EXTENDS PeerSync, TLC

CONSTANTS ahead, other

MCStart == ahead :> Top @@ other :> Top - 1
==============================================================================
