----------------------------- MODULE MCMempool -------------------------------
(* Mempool with two accounts: one pays fees, the other transfers without. *)
EXTENDS Mempool

CONSTANTS rich, poor

MCFunds == rich :> 1 @@ poor :> 2

\* rich can pay for neither of its own until it was given something; cheap
\* pays less than its kind is charged, and forged is not signed.
MCTx == {"pay", "post", "free1", "free2", "cheap", "forged"}
MCFrom == [t \in MCTx |-> IF t \in {"free1", "free2"} THEN poor ELSE rich]
MCTo == [t \in MCTx |-> IF t \in {"pay", "forged"} THEN poor ELSE rich]
MCAmount == [t \in MCTx |-> CASE t = "free2" -> 2 [] t \in {"pay", "free1", "forged"} -> 1
                              [] OTHER -> 0]
MCFee == [t \in MCTx |-> CASE t \in {"post", "forged"} -> 2 [] t = "pay" -> 1 [] OTHER -> 0]
MCPeerBody == {<<"post">>, <<"free2">>, <<"free1", "pay">>}
==============================================================================
