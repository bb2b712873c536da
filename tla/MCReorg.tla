------------------------------ MODULE MCReorg --------------------------------
(***************************************************************************)
(* Reorg on a small tree with real transactions.                           *)
(*                                                                         *)
(*        g -- a1 -- a2 -- a3         work 5 each                          *)
(*         \     \                                                         *)
(*          \     b2                  work 7: beats a2, a3 beats it        *)
(*           \      \                                                      *)
(*            \      x3               work 9, does not validate            *)
(*             c1                     work 9, forks below the anchor       *)
(***************************************************************************)
EXTENDS Reorg

CONSTANTS
  g, a1, a2, a3, b2, x3, c1,
  MCBlock,            \* the part of the tree this instance uses
  alice, bob, pool    \* the genesis account, a user, and the miners' account

MCParent == [b \in MCBlock |->
  CASE b \in {g, a1, c1} -> g
    [] b \in {a2, b2} -> a1
    [] b = a3 -> a2
    [] b = x3 -> b2]
MCWork == [b \in MCBlock |->
  CASE b = g -> 1 [] b \in {a1, a2, a3} -> 5 [] b = b2 -> 7 [] OTHER -> 9]
MCHeight[b \in MCBlock] == IF b = g THEN 0 ELSE MCHeight[MCParent[b]] + 1
MCPath[b \in MCBlock] == IF b = g THEN {g} ELSE {b} \cup MCPath[MCParent[b]]
MCPathWork[b \in MCBlock] == MCWork[b] + (IF b = g THEN 0 ELSE MCPathWork[MCParent[b]])
MCValid == MCBlock \ {x3}

Pays(from, nonce, to, amount) ==
  [kind |-> "transfer", from |-> from, nonce |-> nonce, fee |-> 1, to |-> to,
   amount |-> amount]
Fund(nonce, to) == Pays(alice, nonce, to, 20)
Gift(nonce) == Pays(alice, nonce, bob, 2)
Back == Pays(bob, 0, alice, 1)
Lock == [kind |-> "timelock", from |-> alice, nonce |-> 3, fee |-> 1, amount |-> 2]
Spend == Pays(pool, 0, alice, 3)
MCTx == {Fund(0, bob), Fund(1, pool), Gift(0), Gift(2), Back, Lock, Spend}

\* a1, the anchor, funds everybody so well that no balance of a block above
\* it ever reaches zero; Gift(2) is mined on both branches.
MCBody == [b \in MCBlock |->
  [miner |-> pool, reward |-> 2,
   txs |-> CASE b = a1 -> <<Fund(0, bob), Fund(1, pool)>>
             [] b = a2 -> <<Gift(2)>> [] b = a3 -> <<Spend, Back>>
             [] b = b2 -> <<Back, Gift(2), Lock>>
             [] b = c1 -> <<Gift(0)>> [] OTHER -> <<>>]]

\* bob spends in a3 what a2 gave him; x3 validates, so a switch to it unwinds both.
MCPoorValid == MCBlock
MCPoorBody == [b \in MCBlock |->
  [miner |-> pool, reward |-> 2,
   txs |-> CASE b = a2 -> <<Gift(0)>> [] b = a3 -> <<Back>> [] OTHER -> <<>>]]

\* No pool, and so no factor.
MCFactor == <<>>

\* Start-up funds the genesis account and nobody else (service/mod.rs:490).
MCGenesisLedger ==
  [bal |-> [a \in Account |-> IF a = alice THEN 100 ELSE 0],
   nonce |-> [a \in Account |-> 0], locks |-> {},
   escrow |-> <<>>, channel |-> <<>>, problem |-> <<>>, line |-> <<>>, pool |-> <<>>]

\* What tells the two sets of bodies apart: whether a branch can be unwound.
ASSUME BodiesDiffer == BranchesUnwind <=> Body # MCPoorBody
==============================================================================
