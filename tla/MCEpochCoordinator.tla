------------------------- MODULE MCEpochCoordinator --------------------------
(* EpochCoordinator with a handful of nodes. *)
EXTENDS EpochCoordinator

\* Every node may reach every score in every epoch: with this and three nodes
\* SameViewAgreement does not hold.
MCAny == [n \in Node |-> [e \in 1..MaxEpoch |-> Score]]

\* A tie in epoch 1; in epoch 2 the node with the larger id does better.
MCTieThenLead ==
  [n \in Node |-> [e \in 1..MaxEpoch |-> IF e = 1 THEN {1} ELSE {n}]]
==============================================================================
