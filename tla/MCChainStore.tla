---------------------------- MODULE MCChainStore -----------------------------
(* ChainStore on the tree of MCBlockTree. *)
EXTENDS ChainStore, MCBlockTree
==============================================================================
