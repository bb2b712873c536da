------------------------------- MODULE MCAdzDB -------------------------------
(* AdzDB on a part of the tree of MCBlockTree. *)
EXTENDS AdzDB, MCBlockTree
==============================================================================
