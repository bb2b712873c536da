----------------------------- MODULE MCBlockTree -----------------------------
(***************************************************************************)
(* A small block tree for TLC; an instance takes a part of it.             *)
(*                                                                         *)
(*        g -- a1 -- a2                                                    *)
(*         \                                                               *)
(*          b1 -- b2 -- b3     (light and long)                            *)
(*                                                                         *)
(* The branches differ in length and in work, so that a switch may shorten *)
(* the chain, lengthen it, and raise or lower its work.                    *)
(***************************************************************************)
EXTENDS Naturals

CONSTANTS
  g, a1, a2, b1, b2, b3,
  MCBlock   \* the blocks of this instance: a part of the tree closed under prev_hash

MCParent == [b \in MCBlock |->
  CASE b \in {g, a1, b1} -> g
    [] b = a2 -> a1
    [] b = b2 -> b1
    [] b = b3 -> b2]

MCWork == [b \in MCBlock |-> IF b \in {a1, a2} THEN 5 ELSE IF b = g THEN 1 ELSE 2]

\* Walks over prev_hash.
MCHeight[b \in MCBlock] == IF b = g THEN 0 ELSE MCHeight[MCParent[b]] + 1
MCPath[b \in MCBlock] == IF b = g THEN {g} ELSE {b} \cup MCPath[MCParent[b]]
MCPathWork[b \in MCBlock] ==
  MCWork[b] + (IF b = g THEN 0 ELSE MCPathWork[MCParent[b]])
==============================================================================
