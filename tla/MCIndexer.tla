------------------------------ MODULE MCIndexer -------------------------------
(***************************************************************************)
(* Indexer on this tree.  b2, c1 and d3 are heavier than what came before   *)
(* them: c1 lowers the tip, by up to two blocks.                           *)
(*                                                                         *)
(*        g --- s1 -- a2                                                   *)
(*        |\     \                                                         *)
(*        | c1    b2 -- b3                                                 *)
(*         \                                                               *)
(*          d1 -- d2 -- d3                                                 *)
(***************************************************************************)
EXTENDS Indexer, TLC

CONSTANTS g, s1, a2, b2, b3, c1, d1, d2, d3

MCParent ==
  g :> g @@ s1 :> g @@ a2 :> s1 @@ b2 :> s1 @@ b3 :> b2 @@ c1 :> g
    @@ d1 :> g @@ d2 :> d1 @@ d3 :> d2
MCWork == [b \in Block |-> CASE b = b2 -> 3 [] b \in {c1, d3} -> 9 [] OTHER -> 1]
MCHeight[b \in Block] == IF b = g THEN 0 ELSE MCHeight[MCParent[b]] + 1
MCPath[b \in Block] == IF b = g THEN {g} ELSE {b} \cup MCPath[MCParent[b]]
MCPathWork[b \in Block] == IF b = g THEN 1 ELSE MCPathWork[MCParent[b]] + MCWork[b]

MCDetail == <<"txs", "events">>
==============================================================================
