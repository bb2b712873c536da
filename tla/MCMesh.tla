------------------------------- MODULE MCMesh --------------------------------
(* Mesh with three nodes of which two are given the third, and with two      *)
(* nodes that are given each other, one of them itself too.                  *)
EXTENDS Mesh, TLC

\* Nodes 1 and 2 find each other through node 3; a connection breaks.
Common == [seeds |-> (1 :> {3} @@ 2 :> {3} @@ 3 :> {}), breaks |-> 1, hasty |-> 0]
\* Nodes 1 and 2 dial each other; a connection breaks.
Mutual == [seeds |-> (1 :> {2} @@ 2 :> {1}), breaks |-> 1, hasty |-> 0]
\* The same list for both, with node 2 on it, to which node 1 was added; a late tick.
Late == [seeds |-> (1 :> {2} @@ 2 :> {1, 2}), breaks |-> 0, hasty |-> 1]

MCSetups == {Common, Mutual, Late}
==============================================================================
