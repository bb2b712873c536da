--------------------------- MODULE CanonicalChain ----------------------------
(***************************************************************************)
(* What ChainState promises its callers: a growing set of known blocks and *)
(* a durable canonical tip that moves in two ways only.  A successor of    *)
(* the tip extends it, or a reorganization that was asked for switches to  *)
(* a branch known down to the genesis block.  A crash takes nothing back;  *)
(* it may only forget what was asked.                                      *)
(***************************************************************************)
EXTENDS BlockTree

VARIABLES
  known,   \* the blocks that can be read back
  tip,     \* the canonical tip
  asked    \* tips a caller asked the chain to switch to

Init == known \subseteq {Genesis} /\ tip = Genesis /\ asked = {}

\* A block becomes known; on its own this never moves the tip.
Learn(b) ==
  /\ known' = known \cup {b}
  /\ UNCHANGED <<tip, asked>>

\* The tip's successor becomes the tip, known before or by this step.
Extend(b) ==
  /\ b # Genesis /\ Parent[b] = tip
  /\ known' = known \cup {b}
  /\ tip' = b
  /\ UNCHANGED asked

\* A caller asks for a switch to a branch every block of which is known.
Ask(b) ==
  /\ Linked(b, known)
  /\ asked' = asked \cup {b}
  /\ UNCHANGED <<known, tip>>

\* The switch itself; several callers may have asked for the same one.
Reorganize(b) ==
  /\ b \in asked
  /\ tip' = b
  /\ asked' \in {asked, asked \ {b}}
  /\ UNCHANGED known

\* The asking process died.
Forget ==
  /\ asked' = {}
  /\ UNCHANGED <<known, tip>>

Next ==
  \/ \E b \in Block : Learn(b) \/ Extend(b) \/ Ask(b) \/ Reorganize(b)
  \/ Forget

Spec == Init /\ [][Next]_<<known, tip, asked>>
==============================================================================
