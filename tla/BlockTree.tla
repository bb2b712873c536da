------------------------------ MODULE BlockTree ------------------------------
(***************************************************************************)
(* The headers a node can ever meet: a finite tree of blocks rooted in the *)
(* genesis block.  A block stands for its header hash; the header fields   *)
(* the chain code reads are functions of it.  The tree itself is fixed:    *)
(* a header's prev_hash, height and work_score never change.               *)
(***************************************************************************)
EXTENDS Naturals, FiniteSets

CONSTANTS
  Block,      \* every block that exists in the instance, the genesis block too
  Genesis,    \* the genesis block (genesis.rs)
  Parent,     \* header.prev_hash: a function on Block (Genesis maps to itself)
  Height,     \* header.height
  Work,       \* header.work_score.max(0.0) as u64
  Path,       \* Path[b]: the blocks met by walking prev_hash from b to genesis
  PathWork    \* PathWork[b]: the sum of Work over Path[b]

ASSUME BlockTreeAssumption ==
  /\ IsFiniteSet(Block)
  /\ Genesis \in Block
  /\ Parent \in [Block -> Block]
  /\ Height \in [Block -> Nat]
  /\ Work \in [Block -> Nat]
  /\ Path \in [Block -> SUBSET Block]
  /\ PathWork \in [Block -> Nat]
  /\ Parent[Genesis] = Genesis
  /\ Height[Genesis] = 0
  /\ Path[Genesis] = {Genesis}
  /\ PathWork[Genesis] = Work[Genesis]
  /\ \A b \in Block \ {Genesis} :
       /\ Height[b] = Height[Parent[b]] + 1
       /\ Path[b] = Path[Parent[b]] \cup {b}
       /\ PathWork[b] = PathWork[Parent[b]] + Work[b]

\* Does the walk from b over prev_hash find every block it loads in `store`?
\* compute_cumulative_work_tip_db fails with BlockNotFound otherwise.
Linked(b, store) == Path[b] \subseteq store

\* The block of Path[b] at height h: walking prev_hash from the tip down to h,
\* as get_canonical_block_by_height does.
BlockAt(b, h) == CHOOSE a \in Path[b] : Height[a] = h

\* The highest block two branches share.
CommonAncestor(a, b) ==
  CHOOSE c \in Path[a] \cap Path[b] :
    \A d \in Path[a] \cap Path[b] : Height[d] <= Height[c]
==============================================================================
