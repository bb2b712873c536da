--------------------------- MODULE BlockTreeProofs ---------------------------
(***************************************************************************)
(* What walking prev_hash meets, for every block tree: a branch is one     *)
(* chain down to the genesis block, with one block at every height, and    *)
(* two branches share exactly what lies below their common ancestor.       *)
(***************************************************************************)
EXTENDS BlockTree, WellFoundedInduction, TLAPS

NatLess == OpToRel(<, Nat)

\* A non-empty set of natural numbers has a least element.
LEMMA LeastExists ==
  ASSUME NEW T \in SUBSET Nat, T # {}
  PROVE  \E n \in T : \A m \in T : n <= m
<1>1. IsWellFoundedOn(NatLess, Nat)
  BY NatLessThanWellFounded DEF NatLess
<1>2. PICK n \in T : \A m \in T : ~ (<<m, n>> \in NatLess)
  BY <1>1, WFMin
<1>3. ASSUME NEW m \in T PROVE n <= m
  <2>1. ~ (<<m, n>> \in NatLess) /\ m \in Nat /\ n \in Nat
    BY <1>2
  <2>2. ~ (m < n)
    BY <2>1 DEF NatLess, OpToRel
  <2> QED BY <2>1, <2>2
<1> QED BY <1>3

\* A set of blocks has a lowest one.
LEMMA LowestExists ==
  ASSUME NEW S \in SUBSET Block, S # {}
  PROVE  \E b \in S : \A d \in S : Height[b] <= Height[d]
<1> DEFINE heights == {Height[b] : b \in S}
<1>1. heights \in SUBSET Nat /\ heights # {}
  BY BlockTreeAssumption
<1>2. PICK h \in heights : \A i \in heights : h <= i
  BY <1>1, LeastExists
<1>3. PICK b \in S : Height[b] = h
  BY <1>2
<1> QED BY <1>2, <1>3

\* What holds of the genesis block and passes from parent to child holds of all:
\* the lowest exception would have none below it.
LEMMA TreeInduction ==
  ASSUME NEW S \in SUBSET Block, Genesis \in S,
         \A b \in Block \ {Genesis} : Parent[b] \in S => b \in S
  PROVE  S = Block
<1> SUFFICES ASSUME Block \ S # {} PROVE FALSE
  OBVIOUS
<1>1. PICK b \in Block \ S : \A d \in Block \ S : Height[b] <= Height[d]
  BY LowestExists
<1>2. /\ b # Genesis /\ Parent[b] \in Block /\ Height[b] = Height[Parent[b]] + 1
      /\ Height[Parent[b]] \in Nat
  BY <1>1, BlockTreeAssumption
<1>3. Parent[b] \notin S
  BY <1>1, <1>2
<1> QED BY <1>1, <1>2, <1>3

-----------------------------------------------------------------------------
(* Branches. *)

\* A branch leads from its block to the genesis block.
LEMMA PathEnds == \A b \in Block : Genesis \in Path[b] /\ b \in Path[b] /\ Path[b] \subseteq Block
<1> DEFINE S == {b \in Block : Genesis \in Path[b] /\ b \in Path[b] /\ Path[b] \subseteq Block}
<1>1. S = Block
  <2>1. Genesis \in S
    BY BlockTreeAssumption
  <2>2. \A b \in Block \ {Genesis} : Parent[b] \in S => b \in S
    BY BlockTreeAssumption
  <2> HIDE DEF S
  <2> QED BY <2>1, <2>2, TreeInduction DEF S
<1> QED BY <1>1

\* A block of the branch has its own branch below it, less work and less height.
Below(b) ==
  \A a \in Path[b] : /\ Path[a] \subseteq Path[b]
                     /\ Height[a] <= Height[b]
                     /\ PathWork[a] <= PathWork[b]
                     /\ Height[a] = Height[b] => a = b

LEMMA PathBelow == \A b \in Block : Below(b)
<1> DEFINE S == {b \in Block : Below(b)}
<1>1. S = Block
  <2>1. Genesis \in S
    BY BlockTreeAssumption DEF Below
  <2>2. ASSUME NEW b \in Block \ {Genesis}, Below(Parent[b]) PROVE Below(b)
    <3>1. /\ Path[b] = Path[Parent[b]] \cup {b} /\ Height[b] = Height[Parent[b]] + 1
          /\ PathWork[b] = PathWork[Parent[b]] + Work[b] /\ Parent[b] \in Block
          /\ Path[Parent[b]] \subseteq Block
      BY BlockTreeAssumption
    <3>2. /\ Height[b] \in Nat /\ Height[Parent[b]] \in Nat /\ Work[b] \in Nat
          /\ PathWork[b] \in Nat /\ PathWork[Parent[b]] \in Nat
          /\ \A a \in Path[b] : Height[a] \in Nat /\ PathWork[a] \in Nat
      BY <3>1, BlockTreeAssumption
    <3> SUFFICES ASSUME NEW a \in Path[b]
                 PROVE  /\ Path[a] \subseteq Path[b] /\ Height[a] <= Height[b]
                        /\ PathWork[a] <= PathWork[b] /\ (Height[a] = Height[b] => a = b)
      BY DEF Below
    <3>3. CASE a = b
      BY <3>2, <3>3
    <3>4. CASE a \in Path[Parent[b]]
      <4>1. /\ Path[a] \subseteq Path[Parent[b]] /\ Height[a] <= Height[Parent[b]]
            /\ PathWork[a] <= PathWork[Parent[b]]
        BY <2>2, <3>4 DEF Below
      <4> QED BY <3>1, <3>2, <4>1
    <3> QED BY <3>1, <3>3, <3>4
  <2>3. \A b \in Block \ {Genesis} : Parent[b] \in S => b \in S
    BY <2>2, BlockTreeAssumption
  <2> HIDE DEF S
  <2> QED BY <2>1, <2>3, TreeInduction DEF S
<1> QED BY <1>1

\* Of two blocks of a branch, the higher one has the other on its own branch.
Chained(b) == \A a, d \in Path[b] : Height[a] <= Height[d] => a \in Path[d]

LEMMA PathChain == \A b \in Block : Chained(b)
<1> DEFINE S == {b \in Block : Chained(b)}
<1>1. S = Block
  <2>1. Genesis \in S
    BY BlockTreeAssumption DEF Chained
  <2>2. ASSUME NEW b \in Block \ {Genesis}, Chained(Parent[b]) PROVE Chained(b)
    <3>1. /\ Path[b] = Path[Parent[b]] \cup {b} /\ Parent[b] \in Block
          /\ Height[b] = Height[Parent[b]] + 1
          /\ Height[Parent[b]] \in Nat /\ Path[Parent[b]] \subseteq Block
      BY BlockTreeAssumption
    <3>2. \A d \in Path[Parent[b]] : ~ (Height[b] <= Height[d])
      BY <3>1, PathBelow, BlockTreeAssumption DEF Below
    <3> QED BY <2>2, <3>1, <3>2 DEF Chained
  <2>3. \A b \in Block \ {Genesis} : Parent[b] \in S => b \in S
    BY <2>2, BlockTreeAssumption
  <2> HIDE DEF S
  <2> QED BY <2>1, <2>3, TreeInduction DEF S
<1> QED BY <1>1

\* A branch has a block at every height up to its own.
Full(b) == \A h \in 0..Height[b] : \E a \in Path[b] : Height[a] = h

LEMMA PathFull == \A b \in Block : Full(b)
<1> DEFINE S == {b \in Block : Full(b)}
<1>1. S = Block
  <2>1. Genesis \in S
    BY BlockTreeAssumption DEF Full
  <2>2. ASSUME NEW b \in Block \ {Genesis}, Full(Parent[b]) PROVE Full(b)
    <3>1. /\ Path[b] = Path[Parent[b]] \cup {b} /\ Parent[b] \in Block
          /\ Height[b] = Height[Parent[b]] + 1 /\ Height[Parent[b]] \in Nat
      BY BlockTreeAssumption
    <3>2. \A h \in 0..Height[b] : h \in 0..Height[Parent[b]] \/ h = Height[b]
      BY <3>1
    <3> QED BY <2>2, <3>1, <3>2 DEF Full
  <2>3. \A b \in Block \ {Genesis} : Parent[b] \in S => b \in S
    BY <2>2, BlockTreeAssumption
  <2> HIDE DEF S
  <2> QED BY <2>1, <2>3, TreeInduction DEF S
<1> QED BY <1>1

\* get_canonical_block_by_height finds the one block of the branch there.
LEMMA BlockAtHeight ==
  ASSUME NEW b \in Block, NEW h \in 0..Height[b]
  PROVE  /\ BlockAt(b, h) \in Path[b] /\ Height[BlockAt(b, h)] = h
         /\ \A a \in Path[b] : Height[a] = h => a = BlockAt(b, h)
<1>1. BlockAt(b, h) \in Path[b] /\ Height[BlockAt(b, h)] = h
  BY PathFull DEF Full, BlockAt
<1>2. ASSUME NEW a \in Path[b], Height[a] = h PROVE a = BlockAt(b, h)
  <2>1. a \in Block /\ BlockAt(b, h) \in Block /\ Height[a] \in Nat
    BY <1>1, <1>2, PathEnds, BlockTreeAssumption
  <2>2. a \in Path[BlockAt(b, h)]
    BY <1>1, <1>2, <2>1, PathChain DEF Chained
  <2> QED BY <1>1, <1>2, <2>1, <2>2, PathBelow DEF Below
<1> QED BY <1>1, <1>2

\* Branches of blocks on one branch agree wherever both have a block.
LEMMA BlockAtBelow ==
  ASSUME NEW b \in Block, NEW a \in Path[b], NEW h \in 0..Height[a]
  PROVE  h \in 0..Height[b] /\ BlockAt(b, h) = BlockAt(a, h)
<1>1. /\ a \in Block /\ Path[a] \subseteq Path[b] /\ Height[a] <= Height[b]
      /\ Height[a] \in Nat /\ Height[b] \in Nat
  BY PathEnds, PathBelow, BlockTreeAssumption DEF Below
<1>2. BlockAt(a, h) \in Path[a] /\ Height[BlockAt(a, h)] = h
  BY <1>1, BlockAtHeight
<1>3. h \in 0..Height[b]
  BY <1>1
<1> QED BY <1>1, <1>2, <1>3, BlockAtHeight

\* What two branches share is the branch of their common ancestor.
LEMMA CommonBranch ==
  ASSUME NEW a \in Block, NEW b \in Block
  PROVE  /\ CommonAncestor(a, b) \in Path[a] \cap Path[b]
         /\ Path[a] \cap Path[b] = Path[CommonAncestor(a, b)]
<1> DEFINE shared == Path[a] \cap Path[b]
           depths == {Height[a] - Height[c] : c \in shared}
           c == CommonAncestor(a, b)
<1>1. /\ shared \subseteq Block /\ Genesis \in shared /\ Height[a] \in Nat
      /\ \A d \in shared : Height[d] \in Nat /\ Height[d] <= Height[a]
  BY PathEnds, PathBelow, BlockTreeAssumption DEF Below
<1>2. depths \in SUBSET Nat /\ depths # {}
  BY <1>1
<1>3. PICK least \in depths : \A i \in depths : least <= i
  BY <1>2, LeastExists
<1>4. PICK top \in shared : least = Height[a] - Height[top]
  BY <1>3
<1>5. ASSUME NEW d \in shared PROVE Height[d] <= Height[top]
  <2>1. Height[a] - Height[d] \in depths
    BY <1>5
  <2>2. Height[a] - Height[top] <= Height[a] - Height[d]
    BY <1>3, <1>4, <2>1
  <2>3. Height[a] \in Nat /\ Height[d] \in Nat /\ Height[top] \in Nat
    BY <1>1, <1>4
  <2> QED BY <2>2, <2>3
<1>6. c \in shared /\ \A d \in shared : Height[d] <= Height[c]
  BY <1>4, <1>5 DEF CommonAncestor
<1>7. Path[c] \subseteq shared
  BY <1>6, PathBelow DEF Below
<1>8. shared \subseteq Path[c]
  BY <1>6, PathChain DEF Chained
<1> QED BY <1>6, <1>7, <1>8

\* A branch is closed under Parent.
LEMMA ParentOnPath ==
  ASSUME NEW b \in Block, NEW a \in Path[b], a # Genesis
  PROVE  a \in Block \ {Genesis} /\ Parent[a] \in Path[b] /\ Path[a] \subseteq Path[b]
<1>1. a \in Block \ {Genesis} /\ Path[a] \subseteq Path[b]
  BY PathEnds, PathBelow DEF Below
<1>2. Parent[a] \in Path[Parent[a]] /\ Path[a] = Path[Parent[a]] \cup {a}
  BY <1>1, PathEnds, BlockTreeAssumption
<1> QED BY <1>1, <1>2

\* A branch is its parent's with one block more.
LEMMA ParentBranch ==
  ASSUME NEW b \in Block \ {Genesis}
  PROVE  /\ Parent[b] \in Block /\ Path[b] = Path[Parent[b]] \cup {b}
         /\ b \notin Path[Parent[b]] /\ Parent[b] \in Path[Parent[b]]
<1>1. /\ Parent[b] \in Block /\ Path[b] = Path[Parent[b]] \cup {b}
      /\ Height[b] = Height[Parent[b]] + 1
      /\ Height[Parent[b]] \in Nat /\ Height[b] \in Nat
  BY BlockTreeAssumption
<1> QED BY <1>1, PathEnds, PathBelow DEF Below

\* Two blocks on each other's branches are one.
LEMMA SameBranch ==
  ASSUME NEW b \in Block, NEW d \in Path[b], b \in Path[d]
  PROVE  d = b
<1>1. /\ d \in Block /\ Height[d] <= Height[b] /\ Height[b] <= Height[d]
      /\ Height[d] \in Nat /\ Height[b] \in Nat
  BY PathEnds, PathBelow, BlockTreeAssumption DEF Below
<1> QED BY <1>1, PathBelow DEF Below
===============================================================================
