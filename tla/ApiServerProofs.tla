--------------------------- MODULE ApiServerProofs ----------------------------
(***************************************************************************)
(* The two parts of the API server.                                        *)
(*                                                                         *)
(* The index, for every block tree, batch size, number of detail tables,   *)
(* failing calls and crashes.  Behind the node of this repository, whose   *)
(* JSON names no hash, no block is missing below the position and none is  *)
(* mixed of two; behind a node that names hashes, an index whose last      *)
(* block is on the node's chain is that chain.                             *)
(*                                                                         *)
(* The order book, for any number of orders on any terms and any capacity  *)
(* of the channel: it stays in order and uncrossed, no order trades more   *)
(* or other than it asks for, the answers tell what happened, and trades   *)
(* go by price and time.  One turn of the matching loop keeps what the     *)
(* walk promises; the loop is an induction over its turns.                 *)
(***************************************************************************)
EXTENDS OrderBook, Indexer, BlockTreeProofs, FiniteSetTheorems, SequenceTheorems

-----------------------------------------------------------------------------
(* Heights. *)

\* No branch is longer than there are blocks: its blocks are one per height.
LEMMA HeightBounded == \A b \in Block : Height[b] \in Nat /\ Height[b] <= Cardinality(Block)
<1> SUFFICES ASSUME NEW b \in Block
             PROVE  Height[b] \in Nat /\ Height[b] <= Cardinality(Block)
  OBVIOUS
<1> DEFINE f == [h \in 0..Height[b] |-> BlockAt(b, h)]
<1>1. Height[b] \in Nat /\ IsFiniteSet(Block) /\ Cardinality(Block) \in Nat
  BY BlockTreeAssumption, FS_CardinalityType
<1>2. f \in Injection(0..Height[b], Block)
  <2>1. \A h \in 0..Height[b] : BlockAt(b, h) \in Block /\ Height[BlockAt(b, h)] = h
    BY BlockAtHeight, PathEnds
  <2> QED BY <2>1 DEF Injection, IsInjective
<1>3. Cardinality(0..Height[b]) <= Cardinality(Block)
  BY <1>1, <1>2, FS_Injection
<1>4. Cardinality(0..Height[b]) = Height[b] + 1
  BY <1>1, FS_Interval
<1> QED BY <1>1, <1>3, <1>4

\* A bounded set of numbers has the greatest element Max chooses.
LEMMA MaxIsGreatest ==
  ASSUME NEW top \in Nat, NEW S \in SUBSET (0..top), S # {}
  PROVE  Max(S) \in S /\ \A x \in S : x <= Max(S)
<1> DEFINE depths == {top - x : x \in S}
<1>1. depths \in SUBSET Nat /\ depths # {}
  <2>1. \A x \in S : top - x \in Nat
    OBVIOUS
  <2>2. PICK x \in S : TRUE
    OBVIOUS
  <2>3. top - x \in depths
    BY <2>2
  <2> QED BY <2>1, <2>3
<1>2. PICK least \in depths : \A d \in depths : least <= d
  BY <1>1, LeastExists
<1>3. PICK m \in S : least = top - m
  BY <1>2
<1>4. ASSUME NEW x \in S PROVE m >= x
  <2>1. top - m <= top - x /\ m \in Nat /\ x \in Nat
    BY <1>2, <1>3
  <2> QED BY <2>1
<1>5. Max(S) \in S /\ \A x \in S : Max(S) >= x
  BY <1>3, <1>4 DEF Max
<1> QED BY <1>5

\* The tables reach as high as any block.
LEMMA HeightsKnown ==
  \E top \in Nat : Heights = 1..top /\ \A b \in Block : Height[b] <= top
<1> DEFINE S == {Height[b] : b \in Block}
<1>1. Cardinality(Block) \in Nat /\ S \in SUBSET (0..Cardinality(Block)) /\ S # {}
  BY BlockTreeAssumption, HeightBounded, FS_CardinalityType
<1>2. Max(S) \in S /\ \A x \in S : x <= Max(S)
  BY <1>1, MaxIsGreatest
<1>3. Heights = 1..Max(S) /\ Max(S) \in Nat /\ \A b \in Block : Height[b] <= Max(S)
  BY <1>1, <1>2 DEF Heights
<1> QED BY <1>3

LEMMA MinOfTwo ==
  ASSUME NEW a \in Nat, NEW b \in Nat
  PROVE  Min({a, b}) \in {a, b} /\ Min({a, b}) <= a /\ Min({a, b}) <= b
<1>1. \E x \in {a, b} : \A y \in {a, b} : x <= y
  OBVIOUS
<1>2. Min({a, b}) \in {a, b} /\ \A y \in {a, b} : Min({a, b}) <= y
  BY <1>1 DEF Min
<1> QED BY <1>2

\* The block before one above the genesis block is one lower, on the same branch.
LEMMA ParentBelow ==
  ASSUME NEW t \in Block, NEW b \in Path[t], Height[b] # 0
  PROVE  /\ b \in Block /\ b # Genesis
         /\ Parent[b] \in Path[t] /\ Parent[b] \in Path[b] /\ Parent[b] \in Block
         /\ Height[Parent[b]] = Height[b] - 1 /\ Height[Parent[b]] \in Nat
<1>1. b \in Block /\ Path[b] \subseteq Path[t] /\ b # Genesis
  BY PathEnds, PathBelow, BlockTreeAssumption DEF Below
<1>2. Parent[b] \in Block /\ Height[b] = Height[Parent[b]] + 1 /\ Height[Parent[b]] \in Nat
  BY <1>1, BlockTreeAssumption
<1>3. Parent[b] \in Path[b]
  BY <1>1, <1>2, PathEnds, BlockTreeAssumption
<1> QED BY <1>1, <1>2, <1>3

\* Two blocks of a branch at one height are one.
LEMMA OnePerHeight ==
  ASSUME NEW t \in Block, NEW a \in Path[t], NEW b \in Path[t], Height[a] = Height[b]
  PROVE  a = b
<1>1. a \in Block /\ b \in Block /\ Height[a] \in Nat /\ a \in Path[b]
  BY PathEnds, PathChain, BlockTreeAssumption DEF Chained
<1> QED BY <1>1, PathBelow DEF Below

-----------------------------------------------------------------------------
(* The invariant. *)

Types == TypeOK /\ end \in Heights \cup {0}

Batching == at \in {"fetch", "upsert", "clear", "insert"}
Working == at \in {"upsert", "clear", "insert"}
Undoing == at \in {"unindex", "unrow"}

\* What has been written of the block in hand.
InHand ==
  /\ Working => blk \in Block /\ Height[blk] = next
  /\ at \in {"clear", "insert"} => rows[next] = blk
  /\ at = "insert" => \A i \in 1..done : parts[next][Detail[i]] = blk

RowsPlaced == \A h \in Heights : rows[h] # None => Height[rows[h]] = h

WholeTo(n) == \A h \in 1..n : Whole(h)

\* Behind this repository's node nothing is ever rolled back, and the saved
\* position is no higher than what is whole.
Nameless ==
  ~named =>
    /\ sync.hash = None /\ saved.hash = None /\ ~Undoing
    /\ ~forgot => /\ WholeTo(sync.height)
                  /\ at = "load" => WholeTo(saved.height)
                  /\ at # "load" => saved.height <= sync.height

\* Blocks the chain has left weigh less than it: it can come back to them by a
\* reorganization only.
LeftLighter == \A b \in left : PathWork[b] < PathWork[tip]

Once == Path[tip] \cup left

\* The index is the branch of b.
IndexIs(b) == \A h \in 1..Height[b] : Whole(h) /\ rows[h] = BlockAt(b, h)

\* Behind a node that names hashes, before any crash: the position is that of a
\* block that was on the chain once, and a rollback goes down to the genesis block.
Named ==
  named /\ crashes = 0 =>
    /\ at = "load" => saved = Default /\ sync = Default
    /\ sync.hash = None => sync.height = 0
    /\ sync.hash # None => /\ sync.height # 0 /\ Height[sync.hash] = sync.height
                           /\ rows[sync.height] \in {sync.hash, None}
                           /\ sync.hash \in Once
    /\ Working => blk \in Once /\ (sync.hash # None => Parent[blk] = sync.hash)
    /\ Undoing => fork = 0

\* While the node's chain has come back to nothing it had left, only what it has
\* left is rolled back.
Tame ==
  ~wild =>
    /\ left \cap Path[tip] = {} /\ end <= Height[tip]
    /\ named /\ crashes = 0 =>
         /\ Undoing => sync.hash \in left
         /\ sync.hash # None /\ sync.hash \notin left => IndexIs(sync.hash)

IndexInv == Types /\ InHand /\ RowsPlaced /\ Nameless /\ LeftLighter /\ Named /\ Tame

\* Heights at which nothing changes stay whole.
LEMMA WholeKept ==
  ASSUME NEW h, rows'[h] = rows[h], parts'[h] = parts[h]
  PROVE  Whole(h)' = Whole(h)
BY DEF Whole

LEMMA IndexInit == Init => IndexInv
<1> SUFFICES ASSUME Init PROVE IndexInv
  OBVIOUS
<1>1. PICK top \in Nat : Heights = 1..top /\ \A b \in Block : Height[b] <= top
  BY HeightsKnown
<1>2. Types
  <2>1. Default \in Position /\ 0 \in 0..Len(Detail) /\ 0 \in 0..MaxErrors /\ 0 \in 0..MaxCrashes
    BY IndexerAssumption DEF Default, Position
  <2>2. /\ rows \in [Heights -> Block \cup {None}] /\ parts \in [Heights -> [Tables -> Block \cup {None}]]
        /\ tip \in Block
    BY BlockTreeAssumption DEF Init, Blank
  <2> QED BY <2>1, <2>2 DEF Init, Types, TypeOK
<1>3. InHand /\ RowsPlaced /\ Nameless /\ LeftLighter /\ Named
  BY <1>1 DEF Init, InHand, RowsPlaced, Nameless, LeftLighter, Named, Working, Undoing, Default,
              WholeTo
<1>4. Tame
  BY BlockTreeAssumption DEF Init, Tame, Undoing, Default
<1> QED BY <1>2, <1>3, <1>4 DEF IndexInv

-----------------------------------------------------------------------------
(* The node. *)

LEMMA ExtendStep == ASSUME IndexInv, NEW b \in Block, Extend(b) PROVE IndexInv'
<1>1. /\ tip \in Block /\ b # Genesis /\ Parent[b] = tip /\ tip' = b
      /\ UNCHANGED <<named, left, wild, tables, saved, sync, loop, errors, crashes, forgot>>
  BY DEF Extend, IndexInv, Types, TypeOK
<1>2. /\ Path[b] = Path[tip] \cup {b} /\ Height[b] = Height[tip] + 1 /\ Height[tip] \in Nat
      /\ PathWork[tip] \in Nat /\ PathWork[b] \in Nat /\ PathWork[b] >= PathWork[tip]
  BY <1>1, BlockTreeAssumption
<1>3. left \subseteq Block /\ b \notin left /\ \A x \in left : PathWork[x] \in Nat
  BY <1>2, BlockTreeAssumption DEF IndexInv, Types, TypeOK, LeftLighter
<1>4. Types'
  BY <1>1 DEF IndexInv, Types, TypeOK, tables, loop, Position
<1>5. InHand' /\ RowsPlaced' /\ Nameless'
  BY <1>1 DEF IndexInv, InHand, RowsPlaced, Nameless, Working, Undoing, WholeTo, Whole, tables, loop
<1>6. LeftLighter'
  BY <1>1, <1>2, <1>3 DEF IndexInv, LeftLighter
<1>7. Named'
  BY <1>1, <1>2 DEF IndexInv, Named, Working, Undoing, Once, tables, loop
<1>8. Tame'
  <2>1. end \in Nat
    BY HeightsKnown DEF IndexInv, Types
  <2> QED BY <1>1, <1>2, <1>3, <2>1 DEF IndexInv, Tame, Undoing, IndexIs, Whole, tables, loop
<1> QED BY <1>4, <1>5, <1>6, <1>7, <1>8 DEF IndexInv

LEMMA SwitchStep == ASSUME IndexInv, NEW b \in Block, Switch(b) PROVE IndexInv'
<1>1. /\ tip \in Block /\ PathWork[b] > PathWork[tip] /\ tip' = b
      /\ left' = left \cup (Path[tip] \ Path[b])
      /\ wild' = (wild \/ Path[b] \cap left # {} \/ Height[b] < end)
      /\ UNCHANGED <<named, tables, saved, sync, loop, errors, crashes, forgot>>
  BY DEF Switch, IndexInv, Types, TypeOK
<1>2. /\ PathWork[tip] \in Nat /\ PathWork[b] \in Nat /\ Height[b] \in Nat /\ Path[tip] \subseteq Block
      /\ left \subseteq Block /\ \A x \in Block : PathWork[x] \in Nat
      /\ \A x \in Path[tip] : PathWork[x] <= PathWork[tip]
  BY <1>1, BlockTreeAssumption, PathEnds, PathBelow DEF Below, IndexInv, Types, TypeOK
<1>3. end \in Nat
  BY HeightsKnown DEF IndexInv, Types
<1>4. Types'
  BY <1>1, <1>2 DEF IndexInv, Types, TypeOK, tables, loop, Position
<1>5. InHand' /\ RowsPlaced' /\ Nameless'
  BY <1>1 DEF IndexInv, InHand, RowsPlaced, Nameless, Working, Undoing, WholeTo, Whole, tables, loop
<1>6. LeftLighter'
  <2>1. ASSUME NEW x \in left' PROVE PathWork[x] < PathWork[b]
    <3>1. x \in Block /\ PathWork[x] \in Nat /\ PathWork[x] <= PathWork[tip]
      BY <1>1, <1>2 DEF IndexInv, LeftLighter
    <3> QED BY <1>1, <1>2, <3>1
  <2> QED BY <1>1, <2>1 DEF LeftLighter
<1>7. Named'
  BY <1>1 DEF IndexInv, Named, Working, Undoing, Once, tables, loop
<1>8. Tame'
  <2> SUFFICES ASSUME ~wild' PROVE Tame'
    BY DEF Tame
  <2>1. ~wild /\ Path[b] \cap left = {} /\ ~ (Height[b] < end)
    <3>1. wild' = (wild \/ Path[b] \cap left # {} \/ Height[b] < end)
      BY <1>1
    <3> QED BY <3>1, Zenon
  <2>2. left' \cap Path[b] = {} /\ end' <= Height[b]
    BY <1>1, <1>2, <1>3, <2>1 DEF loop
  <2> QED BY <1>1, <2>1, <2>2 DEF IndexInv, Tame, Undoing, IndexIs, Whole, tables, loop
<1> QED BY <1>4, <1>5, <1>6, <1>7, <1>8 DEF IndexInv

-----------------------------------------------------------------------------
(* The loop. *)

LEMMA ErrorsBounded ==
  ASSUME Types, Fail \/ UNCHANGED errors PROVE errors' \in 0..MaxErrors
BY IndexerAssumption DEF Types, TypeOK, Fail

\* The height in hand is a height of the tables, right above the position.
LEMMA NextKnown ==
  ASSUME Types, Batching
  PROVE  /\ next \in Heights /\ next \in Nat /\ next = sync.height + 1 /\ sync.height \in Nat
         /\ next <= end /\ end \in Nat
         /\ \A h \in 1..sync.height : h \in Heights /\ h # next
<1>1. PICK top \in Nat : Heights = 1..top
  BY HeightsKnown
<1> QED BY <1>1 DEF Types, TypeOK, Batching, Position

LEMMA LoadStep == ASSUME IndexInv, Load PROVE IndexInv'
<1>1. /\ at = "load" /\ at' = "poll" /\ UNCHANGED <<next, end, blk, fork, done>>
      /\ UNCHANGED <<node, tables, saved, crashes>>
      /\ \/ sync' = saved /\ UNCHANGED <<errors, forgot>>
         \/ sync' = Default /\ Fail /\ forgot' = (forgot \/ saved.height > 0)
  BY DEF Load, GoTo
<1>2. /\ Types /\ errors' \in 0..MaxErrors /\ Default \in Position /\ saved \in Position
      /\ saved.height \in Nat
  <2>1. PICK top \in Nat : Heights = 1..top
    BY HeightsKnown
  <2> QED BY <1>1, <2>1, ErrorsBounded, IndexerAssumption
          DEF IndexInv, Types, TypeOK, Default, Position
<1>3. Types'
  BY <1>1, <1>2 DEF Types, TypeOK, node, tables
<1>4. InHand' /\ RowsPlaced' /\ LeftLighter'
  BY <1>1 DEF IndexInv, InHand, RowsPlaced, LeftLighter, Working, node, tables
<1>5. Nameless'
  <2> SUFFICES ASSUME ~named' PROVE Nameless'
    BY DEF Nameless
  <2>1. ~named /\ saved' = saved /\ sync'.hash = None /\ saved.hash = None
    BY <1>1 DEF IndexInv, Nameless, node, Default
  <2>2. CASE sync' = saved /\ UNCHANGED <<errors, forgot>>
    BY <1>1, <1>2, <2>1, <2>2 DEF IndexInv, Nameless, Undoing, WholeTo, Whole, tables
  <2>3. CASE sync' = Default /\ Fail /\ forgot' = (forgot \/ saved.height > 0)
    <3>1. CASE forgot'
      BY <1>1, <2>1, <3>1 DEF Nameless, Undoing
    <3>2. CASE ~forgot'
      <4>1. ~ (saved.height > 0)
        <5>1. forgot' = (forgot \/ saved.height > 0)
          BY <2>3
        <5> QED BY <3>2, <5>1, Zenon
      <4>2. saved'.height <= sync'.height /\ sync'.height = 0
        BY <1>2, <2>1, <2>3, <4>1 DEF Default
      <4>3. WholeTo(sync.height)'
        BY <4>2 DEF WholeTo
      <4> QED BY <1>1, <2>1, <4>2, <4>3 DEF Nameless, Undoing
    <3> QED BY <3>1, <3>2
  <2> QED BY <1>1, <2>2, <2>3
<1>6. Named' /\ Tame'
  <2>1. named /\ crashes = 0 => sync' = Default
    BY <1>1 DEF IndexInv, Named
  <2> QED BY <1>1, <2>1 DEF IndexInv, Named, Tame, Working, Undoing, Default, node, tables
<1> QED BY <1>3, <1>4, <1>5, <1>6 DEF IndexInv

LEMMA PollStep == ASSUME IndexInv, Poll PROVE IndexInv'
<1> DEFINE from == IF Ahead THEN Default ELSE sync
           round == BatchAfter(from.height)
<1>1. PICK top \in Nat : Heights = 1..top /\ \A b \in Block : Height[b] <= top
  BY HeightsKnown
<1>2. /\ at = "poll" /\ sync' = from /\ UNCHANGED <<node, tables, crashes, blk, fork, done>>
      /\ \/ Ahead /\ saved' = Default /\ UNCHANGED <<errors, forgot>>
         \/ Ahead /\ Fail /\ forgot' = TRUE /\ UNCHANGED saved
         \/ ~Ahead /\ UNCHANGED <<saved, errors, forgot>>
      /\ \/ Safe <= from.height /\ UNCHANGED loop
         \/ ~ (Safe <= from.height) /\ at' = "fetch" /\ next' = round.first /\ end' = round.last
  BY DEF Poll, loop
<1>3. /\ Types /\ errors' \in 0..MaxErrors /\ Default \in Position /\ from \in Position
      /\ saved' \in Position /\ from.height \in Nat
  BY <1>1, <1>2, ErrorsBounded, IndexerAssumption DEF IndexInv, Types, TypeOK, Default, Position
<1>4. /\ Safe \in Nat /\ Safe <= Height[tip] /\ Height[tip] \in Nat /\ Height[tip] <= top
      /\ Batch \in Nat /\ Batch >= 1
  BY <1>1, <1>3, IndexerAssumption, BlockTreeAssumption DEF Safe, Types, TypeOK
<1>5. CASE UNCHANGED loop
  <2>1. Types'
    BY <1>2, <1>3, <1>5 DEF Types, TypeOK, node, tables, loop
  <2>2. InHand' /\ RowsPlaced' /\ LeftLighter'
    BY <1>2, <1>5 DEF IndexInv, InHand, RowsPlaced, LeftLighter, Working, node, tables, loop
  <2>3. Nameless'
    BY <1>2, <1>3, <1>5
       DEF IndexInv, Nameless, Undoing, WholeTo, Whole, Default, node, tables, loop
  <2>4. Named' /\ Tame'
    BY <1>2, <1>5
       DEF IndexInv, Named, Tame, Working, Undoing, Once, IndexIs, Whole, Default, node, tables, loop
  <2> QED BY <2>1, <2>2, <2>3, <2>4 DEF IndexInv
<1>6. CASE ~ (Safe <= from.height) /\ at' = "fetch" /\ next' = round.first /\ end' = round.last
  <2>1. /\ next' = from.height + 1 /\ end' \in {Safe, from.height + Batch}
        /\ end' <= Safe /\ end' \in Nat
    <3>1. from.height + Batch \in Nat
      BY <1>3, <1>4
    <3> HIDE DEF from
    <3> QED BY <1>3, <1>4, <1>6, <3>1, MinOfTwo DEF BatchAfter
  <2>2. next' \in 1..end' /\ end' \in Heights
    <3> HIDE DEF from
    <3> QED BY <1>1, <1>3, <1>4, <1>6, <2>1
  <2>3. Types'
    BY <1>2, <1>3, <1>6, <2>1, <2>2 DEF Types, TypeOK, node, tables
  <2>4. InHand' /\ RowsPlaced' /\ LeftLighter'
    BY <1>2, <1>6 DEF IndexInv, InHand, RowsPlaced, LeftLighter, Working, node, tables
  <2>5. Nameless'
    BY <1>2, <1>3, <1>6
       DEF IndexInv, Nameless, Undoing, WholeTo, Whole, Default, node, tables
  <2>6. Named'
    BY <1>2, <1>6
       DEF IndexInv, Named, Working, Undoing, Once, Default, node, tables
  <2>7. Tame'
    <3>1. end' <= Height[tip]
      BY <1>4, <2>1
    <3> QED BY <1>2, <1>6, <3>1 DEF IndexInv, Tame, Undoing, IndexIs, Whole, Default, node, tables
  <2> QED BY <2>3, <2>4, <2>5, <2>6, <2>7 DEF IndexInv
<1> QED BY <1>2, <1>5, <1>6

\* The node answers with the block of its chain at that height, or with none.
LEMMA AnswerKnown ==
  ASSUME Types, at = "fetch", NEW b, b = Answer(next)
  PROVE  \/ b = None /\ next > Height[tip]
         \/ /\ next <= Height[tip] /\ b \in Path[tip] /\ b \in Block /\ b # None /\ Height[b] = next
            /\ Parent[b] \in Path[tip] /\ Parent[b] \in Block
            /\ Height[Parent[b]] = sync.height
<1>1. next \in Nat /\ next = sync.height + 1 /\ sync.height \in Nat
  BY NextKnown DEF Batching
<1>2. tip \in Block /\ Height[tip] \in Nat
  BY BlockTreeAssumption DEF Types, TypeOK
<1>3. CASE next > Height[tip]
  BY <1>3 DEF Answer
<1>4. CASE ~ (next > Height[tip])
  <2>1. next \in 0..Height[tip] /\ b = BlockAt(tip, next)
    BY <1>1, <1>2, <1>4 DEF Answer
  <2>2. b \in Path[tip] /\ Height[b] = next
    BY <1>2, <2>1, BlockAtHeight
  <2>3. /\ b \in Block /\ Parent[b] \in Path[tip] /\ Parent[b] \in Block
        /\ Height[Parent[b]] = next - 1
    BY <1>1, <1>2, <2>2, ParentBelow
  <2> QED BY <1>1, <2>1, <2>2, <2>3, IndexerAssumption
<1> QED BY <1>3, <1>4

\* find_fork_height finds a row with the hash, or none.
LEMMA ForkKnown ==
  ASSUME NEW hash
  PROVE  /\ ForkHeight(hash) \in Heights \cup {0}
         /\ ForkHeight(hash) # 0 => /\ hash # None /\ ForkHeight(hash) \in Heights
                                    /\ rows[ForkHeight(hash)] = hash
<1>1. PICK top \in Nat : Heights = 1..top
  BY HeightsKnown
<1> DEFINE S == {0} \cup {h \in Heights : hash # None /\ rows[h] = hash}
<1>2. S \in SUBSET (0..top) /\ S # {}
  BY <1>1
<1>3. Max(S) \in S
  BY <1>2, MaxIsGreatest
<1>4. ForkHeight(hash) = Max(S)
  BY DEF ForkHeight
<1> HIDE DEF ForkHeight
<1> QED BY <1>1, <1>3, <1>4

\* A position that does not fit the node's answer is of a block the chain has
\* left, and no row of the index has the hash looked up.
LEMMA MismatchMeans ==
  ASSUME IndexInv, at = "fetch", NEW b, b = Answer(next), Mismatch(b), named, crashes = 0
  PROVE  ForkHeight(ParentHash(b)) = 0 /\ (~wild => sync.hash \in left)
<1> DEFINE p == ParentHash(b)
           f == ForkHeight(p)
<1>1. sync.hash # None /\ p # sync.hash
  BY DEF Mismatch
<1>2. /\ Height[sync.hash] = sync.height /\ rows[sync.height] \in {sync.hash, None}
      /\ sync.hash \in Once
  BY <1>1 DEF IndexInv, Named
<1>3. /\ next \in Nat /\ next <= end /\ end \in Nat /\ tip \in Block /\ Height[tip] \in Nat
  BY NextKnown, BlockTreeAssumption DEF IndexInv, Types, TypeOK, Batching
<1>4. \/ b = None /\ next > Height[tip]
      \/ /\ next <= Height[tip] /\ b \in Block /\ b # None
         /\ Parent[b] \in Path[tip] /\ Parent[b] \in Block /\ Height[Parent[b]] = sync.height
  BY AnswerKnown DEF IndexInv
<1>5. f = 0
  <2> SUFFICES ASSUME f # 0 PROVE FALSE
    OBVIOUS
  <2> HIDE DEF f, p
  <2>1. p # None /\ f \in Heights /\ rows[f] = p
    BY ForkKnown DEF f
  <2>2. p = Parent[b] /\ Height[p] = sync.height
    BY <1>4, <2>1 DEF p, ParentHash
  <2>3. Height[p] = f
    BY <2>1 DEF IndexInv, RowsPlaced
  <2> QED BY <1>1, <1>2, <2>1, <2>2, <2>3
<1>6. ASSUME ~wild PROVE sync.hash \in left
  <2> SUFFICES ASSUME sync.hash \in Path[tip] PROVE FALSE
    BY <1>2 DEF Once
  <2>1. end <= Height[tip]
    BY <1>6 DEF IndexInv, Tame
  <2>2. Parent[b] \in Path[tip] /\ Height[Parent[b]] = Height[sync.hash] /\ b # None
    BY <1>2, <1>3, <1>4, <2>1
  <2>3. Parent[b] = sync.hash
    BY <1>3, <2>2, OnePerHeight
  <2> QED BY <1>1, <2>2, <2>3 DEF ParentHash
<1> QED BY <1>5, <1>6

LEMMA FetchStep == ASSUME IndexInv, Fetch PROVE IndexInv'
<1>1. /\ at = "fetch" /\ Types /\ UNCHANGED <<node, tables, saved, sync, crashes, forgot, next, end, done>>
      /\ Fail \/ UNCHANGED errors
  BY DEF Fetch, GiveUp, IndexInv
<1>2. errors' \in 0..MaxErrors
  BY <1>1, ErrorsBounded
<1>3. PICK b : b = Answer(next)
  OBVIOUS
<1>4. \/ at' = "save" /\ UNCHANGED <<blk, fork>>
      \/ Mismatch(b) /\ at' = "unindex" /\ fork' = ForkHeight(ParentHash(b)) /\ UNCHANGED blk
      \/ ~Mismatch(b) /\ b # None /\ at' = "upsert" /\ blk' = b /\ UNCHANGED fork
  BY <1>3 DEF Fetch, GiveUp
<1>5. RowsPlaced' /\ LeftLighter'
  BY <1>1 DEF IndexInv, RowsPlaced, LeftLighter, node, tables
<1>6. CASE at' = "save" /\ UNCHANGED <<blk, fork>>
  <2>1. Types' /\ InHand'
    BY <1>1, <1>2, <1>6 DEF Types, TypeOK, InHand, Working, node, tables
  <2>2. Nameless'
    BY <1>1, <1>6 DEF IndexInv, Nameless, Undoing, WholeTo, Whole, node, tables
  <2>3. Named' /\ Tame'
    BY <1>1, <1>6 DEF IndexInv, Named, Tame, Working, Undoing, Once, IndexIs, Whole, node, tables
  <2> QED BY <1>5, <2>1, <2>2, <2>3 DEF IndexInv
<1>7. CASE Mismatch(b) /\ at' = "unindex" /\ fork' = ForkHeight(ParentHash(b)) /\ UNCHANGED blk
  <2>1. fork' \in Heights \cup {0}
    BY <1>7, ForkKnown
  <2>2. Types' /\ InHand'
    BY <1>1, <1>2, <1>7, <2>1 DEF Types, TypeOK, InHand, Working, node, tables
  <2>3. Nameless'
    BY <1>1, <1>7 DEF IndexInv, Nameless, Mismatch, node
  <2>4. named /\ crashes = 0 => fork' = 0 /\ (~wild => sync.hash \in left)
    BY <1>1, <1>3, <1>7, MismatchMeans
  <2>5. Named' /\ Tame'
    BY <1>1, <1>7, <2>4
       DEF IndexInv, Named, Tame, Working, Undoing, Once, IndexIs, Whole, node, tables
  <2> QED BY <1>5, <2>2, <2>3, <2>5 DEF IndexInv
<1>8. CASE ~Mismatch(b) /\ b # None /\ at' = "upsert" /\ blk' = b /\ UNCHANGED fork
  <2>1. b \in Path[tip] /\ b \in Block /\ Height[b] = next
    BY <1>1, <1>3, <1>8, AnswerKnown
  <2>2. Types' /\ InHand'
    BY <1>1, <1>2, <1>8, <2>1 DEF Types, TypeOK, InHand, Working, node, tables
  <2>3. Nameless'
    BY <1>1, <1>8 DEF IndexInv, Nameless, Undoing, WholeTo, Whole, node, tables
  <2>4. sync.hash # None => Parent[b] = sync.hash
    BY <1>8 DEF Mismatch, ParentHash
  <2>5. Named' /\ Tame'
    BY <1>1, <1>8, <2>1, <2>4
       DEF IndexInv, Named, Tame, Working, Undoing, Once, IndexIs, Whole, node, tables
  <2> QED BY <1>5, <2>2, <2>3, <2>5 DEF IndexInv
<1> QED BY <1>4, <1>6, <1>7, <1>8

-----------------------------------------------------------------------------
(* process_block. *)

\* A call that writes the row or details of the block in hand, or fails.
LEMMA TableStep ==
  ASSUME IndexInv, Working,
         UNCHANGED <<node, saved, sync, crashes, forgot, next, end, blk, fork>>,
         rows' \in [Heights -> Block \cup {None}],
         parts' \in [Heights -> [Tables -> Block \cup {None}]],
         rows'[next] \in {rows[next], blk},
         \A h \in Heights \ {next} : rows'[h] = rows[h] /\ parts'[h] = parts[h],
         at' \in {"upsert", "clear", "insert", "save"},
         done' \in 0..Len(Detail), Fail \/ UNCHANGED errors, InHand'
  PROVE  IndexInv'
<1>1. Types /\ errors' \in 0..MaxErrors
  BY ErrorsBounded DEF IndexInv
<1>2. /\ next \in Heights /\ next = sync.height + 1 /\ sync.height \in Nat
      /\ \A h \in 1..sync.height : h \in Heights /\ h # next
  BY <1>1, NextKnown DEF Batching, Working
<1>3. Types'
  BY <1>1 DEF Types, TypeOK, Working, node
<1>4. RowsPlaced'
  BY DEF IndexInv, RowsPlaced, InHand
<1>5. LeftLighter'
  BY DEF IndexInv, LeftLighter, node
<1>6. \A h \in 1..sync.height : rows'[h] = rows[h] /\ Whole(h)' = Whole(h)
  BY <1>2, WholeKept
<1>7. Nameless'
  BY <1>2, <1>6 DEF IndexInv, Nameless, Undoing, WholeTo, Working, node
<1>8. Named'
  <2>1. sync.hash # None /\ named /\ crashes = 0 => rows'[sync.height] = rows[sync.height]
    BY <1>2, <1>6 DEF IndexInv, Named
  <2> QED BY <2>1 DEF IndexInv, Named, Working, Undoing, Once, node
<1>9. Tame'
  <2> SUFFICES ASSUME ~wild' PROVE Tame'
    BY DEF Tame
  <2>1. ASSUME named, crashes = 0, sync.hash # None, sync.hash \notin left
        PROVE  IndexIs(sync.hash)'
    <3>1. IndexIs(sync.hash) /\ Height[sync.hash] = sync.height
      BY <2>1 DEF IndexInv, Tame, Named, node
    <3>2. \A h \in 1..Height[sync.hash] : Whole(h)' /\ rows'[h] = BlockAt(sync.hash, h)
      BY <1>6, <3>1 DEF IndexIs
    <3> QED BY <3>2 DEF IndexIs
  <2> QED BY <2>1 DEF IndexInv, Tame, Undoing, node
<1> QED BY <1>3, <1>4, <1>5, <1>7, <1>8, <1>9 DEF IndexInv

LEMMA UpsertStep == ASSUME IndexInv, Upsert PROVE IndexInv'
<1>1. /\ at = "upsert" /\ Types /\ Working /\ blk \in Block /\ Height[blk] = next
      /\ UNCHANGED <<node, parts, saved, sync, crashes, forgot, next, end, blk, fork, done>>
      /\ \/ at' = "clear" /\ rows' = [rows EXCEPT ![next] = blk]
         \/ at' = "save"
      /\ rows' \in {rows, [rows EXCEPT ![next] = blk]}
      /\ Fail \/ UNCHANGED errors
  BY DEF Upsert, GoTo, GiveUp, IndexInv, InHand, Working
<1>2. next \in Heights /\ rows \in [Heights -> Block \cup {None}] /\ done \in 0..Len(Detail)
  BY <1>1, NextKnown DEF Types, TypeOK, Batching
<1>3. /\ rows' \in [Heights -> Block \cup {None}] /\ rows'[next] \in {rows[next], blk}
      /\ \A h \in Heights \ {next} : rows'[h] = rows[h]
  BY <1>1, <1>2
<1>4. InHand'
  BY <1>1, <1>2 DEF InHand, Working
<1> QED BY <1>1, <1>2, <1>3, <1>4, TableStep DEF Types, TypeOK

LEMMA ClearStep == ASSUME IndexInv, Clear PROVE IndexInv'
<1>1. /\ at = "clear" /\ Types /\ Working /\ rows[next] = blk
      /\ UNCHANGED <<node, rows, saved, sync, crashes, forgot, next, end, blk, fork>>
      /\ Fail \/ UNCHANGED errors
      /\ \/ at' = "insert" /\ done' = 0
         \/ at' = "save" /\ done' = done
  BY DEF Clear, GiveUp, IndexInv, InHand, Working
<1>2. PICK ts : parts' = Cleared({next}, ts)
  BY DEF Clear
<1>3. /\ parts' \in [Heights -> [Tables -> Block \cup {None}]]
      /\ \A h \in Heights \ {next} : parts'[h] = parts[h]
  <2>1. parts \in [Heights -> [Tables -> Block \cup {None}]]
    BY <1>1 DEF Types, TypeOK
  <2> QED BY <1>2, <2>1 DEF Cleared
<1>4. done' \in 0..Len(Detail)
  BY <1>1, IndexerAssumption DEF Types, TypeOK
<1>5. InHand'
  BY <1>1 DEF IndexInv, InHand, Working
<1> QED BY <1>1, <1>3, <1>4, <1>5, TableStep DEF Types, TypeOK

LEMMA InsertStep == ASSUME IndexInv, Insert PROVE IndexInv'
<1> DEFINE filled == [parts EXCEPT ![next][Detail[done + 1]] = blk]
<1>1. /\ at = "insert" /\ Types /\ Working /\ done < Len(Detail)
      /\ blk \in Block /\ Height[blk] = next /\ rows[next] = blk
      /\ \A i \in 1..done : parts[next][Detail[i]] = blk
      /\ UNCHANGED <<node, rows, saved, sync, crashes, forgot, next, end, blk, fork>>
      /\ Fail \/ UNCHANGED errors
      /\ \/ parts' = filled /\ done' = done + 1 /\ at' = "insert"
         \/ parts' \in {parts, filled} /\ done' = done /\ at' = "save"
  BY DEF Insert, GiveUp, IndexInv, InHand, Working
<1>2. /\ next \in Heights /\ parts \in [Heights -> [Tables -> Block \cup {None}]]
      /\ done \in Nat /\ Len(Detail) \in Nat
      /\ \A i \in 1..Len(Detail) : Detail[i] \in Tables
  <2>1. Len(Detail) \in Nat /\ DOMAIN Detail = 1..Len(Detail)
    BY IndexerAssumption
  <2>2. \A i \in 1..Len(Detail) : Detail[i] \in Tables
    BY <2>1 DEF Tables
  <2> QED BY <1>1, <2>1, <2>2, NextKnown DEF Types, TypeOK, Batching
<1>3. Detail[done + 1] \in Tables
  BY <1>1, <1>2
<1>4. /\ filled \in [Heights -> [Tables -> Block \cup {None}]]
      /\ \A h \in Heights \ {next} : filled[h] = parts[h]
      /\ \A t \in Tables : filled[next][t] = IF t = Detail[done + 1] THEN blk ELSE parts[next][t]
  BY <1>1, <1>2, <1>3
<1> HIDE DEF filled
<1>5. /\ parts' \in [Heights -> [Tables -> Block \cup {None}]]
      /\ \A h \in Heights \ {next} : parts'[h] = parts[h]
  BY <1>1, <1>2, <1>4
<1>6. done' \in 0..Len(Detail)
  BY <1>1, <1>2
<1>7. InHand'
  <2>1. CASE at' = "save"
    BY <2>1 DEF InHand, Working
  <2>2. CASE parts' = filled /\ done' = done + 1 /\ at' = "insert"
    <3>1. \A i \in 1..(done + 1) : filled[next][Detail[i]] = blk
      BY <1>1, <1>2, <1>4
    <3> QED BY <1>1, <2>2, <3>1 DEF InHand, Working
  <2> QED BY <1>1, <2>1, <2>2
<1> QED BY <1>1, <1>5, <1>6, <1>7, TableStep DEF Types, TypeOK

\* With all details in their tables the block is whole, and on top of the branch
\* the position was at.
LEMMA IndexedStep == ASSUME IndexInv, Indexed PROVE IndexInv'
<1>1. /\ at = "insert" /\ Types /\ Working /\ done = Len(Detail)
      /\ blk \in Block /\ Height[blk] = next /\ rows[next] = blk
      /\ \A i \in 1..done : parts[next][Detail[i]] = blk
      /\ UNCHANGED <<node, tables, saved, crashes, forgot, end, blk, fork, done>>
      /\ Fail \/ UNCHANGED errors
      /\ \/ /\ sync' = [height |-> next, hash |-> HashOf(blk)] /\ next' = next + 1
            /\ at' = IF next < end THEN "fetch" ELSE "save"
         \/ at' = "save" /\ UNCHANGED <<next, sync>>
  BY DEF Indexed, GiveUp, IndexInv, InHand, Working
<1>2. /\ next \in Heights /\ next \in Nat /\ next = sync.height + 1 /\ sync.height \in Nat
      /\ end \in Nat /\ next <= end /\ errors' \in 0..MaxErrors
      /\ \A h \in 1..sync.height : h \in Heights /\ h # next
  BY <1>1, NextKnown, ErrorsBounded DEF Batching
<1>3. Whole(next)
  <2>1. blk # None /\ DOMAIN Detail = 1..Len(Detail)
    BY <1>1, IndexerAssumption
  <2>2. \A t \in Tables : \E i \in 1..Len(Detail) : t = Detail[i]
    BY <2>1 DEF Tables
  <2> QED BY <1>1, <2>1, <2>2 DEF Whole
<1>4. InHand' /\ RowsPlaced' /\ LeftLighter'
  BY <1>1 DEF IndexInv, InHand, RowsPlaced, LeftLighter, Working, node, tables
<1>5. \A h : Whole(h)' = Whole(h)
  BY <1>1 DEF Whole, tables
<1>6. CASE at' = "save" /\ UNCHANGED <<next, sync>>
  <2>1. Types'
    BY <1>1, <1>2, <1>6 DEF Types, TypeOK, node, tables
  <2>2. Nameless'
    BY <1>1, <1>6 DEF IndexInv, Nameless, Undoing, WholeTo, Whole, node, tables
  <2>3. Named' /\ Tame'
    BY <1>1, <1>6 DEF IndexInv, Named, Tame, Working, Undoing, Once, IndexIs, Whole, node, tables
  <2> QED BY <1>4, <2>1, <2>2, <2>3 DEF IndexInv
<1>7. CASE /\ sync' = [height |-> next, hash |-> HashOf(blk)] /\ next' = next + 1
           /\ at' = IF next < end THEN "fetch" ELSE "save"
  <2>1. sync'.height = next /\ sync'.hash = HashOf(blk) /\ HashOf(blk) \in Block \cup {None}
    BY <1>1, <1>7 DEF HashOf
  <2>2. Types'
    <3>1. sync' \in Position
      BY <1>2, <1>7, <2>1 DEF Position
    <3>2. at' \in {"fetch", "save"} /\ (at' = "fetch" => next' = sync'.height + 1 /\ next' \in 1..end)
      BY <1>2, <1>7, <2>1
    <3> QED BY <1>1, <1>2, <3>1, <3>2 DEF Types, TypeOK, node, tables
  <2>3. Nameless'
    <3> SUFFICES ASSUME ~named PROVE Nameless'
      BY <1>1 DEF Nameless, node
    <3>1. sync'.hash = None /\ saved'.hash = None /\ ~Undoing'
      BY <1>1, <1>7, <2>1 DEF IndexInv, Nameless, HashOf, Undoing
    <3>2. ASSUME ~forgot PROVE WholeTo(sync.height)' /\ saved'.height <= sync'.height
      <4>1. WholeTo(sync.height) /\ saved.height <= sync.height
        BY <1>1, <3>2 DEF IndexInv, Nameless
      <4>2. \A h \in 1..sync'.height : h \in 1..sync.height \/ h = next
        BY <1>2, <2>1
      <4>3. saved.height \in Nat
        BY <1>1, HeightsKnown DEF Types, TypeOK, Position
      <4> QED BY <1>1, <1>2, <1>3, <1>5, <2>1, <4>1, <4>2, <4>3 DEF WholeTo
    <3> QED BY <1>1, <1>7, <3>1, <3>2 DEF Nameless
  <2>4. Named'
    <3> SUFFICES ASSUME named, crashes = 0 PROVE Named'
      BY <1>1 DEF Named, node
    <3>1. sync'.hash = blk /\ blk # None /\ blk \in Once
      BY <1>1, <2>1, IndexerAssumption DEF IndexInv, Named, HashOf
    <3> QED BY <1>1, <1>2, <1>7, <2>1, <3>1 DEF Named, Working, Undoing, Once, node, tables
  <2>5. Tame'
    <3> SUFFICES ASSUME ~wild PROVE Tame'
      BY <1>1 DEF Tame, node
    <3>1. left \cap Path[tip] = {} /\ end <= Height[tip]
      BY DEF IndexInv, Tame
    <3>2. ASSUME named, crashes = 0, blk \notin left PROVE IndexIs(blk)'
      <4>1. tip \in Block /\ blk \in Path[tip]
        BY <1>1, <3>2 DEF IndexInv, Named, Once, Types, TypeOK
      <4>2. /\ Parent[blk] \in Path[tip] /\ Parent[blk] \in Path[blk]
            /\ Height[Parent[blk]] = sync.height
        BY <1>1, <1>2, <4>1, ParentBelow
      <4>3. sync.height # 0 => /\ sync.hash = Parent[blk] /\ IndexIs(Parent[blk])
        BY <1>1, <3>1, <3>2, <4>2 DEF IndexInv, Named, Tame
      <4>4. ASSUME NEW h \in 1..next PROVE Whole(h) /\ rows[h] = BlockAt(blk, h)
        <5>1. CASE h = next
          <6>1. next \in 0..Height[blk] /\ blk \in Path[blk]
            BY <1>1, <1>2, PathEnds
          <6>2. blk = BlockAt(blk, next)
            BY <1>1, <6>1, BlockAtHeight
          <6> QED BY <1>1, <1>3, <5>1, <6>2
        <5>2. CASE h # next
          <6>1. h \in 1..sync.height /\ sync.height # 0 /\ h \in 0..Height[Parent[blk]]
            BY <1>2, <4>2, <5>2
          <6>2. Whole(h) /\ rows[h] = BlockAt(Parent[blk], h)
            BY <4>2, <4>3, <6>1 DEF IndexIs
          <6>3. BlockAt(blk, h) = BlockAt(Parent[blk], h)
            BY <1>1, <4>2, <6>1, BlockAtBelow
          <6> QED BY <6>2, <6>3
        <5> QED BY <5>1, <5>2
      <4>5. \A h \in 1..Height[blk] : Whole(h)' /\ rows'[h] = BlockAt(blk, h)
        BY <1>1, <1>5, <4>4 DEF tables
      <4> QED BY <1>1, <4>5 DEF IndexIs
    <3>3. named => sync'.hash = blk
      BY <2>1 DEF HashOf
    <3>4. named /\ crashes = 0 /\ blk \notin left => IndexIs(sync.hash)'
      BY <1>1, <3>2, <3>3 DEF IndexIs
    <3> QED BY <1>1, <1>7, <3>1, <3>3, <3>4 DEF Tame, Undoing, node
  <2> QED BY <1>4, <2>2, <2>3, <2>4, <2>5 DEF IndexInv
<1> QED BY <1>1, <1>6, <1>7

-----------------------------------------------------------------------------
(* Rollbacks, the saved position, crashes. *)

LEMMA UnindexStep == ASSUME IndexInv, Unindex PROVE IndexInv'
<1>1. /\ at = "unindex" /\ Types /\ at' \in {"unrow", "save"}
      /\ UNCHANGED <<node, rows, saved, sync, crashes, forgot, next, end, blk, fork, done>>
      /\ Fail \/ UNCHANGED errors
  BY DEF Unindex, GoTo, GiveUp, IndexInv
<1>2. PICK ts : parts' = Cleared(Above, ts)
  BY DEF Unindex
<1>3. parts' \in [Heights -> [Tables -> Block \cup {None}]] /\ errors' \in 0..MaxErrors
  BY <1>1, <1>2, ErrorsBounded DEF Types, TypeOK, Cleared
<1>4. Types'
  BY <1>1, <1>3 DEF Types, TypeOK, node
<1>5. InHand' /\ RowsPlaced' /\ LeftLighter'
  BY <1>1 DEF IndexInv, InHand, RowsPlaced, LeftLighter, Working, node
<1>6. Nameless'
  BY <1>1 DEF IndexInv, Nameless, Undoing, node
<1>7. Named'
  BY <1>1 DEF IndexInv, Named, Working, Undoing, Once, node
<1>8. Tame'
  BY <1>1 DEF IndexInv, Tame, Undoing, node
<1> QED BY <1>4, <1>5, <1>6, <1>7, <1>8 DEF IndexInv

LEMMA UnrowStep == ASSUME IndexInv, Unrow PROVE IndexInv'
<1> DEFINE kept == [h \in Heights |-> IF h \in Above THEN None ELSE rows[h]]
<1>1. /\ at = "unrow" /\ Types /\ at' = "save"
      /\ UNCHANGED <<node, parts, saved, crashes, forgot, next, end, blk, fork, done>>
      /\ Fail \/ UNCHANGED errors
      /\ rows' \in {rows, kept}
      /\ \/ rows' = kept /\ sync' = AfterReorg(kept)
         \/ fork > 0 /\ sync' = [AfterReorg(kept) EXCEPT !.hash = sync.hash]
         \/ UNCHANGED sync
  BY DEF Unrow, GiveUp, IndexInv
<1>2. /\ fork \in Heights \cup {0} /\ sync \in Position /\ rows \in [Heights -> Block \cup {None}]
      /\ errors' \in 0..MaxErrors
  BY <1>1, ErrorsBounded DEF Types, TypeOK
<1>3. kept \in [Heights -> Block \cup {None}] /\ \A h \in Heights : kept[h] \in {rows[h], None}
  BY <1>2
<1>4. AfterReorg(kept) \in Position
  BY <1>2, <1>3 DEF AfterReorg, HashAt, Position
<1> HIDE DEF kept
<1>5. Types'
  <2>1. sync' \in Position
    BY <1>1, <1>2, <1>4 DEF Position
  <2> QED BY <1>1, <1>2, <1>3, <2>1 DEF Types, TypeOK, node
<1>6. RowsPlaced'
  BY <1>1, <1>3 DEF IndexInv, RowsPlaced
<1>7. InHand' /\ LeftLighter'
  BY <1>1 DEF IndexInv, InHand, LeftLighter, Working, node
<1>8. named
  BY <1>1 DEF IndexInv, Nameless, Undoing
<1>9. ASSUME crashes = 0 PROVE sync' = Default \/ UNCHANGED sync
  <2>1. fork = 0
    BY <1>1, <1>8, <1>9 DEF IndexInv, Named, Undoing
  <2> QED BY <1>1, <2>1 DEF AfterReorg, HashAt, Default
<1>10. Named'
  <2> SUFFICES ASSUME crashes = 0 PROVE Named'
    BY <1>1 DEF Named
  <2>1. CASE sync' = Default
    BY <1>1, <2>1 DEF Named, Working, Undoing, Default
  <2>2. CASE UNCHANGED sync
    <3>1. sync.hash # None => sync.height \in Heights
      BY <1>2, <1>8 DEF IndexInv, Named, Position
    <3>2. sync.hash # None => rows'[sync.height] \in {sync.hash, None}
      BY <1>1, <1>3, <1>8, <3>1 DEF IndexInv, Named
    <3> QED BY <1>1, <2>2, <3>2 DEF IndexInv, Named, Working, Undoing, Once, node
  <2> QED BY <1>9, <2>1, <2>2
<1>11. Tame'
  BY <1>1, <1>8, <1>9 DEF IndexInv, Tame, Undoing, Default, node
<1>12. Nameless'
  BY <1>1, <1>8 DEF Nameless, node
<1> QED BY <1>5, <1>6, <1>7, <1>10, <1>11, <1>12 DEF IndexInv

LEMMA SaveStep == ASSUME IndexInv, Save PROVE IndexInv'
<1>1. /\ at = "save" /\ Types /\ at' = "poll" /\ saved' \in {saved, sync}
      /\ UNCHANGED <<node, tables, sync, crashes, next, end, blk, fork, done>>
      /\ Fail \/ UNCHANGED errors
      /\ UNCHANGED forgot \/ forgot' = (forgot \/ saved'.height > sync.height)
  BY DEF Save, GoTo, Saved, IndexInv
<1>2. /\ errors' \in 0..MaxErrors /\ saved \in Position /\ sync \in Position
      /\ sync.height \in Nat
  BY <1>1, ErrorsBounded, HeightsKnown DEF Types, TypeOK, Position
<1>3. Types'
  BY <1>1, <1>2 DEF Types, TypeOK, node, tables
<1>4. InHand' /\ RowsPlaced' /\ LeftLighter'
  BY <1>1 DEF IndexInv, InHand, RowsPlaced, LeftLighter, Working, node, tables
<1>5. ~forgot' => ~forgot
  <2>1. CASE UNCHANGED forgot
    BY <2>1
  <2>2. CASE forgot' = (forgot \/ saved'.height > sync.height)
    BY <2>2, Zenon
  <2> QED BY <1>1, <2>1, <2>2
<1>6. Nameless'
  BY <1>1, <1>2, <1>5 DEF IndexInv, Nameless, Undoing, WholeTo, Whole, node, tables
<1>7. Named' /\ Tame'
  BY <1>1 DEF IndexInv, Named, Tame, Working, Undoing, Once, IndexIs, Whole, node, tables
<1> QED BY <1>3, <1>4, <1>6, <1>7 DEF IndexInv

LEMMA CrashStep == ASSUME IndexInv, Crash PROVE IndexInv'
<1>1. /\ at # "load" /\ at' = "load" /\ Types /\ crashes < MaxCrashes /\ crashes' = crashes + 1
      /\ sync' = Default /\ next' = 0 /\ end' = 0 /\ blk' = None /\ fork' = 0 /\ done' = 0
      /\ UNCHANGED <<node, tables, saved, errors, forgot>>
  BY DEF Crash, IndexInv
<1>2. /\ Default \in Position /\ 0 \in 0..Len(Detail) /\ crashes \in Nat /\ crashes' # 0
      /\ crashes' \in 0..MaxCrashes
  BY <1>1, IndexerAssumption DEF Types, TypeOK, Default, Position
<1>3. Types'
  BY <1>1, <1>2 DEF Types, TypeOK, node, tables
<1>4. InHand' /\ RowsPlaced' /\ LeftLighter'
  BY <1>1 DEF IndexInv, InHand, RowsPlaced, LeftLighter, Working, node, tables
<1>5. Nameless'
  <2> SUFFICES ASSUME ~named PROVE Nameless'
    BY <1>1 DEF Nameless, node
  <2>1. ASSUME ~forgot PROVE WholeTo(saved.height)' /\ WholeTo(sync.height)'
    <3>1. WholeTo(sync.height) /\ saved.height <= sync.height
      BY <1>1, <2>1 DEF IndexInv, Nameless
    <3>2. saved.height \in Nat /\ sync.height \in Nat
      BY <1>1, HeightsKnown DEF Types, TypeOK, Position
    <3>3. \A h \in 1..saved.height : h \in 1..sync.height
      BY <3>1, <3>2
    <3>4. \A h : Whole(h)' = Whole(h)
      BY <1>1 DEF Whole, tables
    <3> QED BY <1>1, <3>1, <3>3, <3>4 DEF WholeTo, Default
  <2> QED BY <1>1, <2>1 DEF IndexInv, Nameless, Undoing, Default
<1>6. Named'
  BY <1>1, <1>2 DEF Named
<1>7. Tame'
  <2>1. Height[tip] \in Nat
    BY <1>1, BlockTreeAssumption DEF Types, TypeOK
  <2> QED BY <1>1, <1>2, <2>1 DEF IndexInv, Tame, node
<1> QED BY <1>3, <1>4, <1>5, <1>6, <1>7 DEF IndexInv

-----------------------------------------------------------------------------

LEMMA IndexStep == IndexInv /\ [Next]_vars => IndexInv'
<1> SUFFICES ASSUME IndexInv, [Next]_vars PROVE IndexInv'
  OBVIOUS
<1>1. CASE \E b \in Block : Extend(b) \/ Switch(b)
  BY <1>1, ExtendStep, SwitchStep
<1>2. CASE Step
  BY <1>2, LoadStep, PollStep, FetchStep, UpsertStep, ClearStep, InsertStep, IndexedStep,
     UnindexStep, UnrowStep, SaveStep DEF Step
<1>3. CASE Crash
  BY <1>3, CrashStep
<1>4. CASE UNCHANGED vars
  <2>1. Types' /\ InHand' /\ RowsPlaced' /\ LeftLighter'
    BY <1>4 DEF IndexInv, Types, TypeOK, InHand, RowsPlaced, LeftLighter, Working,
                vars, node, tables, loop
  <2>2. Nameless' /\ Named' /\ Tame'
    BY <1>4 DEF IndexInv, Nameless, Named, Tame, Working, Undoing, WholeTo, Whole, Once, IndexIs,
                vars, node, tables, loop
  <2> QED BY <2>1, <2>2 DEF IndexInv
<1> QED BY <1>1, <1>2, <1>3, <1>4 DEF Next

LEMMA IndexerInvariant == Spec => []IndexInv
BY IndexInit, IndexStep, PTL DEF Spec

\* Whatever fails half way, and wherever the process goes down: behind this
\* repository's node the blocks up to the position are there with all their
\* details, unless the loop went back behind the saved position (process_block,
\* SyncState::save).
THEOREM NothingMissing == Spec => []IndexSound
<1>1. IndexInv => IndexSound
  BY DEF IndexInv, Types, IndexSound, Complete, Nameless, WholeTo
<1> QED BY <1>1, IndexerInvariant, PTL

\* While the last block indexed is on the node's chain, the index up to it is
\* that chain: what is rolled back by halves, or over stale rows, has left the
\* chain (handle_reorg, find_fork_height).
THEOREM IndexIsChain == Spec => []IndexedBelow
<1>1. IndexInv => IndexedBelow
  <2> SUFFICES ASSUME IndexInv, sync.hash # None, sync.hash \in Path[tip], ~wild, crashes = 0
               PROVE  \A h \in 1..sync.height : Whole(h) /\ rows[h] = BlockAt(tip, h)
    BY DEF IndexedBelow
  <2>1. named
    BY DEF IndexInv, Nameless
  <2>2. Height[sync.hash] = sync.height /\ IndexIs(sync.hash)
    BY <2>1 DEF IndexInv, Named, Tame
  <2>3. tip \in Block /\ sync.hash \in Block /\ Height[sync.hash] \in Nat
    BY PathEnds, BlockTreeAssumption DEF IndexInv, Types, TypeOK
  <2>4. ASSUME NEW h \in 1..sync.height PROVE BlockAt(tip, h) = BlockAt(sync.hash, h)
    BY <2>2, <2>3, BlockAtBelow
  <2> QED BY <2>2, <2>4 DEF IndexIs
<1> QED BY <1>1, IndexerInvariant, PTL

-----------------------------------------------------------------------------
(* Order book: amounts. *)

AnyTrade == [taker : Nat, maker : Nat, qty : Nat \ {0}, price : Price]
Part(t, role, o) == IF t[role] = o THEN t.qty ELSE 0
Adds(f, ts, role, o) ==
  f[0] = 0 /\ \A i \in 1..Len(ts) : f[i] = f[i - 1] + Part(ts[i], role, o)

\* The recursion of Amount has a solution, which starts at nothing and adds the
\* part of one trade after the other.
LEMMA AmountAdds ==
  ASSUME NEW ts \in Seq(AnyTrade), NEW role, NEW o
  PROVE  \E f \in [0..Len(ts) -> Nat] :
           Adds(f, ts, role, o) /\ Amount(ts, role, o) = f[Len(ts)]
<1> DEFINE len == Len(ts)
           Solves(m, f) == f[0] = 0 /\ \A i \in 1..m : f[i] = f[i - 1] + Part(ts[i], role, o)
           Bad == {m \in 0..len : ~ \E f \in [0..m -> Nat] : Solves(m, f)}
           Eq(f) == f = [i \in 0..len |-> IF i = 0 THEN 0 ELSE
                           f[i - 1] + (IF ts[i][role] = o THEN ts[i].qty ELSE 0)]
<1>1. len \in Nat /\ \A i \in 1..len : Part(ts[i], role, o) \in Nat
  <2>1. \A i \in 1..len : ts[i] \in AnyTrade
    BY ElementOfSeq
  <2> QED BY <2>1, LenProperties DEF AnyTrade, Part
<1>2. Bad = {}
  <2> SUFFICES ASSUME Bad # {} PROVE FALSE
    OBVIOUS
  <2>1. PICK m \in Bad : \A k \in Bad : m <= k
    <3>1. Bad \in SUBSET Nat
      BY <1>1
    <3> QED BY <3>1, LeastExists
  <2>2. CASE m = 0
    <3>1. [i \in 0..0 |-> 0] \in [0..0 -> Nat] /\ Solves(0, [i \in 0..0 |-> 0])
      OBVIOUS
    <3> QED BY <2>1, <2>2, <3>1
  <2>3. CASE m # 0
    <3>1. m \in 1..len /\ m - 1 \in 0..len /\ m - 1 \notin Bad
      <4>1. m \in 0..len
        OBVIOUS
      <4> HIDE DEF Bad
      <4> QED BY <1>1, <2>1, <2>3, <4>1
    <3>2. PICK f \in [0..(m - 1) -> Nat] : Solves(m - 1, f)
      BY <3>1
    <3> DEFINE g == [i \in 0..m |-> IF i = m THEN f[m - 1] + Part(ts[m], role, o) ELSE f[i]]
    <3>3. f[m - 1] \in Nat /\ Part(ts[m], role, o) \in Nat
      BY <1>1, <3>1
    <3>4. g \in [0..m -> Nat]
      BY <3>1, <3>3
    <3>5. ASSUME NEW i \in 1..m PROVE g[i] = g[i - 1] + Part(ts[i], role, o)
      <4>1. CASE i = m
        BY <3>1, <4>1
      <4>2. CASE i # m
        <5>1. i \in 1..(m - 1) /\ i - 1 \in 0..m /\ i - 1 # m /\ i \in 0..m
          BY <3>1, <4>2
        <5>2. f[i] = f[i - 1] + Part(ts[i], role, o)
          BY <3>2, <5>1
        <5> QED BY <5>1, <5>2, <4>2
      <4> QED BY <4>1, <4>2
    <3>6. g[0] = 0
      BY <3>1, <3>2
    <3> QED BY <2>1, <3>4, <3>5, <3>6
  <2> QED BY <2>2, <2>3
<1>3. PICK f \in [0..len -> Nat] : Solves(len, f)
  <2>1. len \in 0..len
    BY <1>1
  <2> QED BY <1>2, <2>1
<1>4. Eq(f)
  <2>1. ASSUME NEW i \in 0..len
        PROVE f[i] = IF i = 0 THEN 0 ELSE f[i - 1] + (IF ts[i][role] = o THEN ts[i].qty ELSE 0)
    <3>1. CASE i = 0
      BY <1>3, <3>1
    <3>2. CASE i # 0
      <4>1. i \in 1..len
        BY <1>1, <3>2
      <4> QED BY <1>3, <3>2, <4>1 DEF Part
    <3> QED BY <3>1, <3>2
  <2> HIDE DEF len
  <2> QED BY <2>1
<1> DEFINE h == CHOOSE f_1 : Eq(f_1)
<1>5. Eq(h)
  BY <1>4, Zenon
<1>6. Amount(ts, role, o) = h[len]
  BY DEF Amount
<1>7. h[0] = 0 /\ \A i \in 1..len : h[i] = h[i - 1] + Part(ts[i], role, o)
  <2> HIDE DEF h
  <2>1. h[0] = 0
    BY <1>1, <1>5
  <2>2. ASSUME NEW i \in 1..len PROVE h[i] = h[i - 1] + Part(ts[i], role, o)
    <3>1. i \in 0..len /\ i # 0
      BY <1>1
    <3> QED BY <1>5, <3>1 DEF Part
  <2> QED BY <2>1, <2>2
<1>8. \A i \in 0..len : h[i] = f[i]
  <2> DEFINE Differ == {i \in 0..len : h[i] # f[i]}
  <2> SUFFICES ASSUME Differ # {} PROVE FALSE
    OBVIOUS
  <2>1. PICK m \in Differ : \A k \in Differ : m <= k
    <3>1. Differ \in SUBSET Nat
      BY <1>1
    <3> HIDE DEF Differ
    <3> QED BY <3>1, LeastExists
  <2>2. m # 0
    BY <1>3, <1>7, <2>1
  <2>3. m \in 1..len /\ m - 1 \in 0..len /\ m - 1 \notin Differ
    <3>1. m \in 0..len
      OBVIOUS
    <3> HIDE DEF Differ
    <3> QED BY <1>1, <2>1, <2>2, <3>1
  <2> HIDE DEF h
  <2>4. h[m - 1] = f[m - 1]
    BY <2>3
  <2> QED BY <1>3, <1>7, <2>3, <2>4
<1>9. Adds(f, ts, role, o) /\ h[len] = f[len]
  <2>1. len \in 0..len
    BY <1>1
  <2> HIDE DEF h
  <2> QED BY <1>3, <1>8, <2>1 DEF Adds
<1> HIDE DEF h
<1> QED BY <1>6, <1>9

LEMMA AmountEmpty ==
  ASSUME NEW role, NEW o
  PROVE  Amount(<<>>, role, o) = 0
<1>1. <<>> \in Seq(AnyTrade) /\ Len(<<>>) = 0
  BY EmptySeq
<1>2. PICK f \in [0..0 -> Nat] : Adds(f, <<>>, role, o) /\ Amount(<<>>, role, o) = f[0]
  BY <1>1, AmountAdds
<1> QED BY <1>2 DEF Adds

\* One more trade adds its part.
LEMMA AmountAppend ==
  ASSUME NEW ts \in Seq(AnyTrade), NEW t \in AnyTrade, NEW role, NEW o
  PROVE  /\ Amount(Append(ts, t), role, o) = Amount(ts, role, o) + Part(t, role, o)
         /\ Amount(ts, role, o) \in Nat
<1> DEFINE us == Append(ts, t)
           n == Len(ts)
<1>1. us \in Seq(AnyTrade) /\ Len(us) = n + 1 /\ n \in Nat /\ us[n + 1] = t
      /\ \A i \in 1..n : us[i] = ts[i]
  BY AppendProperties, LenProperties
<1>2. PICK f \in [0..n -> Nat] : Adds(f, ts, role, o) /\ Amount(ts, role, o) = f[n]
  BY AmountAdds
<1>3. PICK g \in [0..(n + 1) -> Nat] : Adds(g, us, role, o) /\ Amount(us, role, o) = g[n + 1]
  <2> HIDE DEF us
  <2> QED BY <1>1, AmountAdds
<1>4. \A i \in 0..n : f[i] = g[i]
  <2> DEFINE Differ == {i \in 0..n : f[i] # g[i]}
  <2> SUFFICES ASSUME Differ # {} PROVE FALSE
    OBVIOUS
  <2>1. PICK m \in Differ : \A k \in Differ : m <= k
    <3>1. Differ \in SUBSET Nat
      BY <1>1
    <3> HIDE DEF Differ
    <3> QED BY <3>1, LeastExists
  <2>2. m # 0
    BY <1>2, <1>3, <2>1 DEF Adds
  <2>3. m \in 1..n /\ m - 1 \in 0..n /\ m - 1 \notin Differ /\ m \in 1..(n + 1)
    <3>1. m \in 0..n
      OBVIOUS
    <3> HIDE DEF Differ
    <3> QED BY <1>1, <2>1, <2>2, <3>1
  <2>4. f[m - 1] = g[m - 1] /\ us[m] = ts[m]
    BY <1>1, <2>3
  <2>5. f[m] = f[m - 1] + Part(ts[m], role, o)
    BY <1>2, <2>3 DEF Adds
  <2>6. g[m] = g[m - 1] + Part(us[m], role, o)
    <3> HIDE DEF us
    <3> QED BY <1>1, <1>3, <2>3 DEF Adds
  <2> HIDE DEF us
  <2> QED BY <2>3, <2>4, <2>5, <2>6
<1>5. g[n + 1] = g[n] + Part(us[n + 1], role, o)
  <2> HIDE DEF us
  <2>1. n + 1 \in 1..Len(us) /\ (n + 1) - 1 = n
    BY <1>1
  <2> QED BY <1>3, <2>1 DEF Adds
<1>6. f[n] = g[n] /\ f[n] \in Nat /\ us[n + 1] = t
  <2> HIDE DEF us
  <2>1. n \in 0..n
    BY <1>1
  <2> QED BY <1>1, <1>4, <2>1
<1>7. Amount(us, role, o) = Amount(ts, role, o) + Part(t, role, o)
  <2> HIDE DEF us
  <2> QED BY <1>2, <1>3, <1>5, <1>6
<1>8. Amount(ts, role, o) \in Nat
  BY <1>2, <1>6
<1> QED BY <1>7, <1>8

\* A trade adds to what its two orders traded, and to nothing else.
LEMMA TradedAppend ==
  ASSUME NEW ts \in Seq(AnyTrade), NEW t \in AnyTrade, NEW o
  PROVE  /\ Traded(ts, o) \in Nat /\ Traded(Append(ts, t), o) \in Nat
         /\ o \notin {t.taker, t.maker} => Traded(Append(ts, t), o) = Traded(ts, o)
         /\ t.taker # t.maker /\ o \in {t.taker, t.maker}
              => Traded(Append(ts, t), o) = Traded(ts, o) + t.qty
<1>1. /\ Amount(Append(ts, t), "taker", o) = Amount(ts, "taker", o) + Part(t, "taker", o)
      /\ Amount(ts, "taker", o) \in Nat
      /\ Amount(Append(ts, t), "maker", o) = Amount(ts, "maker", o) + Part(t, "maker", o)
      /\ Amount(ts, "maker", o) \in Nat
  BY AmountAppend
<1>2. /\ Part(t, "taker", o) = IF t.taker = o THEN t.qty ELSE 0
      /\ Part(t, "maker", o) = IF t.maker = o THEN t.qty ELSE 0
      /\ t.qty \in Nat
  BY DEF Part, AnyTrade
<1> QED BY <1>1, <1>2 DEF Traded

LEMMA TradedNat ==
  ASSUME NEW ts \in Seq(AnyTrade), NEW o
  PROVE  Traded(ts, o) \in Nat /\ Amount(ts, "taker", o) \in Nat /\ Amount(ts, "maker", o) \in Nat
<1>1. PICK f \in [0..Len(ts) -> Nat] : Amount(ts, "taker", o) = f[Len(ts)]
  BY AmountAdds
<1>2. PICK g \in [0..Len(ts) -> Nat] : Amount(ts, "maker", o) = g[Len(ts)]
  BY AmountAdds
<1>3. Len(ts) \in 0..Len(ts)
  BY LenProperties
<1>4. Amount(ts, "taker", o) \in Nat /\ Amount(ts, "maker", o) \in Nat
  BY <1>1, <1>2, <1>3
<1> QED BY <1>4 DEF Traded

-----------------------------------------------------------------------------
(* Order book: levels. *)

\* What the order book should be, for the orders S that the index has and what
\* each order has traded, A: the orders of a level belong there, in the order of
\* their ids, and have something left; and every order is found at its level.
LevelOK(S, A, l, s, p) ==
  /\ l \in Seq(Resting) /\ l # <<>>
  /\ \A i \in DOMAIN l :
       /\ l[i].id \in S /\ terms[l[i].id].side = s /\ terms[l[i].id].price = p
       /\ A[l[i].id] <= l[i].filled /\ l[i].filled < terms[l[i].id].qty
  /\ \A i, j \in DOMAIN l : i < j => l[i].id < l[j].id
InLevel(l, o) == \E i \in DOMAIN l : l[i].id = o
Found(b, o) ==
  /\ terms[o].side \in Side /\ terms[o].price \in DOMAIN b[terms[o].side]
  /\ InLevel(b[terms[o].side][terms[o].price], o)
BookOK(b, S, A) ==
  /\ DOMAIN b = Side
  /\ \A s \in Side : /\ DOMAIN b[s] \subseteq Price
                     /\ \A p \in DOMAIN b[s] : LevelOK(S, A, b[s][p], s, p)
  /\ \A o \in S : Found(b, o)
Belongs(o, s, p) == terms[o].side = s /\ terms[o].price = p

LEMMA LongNotEmpty == \A l : Len(l) # 0 => l # <<>>
<1>1. Len(<<>>) = 0
  BY EmptySeq
<1> QED BY <1>1

\* Replacing one level by one that is in order, or by none.
LEMMA LevelReplaced ==
  ASSUME NEW b, NEW S, NEW A, NEW T, NEW B, NEW s \in Side, NEW p \in Price, NEW l,
         BookOK(b, S, A), l # <<>> => LevelOK(T, B, l, s, p),
         \A o \in T : Belongs(o, s, p) => l # <<>> /\ InLevel(l, o),
         \A o \in S : ~ Belongs(o, s, p) => o \in T /\ B[o] = A[o],
         \A o \in T : ~ Belongs(o, s, p) => o \in S
  PROVE  BookOK([b EXCEPT ![s] = WithLevel(@, p, l)], T, B)
<1> DEFINE c == [b EXCEPT ![s] = WithLevel(@, p, l)]
<1>1. DOMAIN c = Side /\ c[s] = WithLevel(b[s], p, l) /\ \A u \in Side : u # s => c[u] = b[u]
  BY DEF BookOK
<1>2. /\ DOMAIN c[s] \subseteq DOMAIN b[s] \cup {p}
      /\ p \in DOMAIN c[s] <=> l # <<>>
      /\ p \in DOMAIN c[s] => c[s][p] = l
      /\ \A q \in DOMAIN c[s] \ {p} : q \in DOMAIN b[s] /\ c[s][q] = b[s][q]
      /\ \A q \in DOMAIN b[s] \ {p} : q \in DOMAIN c[s] /\ c[s][q] = b[s][q]
  BY <1>1 DEF WithLevel, Without
<1> HIDE DEF c
<1>3. ASSUME NEW u \in Side, NEW q \in DOMAIN b[u], ~ (u = s /\ q = p)
      PROVE  LevelOK(T, B, b[u][q], u, q)
  <2>1. LevelOK(S, A, b[u][q], u, q)
    BY DEF BookOK
  <2>2. \A i \in DOMAIN b[u][q] : b[u][q][i].id \in T /\ B[b[u][q][i].id] = A[b[u][q][i].id]
    BY <1>3, <2>1 DEF LevelOK, Belongs
  <2> QED BY <2>1, <2>2 DEF LevelOK
<1>4. ASSUME NEW u \in Side
      PROVE  DOMAIN c[u] \subseteq Price /\ \A q \in DOMAIN c[u] : LevelOK(T, B, c[u][q], u, q)
  <2>1. DOMAIN b[u] \subseteq Price
    BY DEF BookOK
  <2>2. CASE u # s
    BY <1>1, <1>3, <2>1, <2>2
  <2>3. CASE u = s
    <3>1. DOMAIN c[s] \subseteq Price
      BY <1>2, <2>1, <2>3
    <3>2. ASSUME NEW q \in DOMAIN c[s] PROVE LevelOK(T, B, c[s][q], s, q)
      <4>1. CASE q = p
        BY <1>2, <4>1
      <4>2. CASE q # p
        BY <1>2, <1>3, <4>2
      <4> QED BY <4>1, <4>2
    <3> QED BY <2>3, <3>1, <3>2
  <2> QED BY <2>2, <2>3
<1>5. ASSUME NEW o \in T PROVE Found(c, o)
  <2>1. CASE Belongs(o, s, p)
    BY <1>2, <2>1 DEF Belongs, Found
  <2>2. CASE ~ Belongs(o, s, p)
    <3>1. Found(b, o)
      BY <2>2 DEF BookOK
    <3> QED BY <1>1, <1>2, <2>2, <3>1 DEF Belongs, Found
  <2> QED BY <2>1, <2>2
<1>6. BookOK(c, T, B)
  BY <1>1, <1>4, <1>5 DEF BookOK
<1> QED BY <1>6 DEF c

\* The first order of a level leaves it.
LEMMA LevelTail ==
  ASSUME NEW S, NEW A, NEW B, NEW l, NEW s, NEW p, LevelOK(S, A, l, s, p),
         \A o \in S \ {Head(l).id} : B[o] = A[o]
  PROVE  /\ Tail(l) # <<>> => LevelOK(S \ {Head(l).id}, B, Tail(l), s, p)
         /\ \A o : InLevel(l, o) /\ o # Head(l).id => Tail(l) # <<>> /\ InLevel(Tail(l), o)
<1>1. l \in Seq(Resting) /\ l # <<>>
  BY DEF LevelOK
<1>2. /\ Tail(l) \in Seq(Resting) /\ Len(Tail(l)) = Len(l) - 1 /\ Len(l) \in Nat \ {0}
      /\ \A i \in 1..(Len(l) - 1) : Tail(l)[i] = l[i + 1]
      /\ DOMAIN l = 1..Len(l) /\ DOMAIN Tail(l) = 1..(Len(l) - 1)
  BY <1>1, HeadTailProperties, EmptySeq, LenProperties
<1>3. Head(l) = l[1]
  BY <1>1
<1>4. ASSUME NEW i \in 1..(Len(l) - 1) PROVE i + 1 \in 1..Len(l) /\ l[i + 1].id # Head(l).id
  <2>1. 1 \in 1..Len(l) /\ i + 1 \in 1..Len(l) /\ 1 < i + 1
    BY <1>2
  <2>2. l[1] \in Resting /\ l[i + 1] \in Resting /\ l[1].id < l[i + 1].id
    BY <1>1, <1>2, <2>1, ElementOfSeq DEF LevelOK
  <2>3. l[1].id \in Int /\ l[i + 1].id \in Int
    BY <2>2 DEF Resting, Order
  <2> QED BY <1>3, <2>1, <2>2, <2>3
<1>5. \A i \in DOMAIN Tail(l) :
        /\ Tail(l)[i].id \in S \ {Head(l).id} /\ terms[Tail(l)[i].id].side = s
        /\ terms[Tail(l)[i].id].price = p /\ B[Tail(l)[i].id] <= Tail(l)[i].filled
        /\ Tail(l)[i].filled < terms[Tail(l)[i].id].qty
  BY <1>2, <1>4 DEF LevelOK
<1>6. \A i, j \in DOMAIN Tail(l) : i < j => Tail(l)[i].id < Tail(l)[j].id
  BY <1>2, <1>4 DEF LevelOK
<1>7. ASSUME NEW o, InLevel(l, o), o # Head(l).id PROVE Tail(l) # <<>> /\ InLevel(Tail(l), o)
  <2>1. PICK i \in 1..Len(l) : l[i].id = o
    BY <1>2, <1>7 DEF InLevel
  <2>2. i # 1
    BY <1>3, <1>7, <2>1
  <2>3. i - 1 \in 1..(Len(l) - 1) /\ (i - 1) + 1 = i
    BY <1>2, <2>2
  <2>4. Tail(l)[i - 1].id = o
    BY <1>2, <2>1, <2>3
  <2>5. Tail(l) # <<>>
    <3>1. Len(Tail(l)) # 0
      BY <1>2, <2>3
    <3> QED BY <3>1, LongNotEmpty
  <2>6. \E j \in DOMAIN Tail(l) : Tail(l)[j].id = o
    BY <1>2, <2>3, <2>4
  <2> QED BY <2>5, <2>6 DEF InLevel
<1> QED BY <1>2, <1>5, <1>6, <1>7 DEF LevelOK

\* The first order of a level is filled a bit further.
LEMMA LevelHead ==
  ASSUME NEW S, NEW A, NEW B, NEW l, NEW s, NEW p, LevelOK(S, A, l, s, p), NEW n \in Nat,
         Head(l).filled + n < terms[Head(l).id].qty, B[Head(l).id] <= Head(l).filled + n,
         \A o \in S \ {Head(l).id} : B[o] = A[o]
  PROVE  LET k == <<[Head(l) EXCEPT !.filled = @ + n]>> \o Tail(l)
         IN k # <<>> /\ LevelOK(S, B, k, s, p) /\ \A o : InLevel(l, o) => InLevel(k, o)
<1> DEFINE r == [Head(l) EXCEPT !.filled = @ + n]
           k == <<r>> \o Tail(l)
<1>1. l \in Seq(Resting) /\ l # <<>> /\ Head(l) \in Resting /\ Head(l) = l[1]
  <2>1. l \in Seq(Resting) /\ l # <<>>
    BY DEF LevelOK
  <2> QED BY <2>1, HeadTailProperties
<1>2. r \in Resting /\ r.id = Head(l).id /\ r.filled = Head(l).filled + n
  BY <1>1 DEF Resting
<1>3. /\ Tail(l) \in Seq(Resting) /\ Len(Tail(l)) = Len(l) - 1 /\ Len(l) \in Nat \ {0}
      /\ \A i \in 1..(Len(l) - 1) : Tail(l)[i] = l[i + 1]
      /\ DOMAIN l = 1..Len(l)
  BY <1>1, HeadTailProperties, EmptySeq, LenProperties
<1> HIDE DEF r
<1>4. <<r>> \in Seq(Resting) /\ Len(<<r>>) = 1 /\ <<r>>[1] = r
  BY <1>2
<1>5. /\ k \in Seq(Resting) /\ Len(k) = 1 + (Len(l) - 1)
      /\ \A i \in 1..(1 + (Len(l) - 1)) : k[i] = IF i <= 1 THEN <<r>>[i] ELSE Tail(l)[i - 1]
  BY <1>3, <1>4, ConcatProperties
<1>6. Len(k) = Len(l) /\ DOMAIN k = 1..Len(l)
  BY <1>3, <1>5, LenProperties
<1>7. ASSUME NEW i \in 1..Len(l) PROVE k[i] = IF i = 1 THEN r ELSE l[i]
  <2>1. i \in 1..(1 + (Len(l) - 1))
    BY <1>3
  <2>2. CASE i = 1
    BY <1>4, <1>5, <2>1, <2>2
  <2>3. CASE i # 1
    <3>1. i - 1 \in 1..(Len(l) - 1) /\ (i - 1) + 1 = i /\ ~ (i <= 1)
      BY <1>3, <2>3
    <3> QED BY <1>3, <1>5, <2>1, <2>3, <3>1
  <2> QED BY <2>2, <2>3
<1> HIDE DEF k
<1>8. \A i \in 1..Len(l) : k[i].id = l[i].id
  BY <1>1, <1>2, <1>7
<1>9. ASSUME NEW i \in 1..Len(l)
      PROVE  /\ k[i].id \in S /\ terms[k[i].id].side = s /\ terms[k[i].id].price = p
             /\ B[k[i].id] <= k[i].filled /\ k[i].filled < terms[k[i].id].qty
  <2>1. l[i].id \in S /\ terms[l[i].id].side = s /\ terms[l[i].id].price = p
    BY <1>3 DEF LevelOK
  <2>2. CASE i = 1
    BY <1>1, <1>2, <1>7, <2>1, <2>2
  <2>3. CASE i # 1
    <3>1. 1 \in 1..Len(l) /\ 1 < i
      BY <1>3, <2>3
    <3>2. l[1].id < l[i].id
      BY <1>3, <3>1 DEF LevelOK
    <3>3. l[1].id \in Int /\ l[i].id \in Int
      <4>1. l[1] \in Resting /\ l[i] \in Resting
        BY <1>1, <3>1, ElementOfSeq
      <4> QED BY <4>1 DEF Resting, Order
    <3>4. l[i].id # Head(l).id
      BY <1>1, <3>2, <3>3
    <3>5. B[l[i].id] = A[l[i].id] /\ A[l[i].id] <= l[i].filled /\ l[i].filled < terms[l[i].id].qty
      BY <1>3, <2>1, <3>4 DEF LevelOK
    <3> QED BY <1>7, <2>1, <2>3, <3>5
  <2> QED BY <2>2, <2>3
<1>10. \A i, j \in 1..Len(l) : i < j => k[i].id < k[j].id
  BY <1>3, <1>8 DEF LevelOK
<1>11. k # <<>>
  BY <1>3, <1>6, EmptySeq
<1>12. LevelOK(S, B, k, s, p)
  BY <1>5, <1>6, <1>9, <1>10, <1>11 DEF LevelOK
<1>13. \A o : InLevel(l, o) => InLevel(k, o)
  BY <1>3, <1>6, <1>8 DEF InLevel
<1> QED BY <1>11, <1>12, <1>13 DEF k, r

\* An order is taken out of its level, wherever it is.
LEMMA LevelRemove ==
  ASSUME NEW S, NEW A, NEW l, NEW s, NEW p, LevelOK(S, A, l, s, p), NEW pos \in DOMAIN l
  PROVE  LET k == RemoveAt(l, pos)
         IN /\ k # <<>> => LevelOK(S \ {l[pos].id}, A, k, s, p)
            /\ \A o : InLevel(l, o) /\ o # l[pos].id => k # <<>> /\ InLevel(k, o)
<1> DEFINE k == RemoveAt(l, pos)
           n == Len(l)
           m(i) == IF i < pos THEN i ELSE i + 1
<1>1. l \in Seq(Resting) /\ n \in Nat /\ DOMAIN l = 1..n /\ pos \in 1..n
      /\ \A i \in 1..n : l[i] \in Resting
  <2>1. l \in Seq(Resting)
    BY DEF LevelOK
  <2>2. \A i \in 1..n : l[i] \in Resting
    BY <2>1, ElementOfSeq
  <2> QED BY <2>1, <2>2, LenProperties
<1>2. /\ SubSeq(l, 1, pos - 1) \in Seq(Resting) /\ Len(SubSeq(l, 1, pos - 1)) = pos - 1
      /\ \A i \in 1..(pos - 1) : SubSeq(l, 1, pos - 1)[i] = l[i]
  <2>1. 1 \in Int /\ pos - 1 \in Int /\ \A i \in 1..(pos - 1) : l[i] \in Resting
    BY <1>1
  <2>2. /\ SubSeq(l, 1, pos - 1) \in Seq(Resting)
        /\ Len(SubSeq(l, 1, pos - 1)) = IF 1 <= pos - 1 THEN (pos - 1) - 1 + 1 ELSE 0
        /\ \A i \in 1..((pos - 1) - 1 + 1) : SubSeq(l, 1, pos - 1)[i] = l[1 + i - 1]
    BY <2>1, SubSeqProperties
  <2> QED BY <1>1, <2>2
<1>3. /\ SubSeq(l, pos + 1, n) \in Seq(Resting) /\ Len(SubSeq(l, pos + 1, n)) = n - pos
      /\ \A i \in 1..(n - pos) : SubSeq(l, pos + 1, n)[i] = l[pos + i]
  <2> DEFINE b == pos + 1
  <2>1. b \in Int /\ n \in Int /\ \A i \in b..n : l[i] \in Resting
    BY <1>1
  <2> HIDE DEF b, n
  <2>2. /\ SubSeq(l, b, n) \in Seq(Resting)
        /\ Len(SubSeq(l, b, n)) = IF b <= n THEN n - b + 1 ELSE 0
        /\ \A i \in 1..(n - b + 1) : SubSeq(l, b, n)[i] = l[b + i - 1]
    BY <2>1, SubSeqProperties
  <2>3. n - (pos + 1) + 1 = n - pos /\ \A i \in 1..(n - pos) : (pos + 1) + i - 1 = pos + i
    <3>1. \A a, c, i \in Int : c - (a + 1) + 1 = c - a /\ (a + 1) + i - 1 = a + i
      OBVIOUS
    <3>2. pos \in Int /\ n \in Int /\ \A i \in 1..(n - pos) : i \in Int
      BY <1>1
    <3> QED BY <3>1, <3>2
  <2>4. IF pos + 1 <= n THEN n - (pos + 1) + 1 = n - pos ELSE 0 = n - pos
    BY <1>1
  <2> QED BY <2>2, <2>3, <2>4 DEF b
<1>4. k \in Seq(Resting) /\ Len(k) = n - 1 /\ DOMAIN k = 1..(n - 1)
      /\ \A i \in 1..(n - 1) : k[i] = l[m(i)]
  <2> DEFINE a == SubSeq(l, 1, pos - 1)
             c == SubSeq(l, pos + 1, n)
  <2>1. k = a \o c
    BY DEF RemoveAt
  <2> HIDE DEF a, c, k
  <2>2. /\ k \in Seq(Resting) /\ Len(k) = Len(a) + Len(c)
        /\ \A i \in 1..(Len(a) + Len(c)) : k[i] = IF i <= Len(a) THEN a[i] ELSE c[i - Len(a)]
    BY <1>2, <1>3, <2>1, ConcatProperties DEF a, c
  <2>3. Len(a) = pos - 1 /\ Len(c) = n - pos
    BY <1>2, <1>3 DEF a, c
  <2>4. Len(k) = n - 1 /\ DOMAIN k = 1..(n - 1)
    BY <1>1, <2>2, <2>3, LenProperties
  <2>5. ASSUME NEW i \in 1..(n - 1) PROVE k[i] = l[m(i)]
    <3>1. k[i] = IF i <= pos - 1 THEN a[i] ELSE c[i - (pos - 1)]
      BY <1>1, <2>2, <2>3
    <3>2. CASE i < pos
      <4>1. i \in 1..(pos - 1) /\ i <= pos - 1
        BY <1>1, <3>2
      <4>2. a[i] = l[i]
        BY <1>2, <4>1 DEF a
      <4> QED BY <3>1, <3>2, <4>1, <4>2
    <3>3. CASE ~ (i < pos)
      <4>1. i - (pos - 1) \in 1..(n - pos) /\ ~ (i <= pos - 1) /\ pos + (i - (pos - 1)) = i + 1
        BY <1>1, <3>3
      <4>2. c[i - (pos - 1)] = l[i + 1]
        BY <1>3, <4>1 DEF c
      <4> QED BY <3>1, <3>3, <4>1, <4>2
    <3> QED BY <3>2, <3>3
  <2> QED BY <2>2, <2>4, <2>5
<1> HIDE DEF k
<1>5. \A i \in 1..(n - 1) : m(i) \in 1..n /\ m(i) # pos
  BY <1>1
<1>6. \A i, j \in 1..n : i # j => l[i].id # l[j].id
  <2>1. \A i \in 1..n : l[i].id \in Int
    BY <1>1 DEF Resting, Order
  <2>2. \A i, j \in 1..n : i < j => l[i].id < l[j].id
    BY <1>1 DEF LevelOK
  <2> QED BY <1>1, <2>1, <2>2
<1>7. \A i \in 1..(n - 1) :
        /\ k[i].id \in S \ {l[pos].id} /\ terms[k[i].id].side = s /\ terms[k[i].id].price = p
        /\ A[k[i].id] <= k[i].filled /\ k[i].filled < terms[k[i].id].qty
  <2> HIDE DEF m
  <2> QED BY <1>1, <1>4, <1>5, <1>6 DEF LevelOK
<1>8. \A i, j \in 1..(n - 1) : i < j => k[i].id < k[j].id
  <2>1. \A i, j \in 1..(n - 1) : i < j => m(i) < m(j)
    BY <1>1
  <2> HIDE DEF m
  <2> QED BY <1>1, <1>4, <1>5, <2>1 DEF LevelOK
<1>9. k # <<>> => LevelOK(S \ {l[pos].id}, A, k, s, p)
  BY <1>4, <1>7, <1>8 DEF LevelOK
<1>10. ASSUME NEW o, InLevel(l, o), o # l[pos].id PROVE k # <<>> /\ InLevel(k, o)
  <2>1. PICK i \in 1..n : l[i].id = o
    BY <1>1, <1>10 DEF InLevel
  <2>2. i # pos
    BY <1>10, <2>1
  <2> DEFINE j == IF i < pos THEN i ELSE i - 1
  <2>3. j \in 1..(n - 1) /\ m(j) = i
    BY <1>1, <2>2
  <2>4. k[j].id = o
    BY <1>4, <2>1, <2>3
  <2>5. Len(k) # 0
    BY <1>4, <2>3
  <2>6. \E h \in DOMAIN k : k[h].id = o
    BY <1>4, <2>3, <2>4
  <2> QED BY <2>5, <2>6, LongNotEmpty DEF InLevel
<1> QED BY <1>9, <1>10 DEF k

GoesBehind(S, A, l, s, p, x, f) ==
  /\ l = <<>> \/ LevelOK(S, A, l, s, p)
  /\ x \in Order /\ (\A o \in S : o < x) /\ f \in Nat
  /\ Belongs(x, s, p) /\ A[x] <= f /\ f < terms[x].qty

\* A later order is appended to its level, which may be new.
LEMMA LevelAppend ==
  ASSUME NEW S, NEW A, NEW l, NEW s, NEW p, NEW x, NEW f, GoesBehind(S, A, l, s, p, x, f)
  PROVE  LET k == Append(l, [id |-> x, filled |-> f])
         IN /\ k # <<>> /\ LevelOK(S \cup {x}, A, k, s, p) /\ InLevel(k, x)
            /\ \A o : InLevel(l, o) => InLevel(k, o)
<1> DEFINE r == [id |-> x, filled |-> f]
           k == Append(l, r)
           n == Len(l)
<1>0. /\ l = <<>> \/ LevelOK(S, A, l, s, p)
      /\ x \in Order /\ (\A o \in S : o < x) /\ f \in Nat
      /\ Belongs(x, s, p) /\ A[x] <= f /\ f < terms[x].qty
  BY DEF GoesBehind
<1>1. l \in Seq(Resting) /\ n \in Nat /\ DOMAIN l = 1..n
  <2>1. l \in Seq(Resting)
    <3>1. <<>> \in Seq(Resting)
      BY EmptySeq
    <3> QED BY <1>0, <3>1 DEF LevelOK
  <2> QED BY <2>1, LenProperties
<1>2. r \in Resting /\ r.id = x /\ r.filled = f
  BY <1>0 DEF Resting
<1> HIDE DEF r
<1>3. /\ k \in Seq(Resting) /\ k # <<>> /\ Len(k) = n + 1 /\ DOMAIN k = 1..(n + 1)
      /\ \A i \in 1..n : k[i] = l[i]
      /\ k[n + 1] = r
  BY <1>1, <1>2, AppendProperties, LenProperties
<1> HIDE DEF k
<1>4. \A i \in 1..n : l[i].id \in S /\ l[i].id < x
  BY <1>0, <1>1 DEF LevelOK
<1>5. ASSUME NEW i \in 1..(n + 1)
      PROVE  /\ k[i].id \in S \cup {x} /\ terms[k[i].id].side = s /\ terms[k[i].id].price = p
             /\ A[k[i].id] <= k[i].filled /\ k[i].filled < terms[k[i].id].qty
  <2>1. CASE i = n + 1
    BY <1>0, <1>2, <1>3, <2>1 DEF Belongs
  <2>2. CASE i # n + 1
    <3>1. i \in 1..n /\ l # <<>>
      BY <1>1, <2>2
    <3> QED BY <1>0, <1>1, <1>3, <3>1 DEF LevelOK
  <2> QED BY <2>1, <2>2
<1>6. ASSUME NEW i \in 1..(n + 1), NEW j \in 1..(n + 1), i < j PROVE k[i].id < k[j].id
  <2>1. i \in 1..n
    BY <1>1, <1>6
  <2>2. CASE j = n + 1
    BY <1>2, <1>3, <1>4, <2>1, <2>2
  <2>3. CASE j # n + 1
    <3>1. j \in 1..n /\ l # <<>>
      BY <1>1, <2>3
    <3> QED BY <1>0, <1>1, <1>3, <1>6, <2>1, <3>1 DEF LevelOK
  <2> QED BY <2>2, <2>3
<1>7. LevelOK(S \cup {x}, A, k, s, p)
  BY <1>3, <1>5, <1>6 DEF LevelOK
<1>8. InLevel(k, x)
  <2>1. n + 1 \in DOMAIN k /\ k[n + 1].id = x
    BY <1>1, <1>2, <1>3
  <2> QED BY <2>1 DEF InLevel
<1>9. \A o : InLevel(l, o) => InLevel(k, o)
  <2>1. \A i \in DOMAIN l : i \in DOMAIN k /\ k[i] = l[i]
    BY <1>1, <1>3
  <2> QED BY <2>1 DEF InLevel
<1> QED BY <1>3, <1>7, <1>8, <1>9 DEF k, r

-----------------------------------------------------------------------------
(* Order book: one turn of the matching. *)

LEMMA TermsKnown ==
  ASSUME terms \in Seq(Terms), NEW o \in Order
  PROVE  /\ terms[o] \in Terms /\ terms[o].side \in Side /\ terms[o].qty \in Nat \ {0}
         /\ terms[o].price \in Price \cup {NoPrice}
         /\ terms[o].kind \in {"market", "GTC", "IOC", "FOK"}
         /\ terms[o].kind = "market" => terms[o].price = NoPrice
         /\ o \in Nat \ {0}
<1>1. terms[o] \in Terms
  BY ElementOfSeq DEF Order
<1>2. terms[o] \in TermsType
  BY <1>1, OrderBookAssumption
<1>3. o \in Nat \ {0}
  BY LenProperties DEF Order
<1> QED BY <1>1, <1>2, <1>3, OrderBookAssumption DEF TermsType, Side

LEMMA OppositeIs ==
  ASSUME NEW s \in Side
  PROVE  Opposite(s) \in Side /\ Opposite(s) # s /\ \A u \in Side : u # s => u = Opposite(s)
<1>1. \E t \in Side : t # s
  BY DEF Side
<1>2. Opposite(s) \in Side /\ Opposite(s) # s
  BY <1>1 DEF Opposite
<1> QED BY <1>2 DEF Side

\* Orders have finitely many prices, so there is one no other goes before.
LEMMA BestIs ==
  ASSUME terms \in Seq(Terms), NEW s \in Side, NEW P \in SUBSET Price, P # {},
         \A p \in P : \E o \in Order : terms[o].price = p
  PROVE  Best(s, P) \in P /\ \A q \in P \ {Best(s, P)} : Before(s, Best(s, P), q)
<1>1. P \subseteq Nat
  BY OrderBookAssumption
<1>2. \E p \in P : \A q \in P \ {p} : Before(s, p, q)
  <2>1. CASE s = "sell"
    <3>1. PICK p \in P : \A q \in P : p <= q
      BY <1>1, LeastExists
    <3>2. \A q \in P \ {p} : p < q
      BY <1>1, <3>1
    <3> QED BY <2>1, <3>2 DEF Before
  <2>2. CASE s = "buy"
    <3> DEFINE Bound(k, m) == \A i \in 1..k : terms[i].price \in Nat => terms[i].price <= m
               Bad == {k \in 0..Len(terms) : ~ \E m \in Nat : Bound(k, m)}
    <3>0. Len(terms) \in Nat
      BY LenProperties
    <3>1. Bad = {}
      <4> SUFFICES ASSUME Bad # {} PROVE FALSE
        OBVIOUS
      <4>1. PICK k \in Bad : \A j \in Bad : k <= j
        <5>1. Bad \in SUBSET Nat
          BY <3>0
        <5> HIDE DEF Bad
        <5> QED BY <5>1, LeastExists
      <4>2. Bound(0, 0)
        OBVIOUS
      <4>3. k # 0
        BY <4>1, <4>2
      <4>4. k - 1 \in 0..Len(terms) /\ k - 1 \notin Bad /\ k \in Nat
        <5>1. k \in 0..Len(terms)
          OBVIOUS
        <5> HIDE DEF Bad
        <5> QED BY <3>0, <4>1, <4>3, <5>1
      <4>5. PICK m \in Nat : Bound(k - 1, m)
        BY <4>4
      <4>6. PICK m2 \in Nat : m <= m2 /\ (terms[k].price \in Nat => terms[k].price <= m2)
        <5>1. CASE terms[k].price \in Nat
          <6>1. \A a, c \in Nat : \E e \in Nat : a <= e /\ c <= e
            <7> TAKE a, c \in Nat
            <7>1. a + c \in Nat /\ a <= a + c /\ c <= a + c
              OBVIOUS
            <7> QED BY <7>1
          <6> QED BY <5>1, <6>1
        <5>2. CASE terms[k].price \notin Nat
          <6>1. m <= m
            OBVIOUS
          <6> QED BY <5>2, <6>1
        <5> QED BY <5>1, <5>2
      <4>7. ASSUME NEW i \in 1..k, terms[i].price \in Nat PROVE terms[i].price <= m2
        <5>1. CASE i = k
          BY <4>6, <5>1, <4>7
        <5>2. CASE i # k
          <6>1. i \in 1..(k - 1)
            BY <4>4, <5>2
          <6>2. terms[i].price <= m
            BY <4>5, <4>7, <6>1
          <6>3. \A a, c, e \in Nat : a <= c /\ c <= e => a <= e
            OBVIOUS
          <6> QED BY <4>6, <4>7, <6>2, <6>3
        <5> QED BY <5>1, <5>2
      <4>8. Bound(k, m2) /\ m2 \in Nat
        BY <4>6, <4>7
      <4> QED BY <4>1, <4>8
    <3>2. PICK m \in Nat : Bound(Len(terms), m)
      <4>1. Len(terms) \in 0..Len(terms)
        BY <3>0
      <4> QED BY <3>1, <4>1
    <3>3. \A p \in P : p \in Nat /\ p <= m
      BY <1>1, <3>2 DEF Order
    <3> DEFINE Depths == {m - p : p \in P}
    <3>4. Depths \in SUBSET Nat /\ Depths # {}
      BY <3>3
    <3>5. PICK d \in Depths : \A e \in Depths : d <= e
      <4> HIDE DEF Depths
      <4> QED BY <3>4, LeastExists
    <3>6. PICK p \in P : d = m - p
      BY <3>5
    <3>7. \A q \in P \ {p} : p > q
      <4>1. ASSUME NEW q \in P \ {p} PROVE p > q
        <5>1. m - q \in Depths
          OBVIOUS
        <5>2. m - p <= m - q
          BY <3>5, <3>6, <5>1
        <5> QED BY <3>3, <5>2
      <4> QED BY <4>1
    <3> QED BY <2>2, <3>7 DEF Before
  <2> QED BY <2>1, <2>2 DEF Side
<1> QED BY <1>2 DEF Best

Sold(ts) == [x \in Order |-> Traded(ts, x)]
Made(ts, x) == \E i \in DOMAIN ts : ts[i].maker = x
Precedes(x, y) ==
  /\ terms[x].side = terms[y].side
  /\ \/ Before(terms[x].side, terms[x].price, terms[y].price)
     \/ terms[x].price = terms[y].price /\ x < y

\* The book when order o arrives.
Ready(o) ==
  /\ terms \in Seq(Terms) /\ o \in Order \ DOMAIN index /\ DOMAIN index \subseteq Order
  /\ trades \in Seq(Trade) /\ Traded(trades, o) = 0
  /\ \A x \in Order : Traded(trades, x) <= terms[x].qty
  /\ BookOK(book, DOMAIN index, Sold(trades))

\* In the middle of the matching: the book is in order and o's side of it as it
\* was, with the trades so far counted;
WalkBook(w, o) ==
  /\ BookOK(w.book, DOMAIN w.index, Sold(trades \o w.trades))
  /\ DOMAIN w.index \subseteq DOMAIN index /\ \A x \in DOMAIN w.index : w.index[x] = index[x]
  /\ w.book[terms[o].side] = book[terms[o].side]
  /\ DOMAIN w.book[Opposite(terms[o].side)] \subseteq DOMAIN book[Opposite(terms[o].side)]
\* every trade is one o and the other order allow;
WalkTrades(w, o) ==
  /\ w.trades \in Seq(Trade)
  /\ \A i \in DOMAIN w.trades :
       /\ w.trades[i].taker = o /\ w.trades[i].maker \in DOMAIN index
       /\ Belongs(w.trades[i].maker, Opposite(terms[o].side), w.trades[i].price)
       /\ Takes(terms[o], w.trades[i].price)
\* they are what is missing of o, and no order has traded more than it should;
WalkAmounts(w, o) ==
  /\ w.left \in 0..terms[o].qty
  /\ Amount(trades \o w.trades, "taker", o) = terms[o].qty - w.left
  /\ Traded(trades \o w.trades, o) = terms[o].qty - w.left
  /\ \A x \in Order \ {o} : Amount(trades \o w.trades, "taker", x) = Amount(trades, "taker", x)
  /\ \A x \in Order : /\ Traded(trades, x) <= Traded(trades \o w.trades, x)
                      /\ Traded(trades \o w.trades, x) <= terms[x].qty
  /\ w.trades = <<>> <=> w.left = terms[o].qty
\* what is gone has traded, and so is what goes before an order that has.
WalkOrder(w, o) ==
  /\ \A x \in DOMAIN index \ DOMAIN w.index : Made(w.trades, x)
  /\ \A x, y \in DOMAIN index :
       terms[x].side # terms[o].side /\ Precedes(x, y) /\ Made(w.trades, y) => x \notin DOMAIN w.index
WalkOK(w, o) == WalkBook(w, o) /\ WalkTrades(w, o) /\ WalkAmounts(w, o) /\ WalkOrder(w, o)

Across(w, o) == w.book[Opposite(terms[o].side)]
Turn(w, o) == Best(Opposite(terms[o].side), Reach(Across(w, o), o))
First(w, o) == Head(Across(w, o)[Turn(w, o)])
Share(w, o) == Least(w.left, terms[First(w, o).id].qty - First(w, o).filled)
Deal(w, o) == [taker |-> o, maker |-> First(w, o).id, qty |-> Share(w, o), price |-> Turn(w, o)]

Going(w, o) == w.left # 0 /\ Reach(Across(w, o), o) # {}

\* The level whose turn it is, and the order in front of it.
LEMMA TurnIs ==
  ASSUME NEW o, NEW w, Ready(o), WalkBook(w, o), Going(w, o)
  PROVE  /\ Turn(w, o) \in DOMAIN Across(w, o) /\ Turn(w, o) \in Price
         /\ Takes(terms[o], Turn(w, o))
         /\ \A q \in Reach(Across(w, o), o) \ {Turn(w, o)} :
              Before(Opposite(terms[o].side), Turn(w, o), q)
         /\ LevelOK(DOMAIN w.index, Sold(trades \o w.trades), Across(w, o)[Turn(w, o)],
                    Opposite(terms[o].side), Turn(w, o))
<1> DEFINE s == Opposite(terms[o].side)
           P == Reach(Across(w, o), o)
<1>1. o \in Order /\ terms \in Seq(Terms) /\ DOMAIN w.index \subseteq Order
  BY DEF Ready, WalkBook
<1>2. s \in Side
  BY <1>1, TermsKnown, OppositeIs
<1>3. /\ DOMAIN Across(w, o) \subseteq Price
      /\ \A p \in DOMAIN Across(w, o) :
           LevelOK(DOMAIN w.index, Sold(trades \o w.trades), Across(w, o)[p], s, p)
  BY <1>2 DEF WalkBook, BookOK, Across
<1>4. P \subseteq DOMAIN Across(w, o) /\ P # {} /\ \A p \in P : Takes(terms[o], p)
  BY DEF Going, Reach
<1>5. ASSUME NEW p \in P PROVE \E x \in Order : terms[x].price = p
  <2>1. LevelOK(DOMAIN w.index, Sold(trades \o w.trades), Across(w, o)[p], s, p)
    BY <1>3, <1>4
  <2>2. 1 \in DOMAIN Across(w, o)[p]
    BY <2>1, EmptySeq, LenProperties DEF LevelOK
  <2> QED BY <1>1, <2>1, <2>2 DEF LevelOK
<1>6. P \in SUBSET Price
  BY <1>3, <1>4
<1>7. Turn(w, o) \in P /\ \A q \in P \ {Turn(w, o)} : Before(s, Turn(w, o), q)
  <2> HIDE DEF P, s
  <2>1. Turn(w, o) = Best(s, P)
    BY DEF Turn, s, P
  <2> QED BY <1>1, <1>2, <1>4, <1>5, <1>6, <2>1, BestIs
<1> QED BY <1>3, <1>4, <1>6, <1>7

FilledUp(w, o) == First(w, o).filled + Share(w, o) = terms[First(w, o).id].qty
LevelAfter(w, o) ==
  IF FilledUp(w, o) THEN Tail(Across(w, o)[Turn(w, o)])
  ELSE <<[First(w, o) EXCEPT !.filled = @ + Share(w, o)]>> \o Tail(Across(w, o)[Turn(w, o)])

LEMMA MeetIs ==
  ASSUME NEW w, NEW o
  PROVE  Meet(w, o) =
           [book |-> [w.book EXCEPT ![Opposite(terms[o].side)] =
                        WithLevel(@, Turn(w, o), LevelAfter(w, o))],
            index |-> IF FilledUp(w, o) THEN Without(w.index, {First(w, o).id}) ELSE w.index,
            left |-> w.left - Share(w, o),
            trades |-> Append(w.trades, Deal(w, o))]
BY DEF Meet, LevelAfter, FilledUp, Deal, Share, First, Turn, Across

LEMMA TradesNat == Trade \subseteq AnyTrade
BY DEF Trade, AnyTrade, Order

\* The order in front is another one, on the other side, which still has
\* something left; at least 1 is traded, and no more than both have left.
LEMMA DealIs ==
  ASSUME NEW o, NEW w, Ready(o), WalkBook(w, o), WalkAmounts(w, o), Going(w, o)
  PROVE  /\ First(w, o) \in Resting /\ First(w, o).id \in DOMAIN w.index
         /\ First(w, o).id \in Order /\ First(w, o).id # o
         /\ Belongs(First(w, o).id, Opposite(terms[o].side), Turn(w, o))
         /\ Sold(trades \o w.trades)[First(w, o).id] <= First(w, o).filled
         /\ Share(w, o) \in 1..w.left
         /\ First(w, o).filled + Share(w, o) <= terms[First(w, o).id].qty
         /\ Deal(w, o) \in Trade
<1> DEFINE l == Across(w, o)[Turn(w, o)]
           r == First(w, o)
           A == Sold(trades \o w.trades)
           s == Opposite(terms[o].side)
           p == Turn(w, o)
<1>1. LevelOK(DOMAIN w.index, A, l, s, p) /\ p \in Price
  BY TurnIs
<1>2. o \in Order \ DOMAIN index /\ DOMAIN w.index \subseteq Order /\ terms \in Seq(Terms)
      /\ DOMAIN w.index \subseteq DOMAIN index
  BY DEF Ready, WalkBook
<1>3. 1 \in DOMAIN l /\ r = l[1] /\ r \in Resting
  <2>1. l \in Seq(Resting) /\ l # <<>>
    BY <1>1 DEF LevelOK
  <2>2. 1 \in DOMAIN l
    BY <2>1, EmptySeq, LenProperties
  <2> HIDE DEF l
  <2> QED BY <2>1, <2>2, HeadTailProperties DEF First, l
<1>4. /\ r.id \in DOMAIN w.index /\ terms[r.id].side = s /\ terms[r.id].price = p
      /\ A[r.id] <= r.filled /\ r.filled < terms[r.id].qty
  <2> HIDE DEF l, r, A, s, p
  <2> QED BY <1>1, <1>3 DEF LevelOK
<1> HIDE DEF l, r, A, s, p
<1>5. r.id \in Order /\ r.id # o
  BY <1>2, <1>4
<1>6. terms[r.id].qty \in Nat /\ r.filled \in Nat /\ w.left \in Nat /\ w.left # 0
  <2>1. terms[r.id].qty \in Nat /\ terms[o].qty \in Nat
    BY <1>2, <1>5, TermsKnown
  <2> QED BY <1>3, <2>1 DEF Resting, Going, WalkAmounts
<1>7. Share(w, o) = Least(w.left, terms[r.id].qty - r.filled)
  BY DEF Share, r
<1>8. Share(w, o) \in 1..w.left /\ r.filled + Share(w, o) <= terms[r.id].qty
  BY <1>4, <1>6, <1>7 DEF Least
<1>9. Deal(w, o) \in Trade
  <2>1. Deal(w, o) = [taker |-> o, maker |-> r.id, qty |-> Share(w, o), price |-> p]
    BY DEF Deal, r, p
  <2>2. Share(w, o) \in Nat \ {0}
    BY <1>6, <1>8
  <2> QED BY <1>1, <1>2, <1>5, <2>1, <2>2 DEF Trade
<1>10. Belongs(r.id, s, p)
  BY <1>4 DEF Belongs
<1> QED BY <1>3, <1>4, <1>5, <1>8, <1>9, <1>10 DEF r, A, s, p

\* Nobody who goes before it is left.
LEMMA NoneAhead ==
  ASSUME NEW o, NEW w, Ready(o), WalkBook(w, o), WalkAmounts(w, o), Going(w, o),
         NEW x \in DOMAIN w.index, Precedes(x, First(w, o).id)
  PROVE  FALSE
<1> DEFINE l == Across(w, o)[Turn(w, o)]
           r == First(w, o)
           s == Opposite(terms[o].side)
           p == Turn(w, o)
           q == terms[x].price
<1>1. o \in Order /\ DOMAIN w.index \subseteq Order /\ terms \in Seq(Terms)
  BY DEF Ready, WalkBook
<1>2. /\ r.id \in Order /\ terms[r.id].side = s /\ terms[r.id].price = p
      /\ terms[x].side = s /\ (Before(s, q, p) \/ (q = p /\ x < r.id))
  BY DealIs DEF Precedes, Belongs
<1>3. q \in DOMAIN Across(w, o) /\ InLevel(Across(w, o)[q], x)
  BY <1>2 DEF WalkBook, BookOK, Found, Across
<1>4. /\ p \in Price /\ Takes(terms[o], p) /\ LevelOK(DOMAIN w.index, Sold(trades \o w.trades), l, s, p)
      /\ \A z \in Reach(Across(w, o), o) \ {p} : Before(s, p, z)
  BY TurnIs
<1>5. q \in Price /\ s \in Side /\ terms[o].side \in Side /\ s # terms[o].side
      /\ terms[o].price \in Price \cup {NoPrice}
  <2>1. terms[o].side \in Side /\ terms[o].price \in Price \cup {NoPrice}
    BY <1>1, TermsKnown
  <2>2. s \in Side /\ s # terms[o].side
    BY <2>1, OppositeIs
  <2>3. DOMAIN Across(w, o) \subseteq Price
    BY <2>2 DEF WalkBook, BookOK, Across
  <2> QED BY <1>3, <2>1, <2>2, <2>3
<1> HIDE DEF s, p, q, r, l
<1>6. p \in Nat /\ q \in Nat /\ (terms[o].price = NoPrice \/ terms[o].price \in Nat)
  BY <1>4, <1>5, OrderBookAssumption
<1>7. CASE Before(s, q, p)
  <2>1. Takes(terms[o], q)
    BY <1>4, <1>5, <1>6, <1>7 DEF Takes, Before, Side
  <2>2. q \in Reach(Across(w, o), o) /\ q # p
    BY <1>3, <1>6, <1>7, <2>1 DEF Reach, Before
  <2>3. Before(s, p, q)
    BY <1>4, <2>2
  <2> QED BY <1>6, <1>7, <2>3 DEF Before
<1>8. CASE q = p /\ x < r.id
  <2>1. l \in Seq(Resting) /\ l # <<>> /\ \A i, j \in DOMAIN l : i < j => l[i].id < l[j].id
    BY <1>4 DEF LevelOK
  <2>2. PICK i \in DOMAIN l : l[i].id = x
    BY <1>3, <1>8 DEF InLevel, l, p
  <2>3. 1 \in DOMAIN l /\ i \in Nat \ {0} /\ r = l[1]
    <3>1. DOMAIN l = 1..Len(l) /\ Len(l) \in Nat \ {0}
      BY <2>1, EmptySeq, LenProperties
    <3>2. r = Head(l)
      BY DEF r, l, First
    <3> QED BY <2>1, <2>2, <3>1, <3>2, HeadTailProperties
  <2>4. r.id \in Nat /\ x \in Nat
    BY <1>1, <1>2, TermsKnown
  <2>5. CASE i = 1
    BY <1>8, <2>2, <2>3, <2>4, <2>5
  <2>6. CASE i # 1
    <3>1. l[1].id < l[i].id
      BY <2>1, <2>2, <2>3, <2>6
    <3> QED BY <1>8, <2>2, <2>3, <2>4, <3>1
  <2> QED BY <2>5, <2>6
<1> QED BY <1>2, <1>7, <1>8 DEF q

LEMMA OneMore ==
  ASSUME NEW S, NEW a \in Seq(S), NEW b \in Seq(S), NEW t \in S
  PROVE  /\ a \o Append(b, t) = Append(a \o b, t) /\ a \o b \in Seq(S)
         /\ Append(b, t) \in Seq(S)
<1>1. Append(b, t) = b \o <<t>> /\ <<t>> \in Seq(S) /\ a \o b \in Seq(S) /\ Append(b, t) \in Seq(S)
  BY AppendIsConcat, ConcatProperties, AppendProperties
<1>2. (a \o b) \o <<t>> = a \o (b \o <<t>>)
  BY <1>1, ConcatAssociative
<1>3. Append(a \o b, t) = (a \o b) \o <<t>>
  BY <1>1, AppendIsConcat
<1> QED BY <1>1, <1>2, <1>3

LEMMA OrdersGrow ==
  ASSUME NEW o, NEW w, Ready(o), WalkBook(w, o), WalkTrades(w, o), WalkAmounts(w, o), Going(w, o)
  PROVE  /\ trades \o w.trades \in Seq(AnyTrade) /\ Deal(w, o) \in AnyTrade
         /\ trades \o Append(w.trades, Deal(w, o)) = Append(trades \o w.trades, Deal(w, o))
         /\ Append(w.trades, Deal(w, o)) \in Seq(Trade)
<1>1. trades \in Seq(Trade) /\ w.trades \in Seq(Trade) /\ Deal(w, o) \in Trade
  BY DealIs DEF Ready, WalkTrades
<1>2. trades \o w.trades \in Seq(Trade) /\ Append(w.trades, Deal(w, o)) \in Seq(Trade)
      /\ trades \o Append(w.trades, Deal(w, o)) = Append(trades \o w.trades, Deal(w, o))
  BY <1>1, OneMore
<1>3. trades \o w.trades \in Seq(AnyTrade)
  BY <1>2, TradesNat, SeqMonotonic
<1> QED BY <1>1, <1>2, <1>3, TradesNat

\* What a deal adds.
LEMMA DealAdds ==
  ASSUME NEW o, NEW w, Ready(o), WalkBook(w, o), WalkTrades(w, o), WalkAmounts(w, o), Going(w, o),
         NEW x \in Order
  PROVE  LET old == trades \o w.trades
             new == trades \o Append(w.trades, Deal(w, o))
         IN /\ Traded(old, x) \in Nat
            /\ x \notin {o, First(w, o).id} => Traded(new, x) = Traded(old, x)
            /\ x \in {o, First(w, o).id} => Traded(new, x) = Traded(old, x) + Share(w, o)
            /\ Amount(old, "taker", x) \in Nat
            /\ x # o => Amount(new, "taker", x) = Amount(old, "taker", x)
            /\ x = o => Amount(new, "taker", x) = Amount(old, "taker", x) + Share(w, o)
<1> DEFINE old == trades \o w.trades
           new == trades \o Append(w.trades, Deal(w, o))
           t == Deal(w, o)
<1>1. old \in Seq(AnyTrade) /\ t \in AnyTrade /\ new = Append(old, t)
  BY OrdersGrow
<1>2. t.taker = o /\ t.maker = First(w, o).id /\ t.qty = Share(w, o) /\ t.taker # t.maker
  BY DealIs DEF Deal
<1> HIDE DEF old, new, t
<1>3. /\ Traded(old, x) \in Nat
      /\ x \notin {t.taker, t.maker} => Traded(new, x) = Traded(old, x)
      /\ x \in {t.taker, t.maker} => Traded(new, x) = Traded(old, x) + t.qty
  BY <1>1, <1>2, TradedAppend
<1>4. /\ Amount(old, "taker", x) \in Nat
      /\ Amount(new, "taker", x) = Amount(old, "taker", x) + Part(t, "taker", x)
  BY <1>1, AmountAppend
<1>5. Part(t, "taker", x) = IF t.taker = x THEN t.qty ELSE 0
  BY DEF Part
<1>6. /\ x # o => Amount(new, "taker", x) = Amount(old, "taker", x)
      /\ x = o => Amount(new, "taker", x) = Amount(old, "taker", x) + Share(w, o)
  BY <1>2, <1>4, <1>5
<1> QED BY <1>2, <1>3, <1>4, <1>6 DEF old, new

LEMMA MeetBook ==
  ASSUME NEW o, NEW w, Ready(o), WalkBook(w, o), WalkTrades(w, o), WalkAmounts(w, o), Going(w, o)
  PROVE  WalkBook(Meet(w, o), o)
<1> DEFINE s == Opposite(terms[o].side)
           p == Turn(w, o)
           l == Across(w, o)[Turn(w, o)]
           r == First(w, o)
           n == Share(w, o)
           S == DOMAIN w.index
           A == Sold(trades \o w.trades)
           B == Sold(trades \o Append(w.trades, Deal(w, o)))
           T == IF FilledUp(w, o) THEN S \ {r.id} ELSE S
           k == LevelAfter(w, o)
           v == Meet(w, o)
<1>1. /\ v.book = [w.book EXCEPT ![s] = WithLevel(@, p, k)] /\ v.trades = Append(w.trades, Deal(w, o))
      /\ v.index = IF FilledUp(w, o) THEN Without(w.index, {r.id}) ELSE w.index
  BY MeetIs
<1>2. S \subseteq Order /\ S \subseteq DOMAIN index /\ o \in Order /\ terms \in Seq(Terms)
  BY DEF WalkBook, Ready
<1>3. /\ r \in Resting /\ r.id \in S /\ r.id # o /\ Belongs(r.id, s, p) /\ A[r.id] <= r.filled
      /\ n \in Nat /\ r.filled + n <= terms[r.id].qty
  <2>1. w.left \in Nat
    BY <1>2, TermsKnown DEF WalkAmounts
  <2> QED BY <2>1, DealIs
<1>4. DOMAIN v.index = T /\ \A x \in T : v.index[x] = w.index[x]
  BY <1>1, <1>3 DEF Without
<1>5. LevelOK(S, A, l, s, p) /\ p \in Price /\ r = Head(l) /\ p \in DOMAIN Across(w, o)
  BY TurnIs DEF First
<1>6. s \in Side /\ s # terms[o].side /\ terms[o].side \in Side
  BY <1>2, TermsKnown, OppositeIs
<1>7. \A x \in S \ {r.id} : B[x] = A[x]
  <2>1. ASSUME NEW x \in S \ {r.id} PROVE B[x] = A[x]
    <3>1. x \in Order /\ x # o /\ x # r.id
      BY <1>2, <2>1 DEF Ready
    <3>2. Traded(trades \o Append(w.trades, Deal(w, o)), x) = Traded(trades \o w.trades, x)
      BY <3>1, DealAdds
    <3> QED BY <3>1, <3>2 DEF Sold
  <2> QED BY <2>1
<1>8. B[r.id] <= r.filled + n
  <2>1. r.id \in Order
    BY <1>2, <1>3
  <2>2. /\ Traded(trades \o w.trades, r.id) \in Nat
        /\ Traded(trades \o Append(w.trades, Deal(w, o)), r.id) = Traded(trades \o w.trades, r.id) + n
    BY <2>1, DealAdds
  <2>3. A[r.id] = Traded(trades \o w.trades, r.id)
        /\ B[r.id] = Traded(trades \o Append(w.trades, Deal(w, o)), r.id)
    BY <2>1 DEF Sold
  <2>4. r.filled \in Nat
    BY <1>3 DEF Resting
  <2> HIDE DEF A, B, r, n
  <2> QED BY <1>3, <2>2, <2>3, <2>4
<1>9. /\ k # <<>> => LevelOK(T, B, k, s, p)
      /\ \A x \in T : InLevel(l, x) => k # <<>> /\ InLevel(k, x)
  <2>1. CASE FilledUp(w, o)
    <3>1. k = Tail(l) /\ T = S \ {Head(l).id}
      BY <1>5, <2>1 DEF LevelAfter
    <3> HIDE DEF k, T, l, A, B, S, s, p, r
    <3>2. \A x \in S \ {Head(l).id} : B[x] = A[x]
      BY <1>5, <1>7
    <3>3. /\ Tail(l) # <<>> => LevelOK(S \ {Head(l).id}, B, Tail(l), s, p)
          /\ \A x : InLevel(l, x) /\ x # Head(l).id => Tail(l) # <<>> /\ InLevel(Tail(l), x)
      BY <1>5, <3>2, LevelTail
    <3> QED BY <3>1, <3>3
  <2>2. CASE ~ FilledUp(w, o)
    <3>1. k = <<[Head(l) EXCEPT !.filled = @ + n]>> \o Tail(l) /\ T = S
      BY <1>5, <2>2 DEF LevelAfter
    <3>2. r.filled + n < terms[r.id].qty
      <4>1. r.filled + n # terms[r.id].qty
        BY <2>2 DEF FilledUp
      <4>2. r.filled \in Nat /\ terms[r.id].qty \in Nat
        BY <1>2, <1>3, TermsKnown DEF Resting
      <4> HIDE DEF r, n
      <4> QED BY <1>3, <4>1, <4>2
    <3> HIDE DEF k, T, l, A, B, S, s, p, r, n
    <3>3. \A x \in S \ {Head(l).id} : B[x] = A[x]
      BY <1>5, <1>7
    <3>4. LevelOK(S, B, k, s, p) /\ k # <<>> /\ \A x : InLevel(l, x) => InLevel(k, x)
      BY <1>3, <1>5, <1>8, <3>1, <3>2, <3>3, LevelHead
    <3> QED BY <3>1, <3>4
  <2> QED BY <2>1, <2>2
<1>10. BookOK(v.book, DOMAIN v.index, Sold(trades \o v.trades))
  <2>1. BookOK(w.book, S, A)
    BY DEF WalkBook
  <2>2. ASSUME NEW x \in T, Belongs(x, s, p) PROVE k # <<>> /\ InLevel(k, x)
    <3>1. x \in S
      OBVIOUS
    <3>2. Found(w.book, x)
      BY <2>1, <3>1 DEF BookOK
    <3>3. InLevel(l, x)
      BY <2>2, <3>2 DEF Found, Belongs, Across
    <3> QED BY <1>9, <3>3
  <2>3. ASSUME NEW x \in S, ~ Belongs(x, s, p) PROVE x \in T /\ B[x] = A[x]
    <3>1. x # r.id
      BY <1>3, <2>3
    <3> QED BY <1>7, <3>1
  <2>4. T \subseteq S
    OBVIOUS
  <2>5. B = Sold(trades \o v.trades)
    BY <1>1
  <2> HIDE DEF k, T, A, B, S, s, p, r, n, v, l
  <2>6. BookOK([w.book EXCEPT ![s] = WithLevel(@, p, k)], T, B)
    BY <1>5, <1>6, <1>9, <2>1, <2>2, <2>3, <2>4, LevelReplaced
  <2> QED BY <1>1, <1>4, <2>5, <2>6
<1>11. DOMAIN v.index \subseteq DOMAIN index /\ \A x \in DOMAIN v.index : v.index[x] = index[x]
  BY <1>2, <1>4 DEF WalkBook
<1>12. v.book[terms[o].side] = book[terms[o].side]
  <2>1. DOMAIN w.book = Side /\ w.book[terms[o].side] = book[terms[o].side]
    BY DEF WalkBook, BookOK
  <2> QED BY <1>1, <1>6, <2>1
<1>13. DOMAIN v.book[s] \subseteq DOMAIN book[s]
  <2>1. /\ DOMAIN w.book = Side /\ DOMAIN Across(w, o) \subseteq DOMAIN book[s]
        /\ Across(w, o) = w.book[s]
    BY DEF WalkBook, BookOK, Across
  <2>2. v.book[s] = WithLevel(w.book[s], p, k)
    BY <1>1, <1>6, <2>1
  <2> HIDE DEF v, s, p, k
  <2> QED BY <1>5, <2>1, <2>2 DEF WithLevel, Without
<1> QED BY <1>10, <1>11, <1>12, <1>13 DEF WalkBook

LEMMA MeetTrades ==
  ASSUME NEW o, NEW w, Ready(o), WalkBook(w, o), WalkTrades(w, o), WalkAmounts(w, o), Going(w, o)
  PROVE  WalkTrades(Meet(w, o), o)
<1> DEFINE t == Deal(w, o)
           us == Append(w.trades, t)
           n == Len(w.trades)
<1>1. Meet(w, o).trades = us
  BY MeetIs
<1>2. w.trades \in Seq(Trade) /\ t \in Trade /\ us \in Seq(Trade)
  BY DealIs, OrdersGrow DEF WalkTrades
<1>3. /\ n \in Nat /\ DOMAIN w.trades = 1..n /\ DOMAIN us = 1..(n + 1)
      /\ us[n + 1] = t /\ \A i \in 1..n : us[i] = w.trades[i]
  <2> HIDE DEF t
  <2> QED BY <1>2, AppendProperties, LenProperties
<1>4. /\ t.taker = o /\ t.maker \in DOMAIN index
      /\ Belongs(t.maker, Opposite(terms[o].side), t.price) /\ Takes(terms[o], t.price)
  <2>1. DOMAIN w.index \subseteq DOMAIN index
    BY DEF WalkBook
  <2> QED BY <2>1, DealIs, TurnIs DEF Deal
<1> HIDE DEF t, us
<1>5. ASSUME NEW i \in 1..(n + 1)
      PROVE  /\ us[i].taker = o /\ us[i].maker \in DOMAIN index
             /\ Belongs(us[i].maker, Opposite(terms[o].side), us[i].price)
             /\ Takes(terms[o], us[i].price)
  <2>1. CASE i = n + 1
    BY <1>3, <1>4, <2>1
  <2>2. CASE i # n + 1
    <3>1. i \in 1..n
      BY <1>3, <2>2
    <3> QED BY <1>3, <3>1 DEF WalkTrades
  <2> QED BY <2>1, <2>2
<1> QED BY <1>1, <1>2, <1>3, <1>5 DEF WalkTrades

LEMMA MeetAmounts ==
  ASSUME NEW o, NEW w, Ready(o), WalkBook(w, o), WalkTrades(w, o), WalkAmounts(w, o), Going(w, o)
  PROVE  WalkAmounts(Meet(w, o), o) /\ Meet(w, o).left < w.left
<1> DEFINE old == trades \o w.trades
           new == trades \o Append(w.trades, Deal(w, o))
           n == Share(w, o)
           r == First(w, o)
           v == Meet(w, o)
           qty == terms[o].qty
<1>1. v.left = w.left - n /\ v.trades = Append(w.trades, Deal(w, o)) /\ new = trades \o v.trades
  BY MeetIs
<1>2. /\ o \in Order /\ qty \in Nat /\ w.left \in 0..qty /\ n \in 1..w.left
      /\ Amount(old, "taker", o) = qty - w.left
      /\ \A x \in Order \ {o} : Amount(old, "taker", x) = Amount(trades, "taker", x)
      /\ \A x \in Order : Traded(trades, x) <= Traded(old, x) /\ Traded(old, x) <= terms[x].qty
  <2>1. o \in Order /\ terms \in Seq(Terms)
    BY DEF Ready
  <2>2. terms[o].qty \in Nat
    BY <2>1, TermsKnown
  <2> QED BY <2>1, <2>2, DealIs DEF WalkAmounts
<1>3. ASSUME NEW x \in Order
      PROVE  /\ Traded(old, x) \in Nat
             /\ x \notin {o, r.id} => Traded(new, x) = Traded(old, x)
             /\ x \in {o, r.id} => Traded(new, x) = Traded(old, x) + n
             /\ x # o => Amount(new, "taker", x) = Amount(old, "taker", x)
             /\ x = o => Amount(new, "taker", x) = Amount(old, "taker", x) + n
  BY DealAdds
<1>4. v.left \in 0..qty /\ v.left < w.left /\ v.left # qty
  <2> HIDE DEF v, n, qty
  <2> QED BY <1>1, <1>2
<1>5. Amount(new, "taker", o) = qty - v.left
  <2>1. Amount(new, "taker", o) = Amount(old, "taker", o) + n
    BY <1>2, <1>3
  <2> HIDE DEF v, n, qty, old, new
  <2> QED BY <1>1, <1>2, <2>1
<1>6. \A x \in Order \ {o} : Amount(new, "taker", x) = Amount(trades, "taker", x)
  <2> HIDE DEF old, new
  <2> QED BY <1>2, <1>3
<1>7. Traded(old, o) = qty - w.left
  BY DEF WalkAmounts
<1>8. ASSUME NEW x \in Order PROVE Traded(new, x) <= terms[x].qty
  <2>1. CASE x = r.id
    <3>1. Sold(old)[r.id] <= r.filled /\ r.filled + n <= terms[r.id].qty /\ r \in Resting
      BY DealIs
    <3>2. Sold(old)[x] = Traded(old, x) /\ terms[x].qty \in Nat
      BY TermsKnown DEF Sold, Ready
    <3>3. r.filled \in Nat
      BY <3>1 DEF Resting
    <3> HIDE DEF old, new, n, r
    <3> QED BY <1>2, <1>3, <2>1, <3>1, <3>2, <3>3
  <2>2. CASE x = o
    BY <1>2, <1>3, <1>7, <2>2
  <2>3. CASE x \notin {o, r.id}
    BY <1>2, <1>3, <2>3
  <2> QED BY <2>1, <2>2, <2>3
<1>9. Traded(new, o) = qty - v.left
  <2>1. Traded(new, o) = Traded(old, o) + n
    BY <1>2, <1>3
  <2> HIDE DEF v, n, qty, old, new
  <2> QED BY <1>1, <1>2, <1>7, <2>1
<1>10. v.trades # <<>>
  BY <1>1, DealIs, AppendProperties DEF WalkTrades
<1>11. ASSUME NEW x \in Order PROVE Traded(trades, x) <= Traded(new, x)
  <2>1. Traded(trades, x) \in Nat
    BY TradesNat, SeqMonotonic, TradedNat DEF Ready
  <2>2. n \in Nat
    <3> HIDE DEF n, qty
    <3> QED BY <1>2
  <2>3. Traded(new, x) \in {Traded(old, x), Traded(old, x) + n}
    BY <1>3
  <2> HIDE DEF old, new, n
  <2> QED BY <1>2, <1>3, <2>1, <2>2, <2>3
<1> HIDE DEF old, new, v, qty, n
<1> QED BY <1>1, <1>4, <1>5, <1>6, <1>8, <1>9, <1>10, <1>11 DEF WalkAmounts, v, qty


LEMMA MeetOrder ==
  ASSUME NEW o, NEW w, Ready(o), WalkOK(w, o), Going(w, o)
  PROVE  WalkOrder(Meet(w, o), o)
<1> DEFINE v == Meet(w, o)
           t == Deal(w, o)
           r == First(w, o)
<1>1. v.trades = Append(w.trades, t) /\ t.maker = r.id
      /\ v.index = IF FilledUp(w, o) THEN Without(w.index, {r.id}) ELSE w.index
  BY MeetIs DEF Deal
<1>2. DOMAIN v.index \subseteq DOMAIN w.index /\ \A x \in DOMAIN w.index \ DOMAIN v.index : x = r.id
  BY <1>1 DEF Without
<1>3. /\ \A x : Made(w.trades, x) => Made(v.trades, x)
      /\ Made(v.trades, r.id)
      /\ \A x : Made(v.trades, x) => Made(w.trades, x) \/ x = r.id
  <2>1. w.trades \in Seq(Trade) /\ t \in Trade
    BY DealIs DEF WalkOK, WalkTrades
  <2>2. /\ Len(w.trades) \in Nat /\ DOMAIN w.trades = 1..Len(w.trades)
        /\ DOMAIN v.trades = 1..(Len(w.trades) + 1)
        /\ v.trades[Len(w.trades) + 1] = t
        /\ \A i \in 1..Len(w.trades) : v.trades[i] = w.trades[i]
    <3> HIDE DEF v, t
    <3> QED BY <1>1, <2>1, AppendProperties, LenProperties
  <2> HIDE DEF v, t, r
  <2>3. \A x : Made(w.trades, x) => Made(v.trades, x)
    BY <2>2 DEF Made
  <2>4. Made(v.trades, r.id)
    BY <1>1, <2>2 DEF Made
  <2>5. ASSUME NEW x, Made(v.trades, x) PROVE Made(w.trades, x) \/ x = r.id
    <3>1. PICK i \in 1..(Len(w.trades) + 1) : v.trades[i].maker = x
      BY <2>2, <2>5 DEF Made
    <3>2. CASE i = Len(w.trades) + 1
      BY <1>1, <2>2, <3>1, <3>2
    <3>3. CASE i # Len(w.trades) + 1
      <4>1. i \in 1..Len(w.trades)
        BY <2>2, <3>3
      <4> QED BY <2>2, <3>1, <4>1 DEF Made
    <3> QED BY <3>2, <3>3
  <2> QED BY <2>3, <2>4, <2>5
<1> HIDE DEF v, t
<1>4. \A x \in DOMAIN index \ DOMAIN v.index : Made(v.trades, x)
  BY <1>2, <1>3 DEF WalkOK, WalkOrder
<1>5. ASSUME NEW x \in DOMAIN index, NEW y \in DOMAIN index, terms[x].side # terms[o].side,
             Precedes(x, y), Made(v.trades, y)
      PROVE  x \notin DOMAIN v.index
  <2>1. CASE Made(w.trades, y)
    BY <1>2, <1>5, <2>1 DEF WalkOK, WalkOrder
  <2>2. CASE y = r.id
    <3>1. x \notin DOMAIN w.index
      BY <1>5, <2>2, NoneAhead DEF WalkOK
    <3> QED BY <1>2, <3>1
  <2> QED BY <1>3, <1>5, <2>1, <2>2
<1> QED BY <1>4, <1>5 DEF WalkOrder, v

LEMMA MeetKeeps ==
  ASSUME NEW o, NEW w, Ready(o), WalkOK(w, o), Going(w, o)
  PROVE  WalkOK(Meet(w, o), o) /\ Meet(w, o).left < w.left
BY MeetBook, MeetTrades, MeetAmounts, MeetOrder DEF WalkOK

LEMMA UnmatchedOK ==
  ASSUME NEW o, Ready(o)
  PROVE  WalkOK(Unmatched(o), o)
<1> DEFINE u == Unmatched(o)
<1>1. u.book = book /\ u.index = index /\ u.left = terms[o].qty /\ u.trades = <<>>
  BY DEF Unmatched
<1>2. trades \in Seq(Trade) /\ terms \in Seq(Terms) /\ o \in Order /\ terms[o].qty \in Nat
  BY TermsKnown DEF Ready
<1>3. trades \o u.trades = trades /\ <<>> \in Seq(Trade) /\ DOMAIN <<>> = {}
  BY <1>1, <1>2, ConcatEmptySeq, EmptySeq
<1>4. Amount(trades, "taker", o) = 0
  <2>1. trades \in Seq(AnyTrade)
    BY <1>2, TradesNat, SeqMonotonic
  <2>2. Amount(trades, "taker", o) \in Nat /\ Amount(trades, "maker", o) \in Nat
    BY <2>1, TradedNat
  <2> QED BY <2>2 DEF Ready, Traded
<1> HIDE DEF u
<1>5. WalkBook(u, o)
  BY <1>1, <1>3 DEF WalkBook, Ready
<1>6. WalkTrades(u, o)
  BY <1>1, <1>3 DEF WalkTrades
<1>7. WalkAmounts(u, o)
  <2>1. \A x \in Order : Traded(trades, x) \in Nat
    BY <1>2, TradesNat, SeqMonotonic, TradedNat
  <2> QED BY <1>1, <1>2, <1>3, <1>4, <2>1 DEF WalkAmounts, Ready
<1>8. WalkOrder(u, o)
  BY <1>1, <1>3 DEF WalkOrder, Made
<1> QED BY <1>5, <1>6, <1>7, <1>8 DEF WalkOK, u

\* The matching ends with nothing left of o or nothing it would take.
LEMMA MatchedOK ==
  ASSUME NEW o, Ready(o)
  PROVE  WalkOK(Matched(o), o) /\ ~ Going(Matched(o), o)
<1> DEFINE n == terms[o].qty
           U == Unmatched(o)
           over(w) == w.left = 0 \/ Reach(w.book[Opposite(terms[o].side)], o) = {}
           step(w) == IF over(w) THEN w ELSE Meet(w, o)
           Solves(m, f) == f[0] = U /\ \A i \in 1..m : f[i] = step(f[i - 1])
           Bad == {m \in 0..n : ~ \E f : Solves(m, f)}
           Eq(f) == f = [i \in 0..n |-> IF i = 0 THEN U ELSE IF over(f[i - 1]) THEN f[i - 1] ELSE Meet(f[i - 1], o)]
<1>1. n \in Nat
  BY TermsKnown DEF Ready
<1>2. Bad = {}
  <2> SUFFICES ASSUME Bad # {} PROVE FALSE
    OBVIOUS
  <2>1. PICK m \in Bad : \A k \in Bad : m <= k
    <3>1. Bad \in SUBSET Nat
      BY <1>1
    <3> HIDE DEF Bad
    <3> QED BY <3>1, LeastExists
  <2>2. CASE m = 0
    <3> DEFINE g == [i \in 0..0 |-> U]
    <3>1. g[0] = U
      OBVIOUS
    <3>2. Solves(0, g)
      BY <3>1
    <3> HIDE DEF g, Solves
    <3> QED BY <2>1, <2>2, <3>2
  <2>3. CASE m # 0
    <3>1. m \in 1..n /\ m - 1 \in 0..n /\ m - 1 \notin Bad
      <4>1. m \in 0..n
        OBVIOUS
      <4> HIDE DEF Bad
      <4> QED BY <1>1, <2>1, <2>3, <4>1
    <3>2. PICK f : Solves(m - 1, f)
      <4> HIDE DEF Solves
      <4> QED BY <3>1
    <3> DEFINE g == [i \in 0..m |-> IF i = m THEN step(f[m - 1]) ELSE f[i]]
    <3> HIDE DEF step, U, n
    <3>3. g[0] = U
      BY <3>1, <3>2
    <3>4. ASSUME NEW i \in 1..m PROVE g[i] = step(g[i - 1])
      <4>1. CASE i = m
        BY <3>1, <4>1
      <4>2. CASE i # m
        <5>1. i \in 1..(m - 1) /\ i - 1 \in 0..m /\ i - 1 # m /\ i \in 0..m
          BY <3>1, <4>2
        <5>2. f[i] = step(f[i - 1])
          BY <3>2, <5>1
        <5> QED BY <5>1, <5>2, <4>2
      <4> QED BY <4>1, <4>2
    <3>5. Solves(m, g)
      BY <3>3, <3>4
    <3> HIDE DEF g, Solves
    <3> QED BY <2>1, <3>5
  <2> QED BY <2>2, <2>3
<1>3. PICK f : Solves(n, f)
  <2>1. n \in 0..n
    BY <1>1
  <2> HIDE DEF Solves
  <2> QED BY <1>2, <2>1
<1> DEFINE e == [i \in 0..n |-> f[i]]
<1>4. Eq(e)
  <2>1. ASSUME NEW i \in 0..n
        PROVE  f[i] = IF i = 0 THEN U ELSE IF over(e[i - 1]) THEN e[i - 1] ELSE Meet(e[i - 1], o)
    <3>1. CASE i = 0
      BY <1>3, <3>1
    <3>2. CASE i # 0
      <4>1. i \in 1..n /\ i - 1 \in 0..n
        BY <1>1, <3>2
      <4>2. f[i] = step(f[i - 1]) /\ e[i - 1] = f[i - 1]
        BY <1>3, <4>1
      <4> HIDE DEF e, over, U
      <4> QED BY <3>2, <4>2
    <3> QED BY <3>1, <3>2
  <2> HIDE DEF over, U, n
  <2> QED BY <2>1
<1> DEFINE h == CHOOSE f_1 : Eq(f_1)
<1>5. Eq(h)
  <2> HIDE DEF Eq, e
  <2> QED BY <1>4
<1>6. Matched(o) = h[n]
  BY DEF Matched
<1>7. h[0] = U /\ \A i \in 1..n : h[i] = step(h[i - 1])
  <2> HIDE DEF h, over, U
  <2>1. h[0] = U
    BY <1>1, <1>5
  <2>2. ASSUME NEW i \in 1..n PROVE h[i] = step(h[i - 1])
    <3>1. i \in 0..n /\ i # 0
      BY <1>1
    <3> QED BY <1>5, <3>1
  <2> QED BY <2>1, <2>2
<1> HIDE DEF h
<1> DEFINE Fine(i) == WalkOK(h[i], o) /\ (Going(h[i], o) => h[i].left + i <= n)
           Wrong == {i \in 0..n : ~ Fine(i)}
<1>8. \A w : over(w) <=> ~ Going(w, o)
  BY DEF Going, Across
<1>9. Wrong = {}
  <2> SUFFICES ASSUME Wrong # {} PROVE FALSE
    OBVIOUS
  <2>1. PICK m \in Wrong : \A k \in Wrong : m <= k
    <3>1. Wrong \in SUBSET Nat
      BY <1>1
    <3> HIDE DEF Wrong
    <3> QED BY <3>1, LeastExists
  <2>2. m # 0
    <3>1. h[0] = U /\ U.left = n
      BY <1>7 DEF Unmatched
    <3>2. WalkOK(U, o)
      BY UnmatchedOK
    <3> HIDE DEF U
    <3> QED BY <1>1, <2>1, <3>1, <3>2
  <2>3. m \in 1..n /\ m - 1 \in 0..n /\ m - 1 \notin Wrong
    <3>1. m \in 0..n
      OBVIOUS
    <3> HIDE DEF Wrong
    <3> QED BY <1>1, <2>1, <2>2, <3>1
  <2>4. Fine(m - 1)
    BY <2>3
  <2>5. h[m] = step(h[m - 1])
    BY <1>7, <2>3
  <2>6. CASE ~ Going(h[m - 1], o)
    <3>1. h[m] = h[m - 1]
      BY <1>8, <2>5, <2>6
    <3> QED BY <2>1, <2>4, <2>6, <3>1
  <2>7. CASE Going(h[m - 1], o)
    <3>1. h[m] = Meet(h[m - 1], o)
      BY <1>8, <2>5, <2>7
    <3>2. WalkOK(h[m], o) /\ h[m].left < h[m - 1].left
      BY <2>4, <2>7, <3>1, MeetKeeps
    <3>3. h[m - 1].left + (m - 1) <= n /\ h[m].left \in Nat /\ h[m - 1].left \in Nat
      <4>1. h[m].left \in 0..n /\ h[m - 1].left \in 0..n
        BY <2>4, <3>2 DEF WalkOK, WalkAmounts
      <4> HIDE DEF n
      <4> QED BY <1>1, <2>4, <2>7, <4>1
    <3>4. h[m].left + m <= n
      <4> HIDE DEF n
      <4> QED BY <1>1, <2>3, <3>2, <3>3
    <3> QED BY <2>1, <3>2, <3>4
  <2> QED BY <2>6, <2>7
<1>10. Fine(n)
  <2>1. n \in 0..n
    BY <1>1
  <2> HIDE DEF n, Fine
  <2> QED BY <1>9, <2>1
<1>11. ~ Going(h[n], o)
  <2>1. h[n].left \in 0..n
    BY <1>10 DEF WalkOK, WalkAmounts
  <2>2. Going(h[n], o) => h[n].left # 0
    BY DEF Going
  <2> HIDE DEF n
  <2> QED BY <1>1, <1>10, <2>1, <2>2
<1> QED BY <1>6, <1>10, <1>11

-----------------------------------------------------------------------------
(* Order book: the inductive invariant. *)

Calls == {"placing", "placed", "failed", "cancelling", "fallback", "cancelled"}
Statuses == {"none", "Filled", "PartiallyFilled", "Resting", "Cancelled"}
Answers == [status : Statuses, remaining : Int]

BookTypes ==
  /\ terms \in Seq(Terms) /\ up \in BOOLEAN
  /\ queue \in Seq([kind : {"submit", "cancel"}, id : Order])
  /\ call \in Seq(Calls) /\ Len(call) = Len(terms)
  /\ answer \in Seq(Answers) /\ Len(answer) = Len(terms)
  /\ trades \in Seq(Trade)
DeliveryOK ==
  /\ outbox \in Seq(Trade) /\ Range(outbox) \subseteq Range(trades)
  /\ streamed \in 0..Len(trades) /\ recorded \subseteq Range(trades)

\* The book and the index are in order, for what every order has traded.
BookRight ==
  /\ DOMAIN index \subseteq Order
  /\ BookOK(book, DOMAIN index, Sold(trades))
  /\ \A o \in DOMAIN index : index[o] = [side |-> terms[o].side, price |-> terms[o].price]

\* The channel has what the handlers wait for, and in the order of the ids: an
\* order that is to be submitted is younger than all that rest.
QueueOK ==
  /\ \A i \in DOMAIN queue :
       call[queue[i].id] = IF queue[i].kind = "submit" THEN "placing" ELSE "cancelling"
  /\ \A i, j \in DOMAIN queue : i # j => queue[i].id # queue[j].id
  /\ \A i, j \in DOMAIN queue :
       i < j /\ queue[i].kind = "submit" /\ queue[j].kind = "submit" => queue[i].id < queue[j].id
  /\ \A i \in DOMAIN queue : queue[i].kind = "submit" => \A o \in DOMAIN index : o < queue[i].id

Untouched(o) == \A i \in DOMAIN trades : o \notin {trades[i].taker, trades[i].maker}

\* An order that is being placed has done nothing yet, and neither it nor one
\* that is over rests.
CallsOK ==
  /\ \A o \in Order : call[o] = "placing" => answer[o] = NoAnswer /\ Untouched(o)
  /\ \A o \in Order : call[o] \in {"placing", "fallback", "cancelled", "failed"} => o \notin DOMAIN index
  /\ ~ up => queue = <<>> /\ DOMAIN index = {}

BookInv ==
  /\ BookTypes /\ DeliveryOK /\ BookRight /\ QueueOK /\ CallsOK
  /\ Uncrossed /\ WithinLimits /\ AnswersTrue

\* With the invariant the book is sound.
LEMMA InvSound ==
  ASSUME BookInv
  PROVE  BookSound
<1>1. /\ DOMAIN terms = Order /\ DOMAIN call = Order /\ DOMAIN answer = Order
  BY LenProperties DEF BookInv, BookTypes, Order
<1>2. call \in [Order -> Calls]
  <2>1. \A o \in Order : call[o] \in Calls
    BY ElementOfSeq DEF BookInv, BookTypes, Order
  <2>2. call \in [1..Len(call) -> Calls]
    BY LenProperties DEF BookInv, BookTypes
  <2> QED BY <2>2 DEF BookInv, BookTypes, Order
<1>3. \A s \in Side : /\ DOMAIN book[s] \subseteq Price
                      /\ \A p \in DOMAIN book[s] :
                           LevelOK(DOMAIN index, Sold(trades), book[s][p], s, p)
  BY DEF BookInv, BookRight, BookOK
<1>4. BookTypeOK
  <2>1. \A s \in Side : /\ DOMAIN book[s] \subseteq Price
                        /\ \A p \in DOMAIN book[s] : book[s][p] \in Seq(Resting)
    BY <1>3 DEF LevelOK
  <2> QED BY <1>1, <1>2, <2>1 DEF BookTypeOK, BookInv, BookTypes, DeliveryOK, BookRight, Calls
<1>5. IndexAgrees
  <2>1. ASSUME NEW s \in Side, NEW p \in DOMAIN book[s]
        PROVE  /\ book[s][p] # <<>>
               /\ \A r \in Range(book[s][p]) :
                    /\ r.id \in DOMAIN index /\ index[r.id] = [side |-> s, price |-> p]
                    /\ r.filled < terms[r.id].qty
    <3>1. LevelOK(DOMAIN index, Sold(trades), book[s][p], s, p)
      BY <1>3
    <3>2. \A r \in Range(book[s][p]) : \E i \in DOMAIN book[s][p] : r = book[s][p][i]
      BY DEF Range
    <3> QED BY <3>1, <3>2 DEF LevelOK, BookInv, BookRight
  <2>2. ASSUME NEW o \in DOMAIN index
        PROVE  LET levels == book[index[o].side] IN
               /\ index[o].price \in DOMAIN levels
               /\ \E i \in DOMAIN levels[index[o].price] :
                    \A j \in DOMAIN levels[index[o].price] :
                      levels[index[o].price][j].id = o <=> i = j
    <3> DEFINE s == terms[o].side
               p == terms[o].price
               l == book[s][p]
    <3>1. index[o].side = s /\ index[o].price = p
      BY DEF BookInv, BookRight
    <3>2. s \in Side /\ p \in DOMAIN book[s] /\ InLevel(l, o)
      BY DEF BookInv, BookRight, BookOK, Found
    <3>3. LevelOK(DOMAIN index, Sold(trades), l, s, p)
      BY <1>3, <3>2
    <3> HIDE DEF l, s, p
    <3>4. PICK i \in DOMAIN l : l[i].id = o
      BY <3>2 DEF InLevel
    <3>5. ASSUME NEW j \in DOMAIN l, l[j].id = o PROVE i = j
      <4>1. i \in Nat /\ j \in Nat /\ o \in Nat
        BY <3>3, LenProperties, <3>4 DEF LevelOK, BookInv, BookRight, Order
      <4>2. i < j => l[i].id < l[j].id
        BY <3>3, <3>4 DEF LevelOK
      <4>3. j < i => l[j].id < l[i].id
        BY <3>3, <3>4 DEF LevelOK
      <4> QED BY <3>4, <3>5, <4>1, <4>2, <4>3
    <3> QED BY <3>1, <3>2, <3>4, <3>5 DEF l
  <2> QED BY <2>1, <2>2 DEF IndexAgrees
<1> QED BY <1>4, <1>5 DEF BookSound, BookInv

LEMMA InitBook == BookInit => BookInv
<1> SUFFICES ASSUME BookInit PROVE BookInv
  OBVIOUS
<1>1. /\ book = EmptyBook /\ index = <<>> /\ up = TRUE /\ queue = <<>> /\ terms = <<>>
      /\ call = <<>> /\ answer = <<>> /\ trades = <<>> /\ outbox = <<>> /\ streamed = 0
      /\ recorded = {}
  BY DEF BookInit
<1>2. Len(<<>>) = 0 /\ \A T : <<>> \in Seq(T)
  BY EmptySeq
<1>3. DOMAIN <<>> = {}
  OBVIOUS
<1>4. Order = {}
  BY <1>1, <1>2 DEF Order
<1>5. BookTypes
  BY <1>1, <1>2 DEF BookTypes
<1>6. DeliveryOK
  BY <1>1, <1>2, <1>3 DEF DeliveryOK, Range
<1>7. BookRight
  <2>1. \A s \in Side : DOMAIN book[s] = {}
    BY <1>1, <1>3 DEF EmptyBook
  <2>2. DOMAIN book = Side
    BY <1>1 DEF EmptyBook
  <2> QED BY <1>1, <1>3, <2>1, <2>2 DEF BookRight, BookOK
<1>8. QueueOK
  BY <1>1, <1>3 DEF QueueOK
<1>9. CallsOK
  BY <1>1, <1>3, <1>4 DEF CallsOK
<1>10. Uncrossed
  BY <1>1, <1>3 DEF Uncrossed, EmptyBook, Side
<1>11. WithinLimits
  BY <1>1, <1>3, <1>4 DEF WithinLimits
<1>12. AnswersTrue
  BY <1>4 DEF AnswersTrue
<1> QED BY <1>5, <1>6, <1>7, <1>8, <1>9, <1>10, <1>11, <1>12 DEF BookInv

\* A book that is in order is so, too, when more orders have terms.
LEMMA BookOKStays ==
  ASSUME Order \subseteq Order', \A o \in Order : terms'[o] = terms[o],
         DOMAIN index' \subseteq Order, BookOK(book', DOMAIN index', Sold(trades'))
  PROVE  BookOK(book, DOMAIN index, Sold(trades))'
<1> DEFINE S == DOMAIN index'
           A == Sold(trades')
<1>1. \A o \in S : o \in Order /\ o \in Order' /\ terms'[o] = terms[o] /\ Sold(trades)'[o] = A[o]
  BY DEF Sold
<1>2. \A u : (u \in Resting /\ Order \subseteq Order') => u \in Resting'
  BY DEF Resting
<1>3. ASSUME NEW s \in Side, NEW p \in DOMAIN book'[s]
      PROVE  /\ book'[s][p] \in Seq(Resting)' /\ book'[s][p] # <<>>
             /\ \A i \in DOMAIN book'[s][p] : LET x == book'[s][p][i].id IN
                  /\ x \in S /\ terms'[x].side = s /\ terms'[x].price = p
                  /\ Sold(trades)'[x] <= book'[s][p][i].filled
                  /\ book'[s][p][i].filled < terms'[x].qty
             /\ \A i, j \in DOMAIN book'[s][p] : i < j => book'[s][p][i].id < book'[s][p][j].id
  <2> DEFINE l == book'[s][p]
  <2>1. LevelOK(S, A, l, s, p)
    BY DEF BookOK
  <2> HIDE DEF l, S, A
  <2>2. l \in Seq(Resting')
    <3>1. l \in Seq(Resting) /\ Resting \subseteq Resting'
      BY <1>2, <2>1 DEF LevelOK
    <3> QED BY <3>1, SeqMonotonic
  <2>3. \A i \in DOMAIN l : LET x == l[i].id IN
           /\ x \in S /\ terms'[x].side = s /\ terms'[x].price = p
           /\ Sold(trades)'[x] <= l[i].filled
           /\ l[i].filled < terms'[x].qty
    BY <1>1, <2>1 DEF LevelOK
  <2>4. l # <<>> /\ \A i, j \in DOMAIN l : i < j => l[i].id < l[j].id
    BY <2>1 DEF LevelOK
  <2> QED BY <2>2, <2>3, <2>4 DEF l
<1>4. \A s \in Side : \A p \in DOMAIN book'[s] :
         LevelOK(DOMAIN index, Sold(trades), book[s][p], s, p)'
  BY <1>3 DEF LevelOK
<1>5. \A o \in S : Found(book, o)'
  BY <1>1 DEF BookOK, Found, InLevel
<1>6. DOMAIN book' = Side /\ \A s \in Side : DOMAIN book'[s] \subseteq Price
  BY DEF BookOK
<1> HIDE DEF S, A
<1> QED BY <1>4, <1>5, <1>6 DEF BookOK, S, Side, Price

\* Who has no trades has traded nothing.
LEMMA AmountNone ==
  ASSUME NEW ts \in Seq(AnyTrade), NEW role, NEW o, \A i \in DOMAIN ts : ts[i][role] # o
  PROVE  Amount(ts, role, o) = 0
<1> DEFINE n == Len(ts)
<1>1. n \in Nat /\ DOMAIN ts = 1..n
  BY LenProperties
<1>2. PICK f \in [0..n -> Nat] : Adds(f, ts, role, o) /\ Amount(ts, role, o) = f[n]
  BY AmountAdds
<1> HIDE DEF n
<1> DEFINE Bad == {m \in 0..n : f[m] # 0}
<1>3. Bad = {}
  <2> SUFFICES ASSUME Bad # {} PROVE FALSE
    OBVIOUS
  <2>1. PICK m \in Bad : \A k \in Bad : m <= k
    <3>1. Bad \in SUBSET Nat
      BY <1>1
    <3> HIDE DEF Bad
    <3> QED BY <3>1, LeastExists
  <2>2. m \in 0..n /\ m # 0
    BY <1>2 DEF Adds
  <2>3. m \in 1..n /\ m - 1 \in 0..n /\ m - 1 \notin Bad
    <3> HIDE DEF Bad
    <3> QED BY <1>1, <2>1, <2>2
  <2>4. f[m - 1] = 0
    BY <2>3
  <2>5. f[m] = f[m - 1] + Part(ts[m], role, o)
    BY <1>2, <2>3 DEF Adds, n
  <2>6. Part(ts[m], role, o) = 0
    BY <1>1, <2>3 DEF Part
  <2> QED BY <2>1, <2>4, <2>5, <2>6
<1>4. n \in 0..n
  BY <1>1
<1> QED BY <1>2, <1>3, <1>4

LEMMA TradedNone ==
  ASSUME trades \in Seq(Trade), NEW o, Untouched(o)
  PROVE  Traded(trades, o) = 0
<1>1. trades \in Seq(AnyTrade)
  BY TradesNat, SeqMonotonic
<1>2. \A i \in DOMAIN trades : trades[i].taker # o /\ trades[i].maker # o
  BY DEF Untouched
<1>3. Amount(trades, "taker", o) = 0 /\ Amount(trades, "maker", o) = 0
  BY <1>1, <1>2, AmountNone
<1> QED BY <1>3 DEF Traded

LEMMA NewUntouched ==
  ASSUME trades \in Seq(Trade), NEW o, o \notin Order
  PROVE  Untouched(o)
<1>1. \A i \in DOMAIN trades : trades[i] \in Trade
  BY LenProperties, ElementOfSeq
<1> QED BY <1>1 DEF Trade, Untouched

\* The terms of the orders that are there stay what they are.
Grows == Order \subseteq Order' /\ \A o \in Order : terms'[o] = terms[o]

\* Steps in which nothing is traded and the book stays as it is.
LEMMA BookKept ==
  ASSUME BookInv, Grows, terms' \in Seq(Terms), UNCHANGED <<book, index, trades>>
  PROVE  BookRight' /\ Uncrossed' /\ WithinLimits' /\ trades' \in Seq(Trade)'
<1>1. BookRight'
  <2>1. DOMAIN index' \subseteq Order /\ DOMAIN index' \subseteq Order'
    BY DEF BookInv, BookRight, Grows
  <2>2. BookOK(book', DOMAIN index', Sold(trades'))
    BY DEF BookInv, BookRight
  <2>3. BookOK(book, DOMAIN index, Sold(trades))'
    BY <2>1, <2>2, BookOKStays DEF Grows
  <2>4. \A o \in DOMAIN index' : index'[o] = [side |-> terms'[o].side, price |-> terms'[o].price]
    BY <2>1 DEF BookInv, BookRight, Grows
  <2> QED BY <2>1, <2>3, <2>4 DEF BookRight
<1>2. Uncrossed'
  BY DEF BookInv, Uncrossed
<1>3. trades' \in Seq(Trade)' /\ \A i \in DOMAIN trades : trades[i] \in Trade
  <2>1. Trade \subseteq Trade'
    BY DEF Trade, Grows, Price
  <2>2. trades \in Seq(Trade)
    BY DEF BookInv, BookTypes
  <2>3. trades \in Seq(Trade')
    BY <2>1, <2>2, SeqMonotonic
  <2>4. \A i \in DOMAIN trades : trades[i] \in Trade
    BY <2>2, LenProperties, ElementOfSeq
  <2> QED BY <2>3, <2>4
<1>4. WithinLimits'
  <2>1. ASSUME NEW i \in DOMAIN trades'
        PROVE  LET t == trades'[i] IN
               /\ terms'[t.taker].side # terms'[t.maker].side
               /\ terms'[t.maker].price = t.price
               /\ LET u == terms'[t.taker] IN
                  u.price = NoPrice \/ IF u.side = "buy" THEN t.price <= u.price ELSE t.price >= u.price
    <3>1. trades' = trades /\ trades[i].taker \in Order /\ trades[i].maker \in Order
      BY <1>3 DEF Trade
    <3>2. terms'[trades[i].taker] = terms[trades[i].taker] /\ terms'[trades[i].maker] = terms[trades[i].maker]
      BY <3>1 DEF Grows
    <3> QED BY <3>1, <3>2 DEF BookInv, WithinLimits
  <2>2. ASSUME NEW o \in Order' PROVE Traded(trades', o) <= terms'[o].qty
    <3>1. CASE o \in Order
      BY <3>1 DEF BookInv, WithinLimits, Grows
    <3>2. CASE o \notin Order
      <4>1. Traded(trades', o) = 0
        BY <3>2, NewUntouched, TradedNone DEF BookInv, BookTypes
      <4>2. terms'[o] \in TermsType
        BY ElementOfSeq, OrderBookAssumption DEF Order
      <4> QED BY <4>1, <4>2 DEF TermsType
    <3> QED BY <3>1, <3>2
  <2> QED BY <2>1, <2>2 DEF WithinLimits
<1> QED BY <1>1, <1>2, <1>3, <1>4

\* Steps in which, besides, nobody gets an answer of the engine.
LEMMA AnswersKept ==
  ASSUME BookInv, Grows, UNCHANGED trades,
         \A o \in Order : answer'[o] = answer[o],
         \A o \in Order' \ Order : answer'[o] = NoAnswer
  PROVE  AnswersTrue'
<1> SUFFICES ASSUME NEW o \in Order', answer'[o] # NoAnswer
             PROVE LET taken == Amount(trades', "taker", o)
                       a == answer'[o]
                   IN /\ a.remaining = terms'[o].qty - taken
                      /\ (a.status = "Filled") = (a.remaining = 0)
                      /\ (a.status = "Resting") = (terms'[o].kind = "GTC" /\ taken = 0)
                      /\ (a.status = "PartiallyFilled") => taken # 0 /\ terms'[o].kind \in {"GTC", "IOC"}
                      /\ (a.status = "Cancelled") => terms'[o].kind # "GTC"
  BY DEF AnswersTrue, NoAnswer
<1>1. o \in Order /\ terms'[o] = terms[o] /\ answer'[o] = answer[o] /\ trades' = trades
  BY DEF Grows
<1> QED BY <1>1 DEF BookInv, AnswersTrue

LEMMA GrowsNot ==
  ASSUME BookInv, terms' = terms
  PROVE  Grows /\ terms' \in Seq(Terms) /\ Order' = Order
BY DEF Grows, Order, BookInv, BookTypes

\* What the types say of the channel and the handlers.
LEMMA QueueKnown ==
  ASSUME BookInv
  PROVE  /\ DOMAIN queue = 1..Len(queue) /\ Len(queue) \in Nat
         /\ \A i \in DOMAIN queue : queue[i].id \in Order /\ queue[i].kind \in {"submit", "cancel"}
         /\ DOMAIN call = Order /\ DOMAIN answer = Order
<1>1. queue \in Seq([kind : {"submit", "cancel"}, id : Order])
  BY DEF BookInv, BookTypes
<1>2. \A i \in DOMAIN queue : queue[i] \in [kind : {"submit", "cancel"}, id : Order]
  BY <1>1, LenProperties, ElementOfSeq
<1>3. DOMAIN call = Order /\ DOMAIN answer = Order
  BY LenProperties DEF BookInv, BookTypes, Order
<1> QED BY <1>1, <1>2, <1>3, LenProperties

\* The outbox: nothing of the engine or the handlers changes.
LEMMA StreamKeeps ==
  ASSUME BookInv, Stream
  PROVE  BookInv'
<1>1. /\ UNCHANGED <<book, index, up, queue, terms, call, answer, trades, outbox, recorded>>
      /\ outbox # <<>> /\ streamed = Len(trades) - Len(outbox) /\ streamed' = streamed + 1
  BY DEF Stream, engine
<1>2. Grows /\ terms' \in Seq(Terms) /\ Order' = Order
  BY <1>1, GrowsNot
<1>3. BookRight' /\ Uncrossed' /\ WithinLimits' /\ trades' \in Seq(Trade)'
  BY <1>1, <1>2, BookKept
<1>4. AnswersTrue'
  BY <1>1, <1>2, AnswersKept
<1>5. BookTypes'
  BY <1>1, <1>2, <1>3 DEF BookInv, BookTypes
<1>6. DeliveryOK'
  <2>1. Len(outbox) \in Nat \ {0} /\ Len(trades) \in Nat
    BY <1>1, LenProperties, EmptySeq DEF BookInv, DeliveryOK, BookTypes
  <2>2. outbox \in Seq(Trade)'
    BY <1>2 DEF BookInv, DeliveryOK, Trade, Price
  <2>3. streamed' \in 0..Len(trades)
    <3>1. streamed \in 0..Len(trades)
      BY DEF BookInv, DeliveryOK
    <3> QED BY <1>1, <2>1, <3>1
  <2>4. Range(outbox') \subseteq Range(trades') /\ recorded' \subseteq Range(trades')
    BY <1>1 DEF BookInv, DeliveryOK
  <2> QED BY <1>1, <2>2, <2>3, <2>4 DEF DeliveryOK, Range
<1>7. QueueOK'
  BY <1>1 DEF BookInv, QueueOK
<1>8. CallsOK'
  BY <1>1, <1>2 DEF BookInv, CallsOK, NoAnswer, Untouched
<1> QED BY <1>3, <1>4, <1>5, <1>6, <1>7, <1>8 DEF BookInv

LEMMA SaveTradeKeeps ==
  ASSUME BookInv, NEW ok \in BOOLEAN, SaveTrade(ok)
  PROVE  BookInv'
<1>1. /\ UNCHANGED <<book, index, up, queue, terms, call, answer, trades, streamed>>
      /\ outbox # <<>> /\ outbox' = Tail(outbox)
      /\ recorded' = IF ok THEN recorded \cup {Head(outbox)} ELSE recorded
  BY DEF SaveTrade, engine
<1>2. Grows /\ terms' \in Seq(Terms) /\ Order' = Order
  BY <1>1, GrowsNot
<1>3. BookRight' /\ Uncrossed' /\ WithinLimits' /\ trades' \in Seq(Trade)'
  BY <1>1, <1>2, BookKept
<1>4. AnswersTrue'
  BY <1>1, <1>2, AnswersKept
<1>5. BookTypes'
  BY <1>1, <1>2, <1>3 DEF BookInv, BookTypes
<1>6. DeliveryOK'
  <2>1. outbox \in Seq(Trade) /\ Range(outbox) \subseteq Range(trades)
    BY DEF BookInv, DeliveryOK
  <2>2. /\ Tail(outbox) \in Seq(Trade) /\ Len(outbox) \in Nat /\ Len(outbox) # 0
        /\ Len(Tail(outbox)) = Len(outbox) - 1 /\ Head(outbox) = outbox[1]
        /\ \A i \in 1..Len(Tail(outbox)) : Tail(outbox)[i] = outbox[i + 1]
        /\ DOMAIN outbox = 1..Len(outbox) /\ DOMAIN Tail(outbox) = 1..Len(Tail(outbox))
    BY <1>1, <2>1, LenProperties, EmptySeq, HeadTailProperties
  <2>3. Range(Tail(outbox)) \subseteq Range(outbox)
    <3>1. \A i \in DOMAIN Tail(outbox) : i + 1 \in DOMAIN outbox /\ Tail(outbox)[i] = outbox[i + 1]
      BY <2>2
    <3> QED BY <3>1 DEF Range
  <2>4. Head(outbox) \in Range(outbox)
    BY <2>2 DEF Range
  <2>5. Tail(outbox) \in Seq(Trade)'
    BY <1>2, <2>2 DEF Trade, Price
  <2>6. recorded' \subseteq Range(trades)
    BY <1>1, <2>1, <2>4 DEF BookInv, DeliveryOK
  <2> QED BY <1>1, <2>1, <2>3, <2>5, <2>6 DEF BookInv, DeliveryOK, Range
<1>7. QueueOK'
  BY <1>1 DEF BookInv, QueueOK
<1>8. CallsOK'
  BY <1>1, <1>2 DEF BookInv, CallsOK, NoAnswer, Untouched
<1> QED BY <1>3, <1>4, <1>5, <1>6, <1>7, <1>8 DEF BookInv

\* The handlers of an order that is there.
LEMMA FallbackKeeps ==
  ASSUME BookInv, NEW o \in Order, Fallback(o)
  PROVE  BookInv'
<1>1. PICK c \in {"cancelled", "failed"} : call' = [call EXCEPT ![o] = c]
  BY DEF Fallback
<1>2. /\ UNCHANGED <<book, index, up, queue, terms, answer, trades, outbox, streamed, recorded>>
      /\ call[o] = "fallback"
  BY DEF Fallback, engine, delivery
<1>3. Grows /\ terms' \in Seq(Terms) /\ Order' = Order
  BY <1>2, GrowsNot
<1>4. BookRight' /\ Uncrossed' /\ WithinLimits' /\ trades' \in Seq(Trade)'
  BY <1>2, <1>3, BookKept
<1>5. AnswersTrue'
  BY <1>2, <1>3, AnswersKept
<1>6. /\ call' \in Seq(Calls) /\ Len(call') = Len(terms) /\ DOMAIN call = Order
      /\ \A x \in Order : call'[x] = IF x = o THEN c ELSE call[x]
  <2>1. call \in Seq(Calls) /\ Len(call) = Len(terms) /\ c \in Calls
    BY DEF BookInv, BookTypes, Calls
  <2>2. DOMAIN call = Order
    BY <2>1, LenProperties DEF Order
  <2> QED BY <1>1, <2>1, <2>2, ExceptSeq DEF Order
<1>7. BookTypes'
  BY <1>2, <1>3, <1>4, <1>6 DEF BookInv, BookTypes
<1>8. DeliveryOK'
  BY <1>2, <1>3 DEF BookInv, DeliveryOK, Range, Trade, Price
<1>9. \A i \in DOMAIN queue : queue[i].id \in Order
  BY QueueKnown
<1>10. QueueOK'
  BY <1>2, <1>6, <1>9 DEF BookInv, QueueOK
<1>11. CallsOK'
  BY <1>2, <1>3, <1>6 DEF BookInv, CallsOK, NoAnswer, Untouched
<1> QED BY <1>4, <1>5, <1>7, <1>8, <1>10, <1>11 DEF BookInv

\* A command behind all that wait.
LEMMA QueueAppended ==
  ASSUME BookInv, NEW c \in [kind : {"submit", "cancel"}, id : Order'], Order \subseteq Order',
         queue' = Append(queue, c)
  PROVE  /\ queue' \in Seq([kind : {"submit", "cancel"}, id : Order'])
         /\ DOMAIN queue' = 1..(Len(queue) + 1) /\ queue'[Len(queue) + 1] = c
         /\ \A i \in 1..Len(queue) : queue'[i] = queue[i]
<1>1. queue \in Seq([kind : {"submit", "cancel"}, id : Order'])
  <2>1. queue \in Seq([kind : {"submit", "cancel"}, id : Order])
    BY DEF BookInv, BookTypes
  <2> QED BY <2>1, SeqMonotonic
<1> QED BY <1>1, AppendProperties, LenProperties

LEMMA CancelKeeps ==
  ASSUME BookInv, NEW o \in Order, Cancel(o)
  PROVE  BookInv'
<1>1. /\ UNCHANGED <<book, index, up, terms, answer, trades, outbox, streamed, recorded>>
      /\ call[o] = "placed"
  BY DEF Cancel, engine, delivery
<1>2. Grows /\ terms' \in Seq(Terms) /\ Order' = Order
  BY <1>1, GrowsNot
<1>3. BookRight' /\ Uncrossed' /\ WithinLimits' /\ trades' \in Seq(Trade)'
  BY <1>1, <1>2, BookKept
<1>4. AnswersTrue'
  BY <1>1, <1>2, AnswersKept
<1>5. PICK c \in {"cancelling", "fallback"} :
        /\ call' = [call EXCEPT ![o] = c]
        /\ c = "cancelling" => up /\ queue' = Append(queue, [kind |-> "cancel", id |-> o])
        /\ c = "fallback" => ~ up /\ queue' = queue
  <2>1. CASE up
    BY <2>1 DEF Cancel
  <2>2. CASE ~ up
    BY <2>2 DEF Cancel
  <2> QED BY <2>1, <2>2
<1>6. /\ call' \in Seq(Calls) /\ Len(call') = Len(terms)
      /\ \A x \in Order : call'[x] = IF x = o THEN c ELSE call[x]
  <2>1. call \in Seq(Calls) /\ Len(call) = Len(terms) /\ c \in Calls
    BY DEF BookInv, BookTypes, Calls
  <2> QED BY <1>5, <2>1, QueueKnown, ExceptSeq DEF Order
<1>7. queue' \in Seq([kind : {"submit", "cancel"}, id : Order']) /\ QueueOK'
  <2>1. CASE c = "fallback"
    <3>1. queue' = queue
      BY <1>5, <2>1
    <3> QED BY <1>1, <1>2, <1>6, <3>1, QueueKnown DEF BookInv, BookTypes, QueueOK
  <2>2. CASE c = "cancelling"
    <3> DEFINE m == [kind |-> "cancel", id |-> o]
               n == Len(queue)
    <3>1. m \in [kind : {"submit", "cancel"}, id : Order'] /\ queue' = Append(queue, m)
      BY <1>2, <1>5, <2>2
    <3>2. /\ queue' \in Seq([kind : {"submit", "cancel"}, id : Order'])
          /\ DOMAIN queue' = 1..(n + 1) /\ queue'[n + 1] = m
          /\ \A i \in 1..n : queue'[i] = queue[i]
      <4> HIDE DEF m
      <4> QED BY <1>2, <3>1, QueueAppended
    <3>3. n \in Nat /\ DOMAIN queue = 1..n /\ \A i \in 1..n : queue[i].id \in Order
      BY QueueKnown
    <3>4. m.kind = "cancel" /\ m.id = o
      OBVIOUS
    <3> HIDE DEF m, n
    <3>5. \A i \in 1..n : i \in DOMAIN queue /\ queue[i].id # o
      BY <1>1, <3>3 DEF BookInv, QueueOK
    <3>6. \A i \in 1..(n + 1) : i \in 1..n \/ i = n + 1
      BY <3>3
    <3>7. \A i \in DOMAIN queue' :
            /\ call'[queue'[i].id] = IF queue'[i].kind = "submit" THEN "placing" ELSE "cancelling"
            /\ queue'[i].kind = "submit" => \A x \in DOMAIN index' : x < queue'[i].id
      <4>1. ASSUME NEW i \in 1..n
            PROVE  /\ call'[queue[i].id] = IF queue[i].kind = "submit" THEN "placing" ELSE "cancelling"
                   /\ queue[i].kind = "submit" => \A x \in DOMAIN index' : x < queue[i].id
        BY <1>1, <1>6, <3>3, <3>5 DEF BookInv, QueueOK
      <4>2. call'[m.id] = "cancelling"
        BY <1>6, <2>2, <3>4
      <4> QED BY <3>2, <3>4, <3>6, <4>1, <4>2
    <3>8. \A i, j \in DOMAIN queue' :
            /\ i # j => queue'[i].id # queue'[j].id
            /\ i < j /\ queue'[i].kind = "submit" /\ queue'[j].kind = "submit"
                 => queue'[i].id < queue'[j].id
      <4>1. \A i, j \in 1..n :
              /\ i # j => queue[i].id # queue[j].id
              /\ i < j /\ queue[i].kind = "submit" /\ queue[j].kind = "submit"
                   => queue[i].id < queue[j].id
        BY <3>3 DEF BookInv, QueueOK
      <4> QED BY <3>2, <3>4, <3>5, <3>6, <4>1
    <3> QED BY <3>2, <3>7, <3>8 DEF QueueOK
  <2> QED BY <2>1, <2>2
<1>8. BookTypes'
  BY <1>1, <1>2, <1>3, <1>6, <1>7 DEF BookInv, BookTypes
<1>9. DeliveryOK'
  BY <1>1, <1>2 DEF BookInv, DeliveryOK, Range, Trade, Price
<1>10. CallsOK'
  <2>1. c = "fallback" => DOMAIN index = {}
    BY <1>5 DEF BookInv, CallsOK
  <2>2. ~ up => queue' = <<>> /\ DOMAIN index = {}
    BY <1>5 DEF BookInv, CallsOK
  <2> QED BY <1>1, <1>2, <1>5, <1>6, <2>1, <2>2 DEF BookInv, CallsOK, NoAnswer, Untouched
<1> QED BY <1>3, <1>4, <1>7, <1>8, <1>9, <1>10 DEF BookInv

LEMMA PlaceKeeps ==
  ASSUME BookInv, NEW t \in Terms, Place(t)
  PROVE  BookInv'
<1> DEFINE o == Len(terms) + 1
           c == IF up THEN "placing" ELSE "failed"
<1>1. /\ UNCHANGED <<book, index, up, trades, outbox, streamed, recorded>>
      /\ terms' = Append(terms, t) /\ answer' = Append(answer, NoAnswer) /\ call' = Append(call, c)
      /\ up => queue' = Append(queue, [kind |-> "submit", id |-> o])
      /\ ~ up => queue' = queue
  BY DEF Place, engine, delivery
<1>2. /\ Len(terms) \in Nat /\ DOMAIN terms = Order
      /\ terms' \in Seq(Terms) /\ Order' = Order \cup {o} /\ o \notin Order
      /\ \A x \in Order : terms'[x] = terms[x]
      /\ Len(terms') = Len(terms) + 1
  <2>1. terms \in Seq(Terms)
    BY DEF BookInv, BookTypes
  <2>2. Len(terms) \in Nat /\ DOMAIN terms = Order
    BY <2>1, LenProperties DEF Order
  <2>3. /\ terms' \in Seq(Terms) /\ Len(terms') = Len(terms) + 1
        /\ \A x \in Order : terms'[x] = terms[x]
    BY <1>1, <2>1, AppendProperties DEF Order
  <2> QED BY <2>2, <2>3 DEF Order
<1>3. Grows
  BY <1>2 DEF Grows
<1>4. BookRight' /\ Uncrossed' /\ WithinLimits' /\ trades' \in Seq(Trade)'
  BY <1>1, <1>2, <1>3, BookKept
<1>5. /\ call' \in Seq(Calls) /\ Len(call') = Len(terms') /\ call'[o] = c
      /\ \A x \in Order : call'[x] = call[x]
  <2>1. call \in Seq(Calls) /\ Len(call) = Len(terms) /\ c \in Calls
    BY DEF BookInv, BookTypes, Calls
  <2> HIDE DEF c
  <2> QED BY <1>1, <1>2, <2>1, AppendProperties DEF Order
<1>6. /\ answer' \in Seq(Answers) /\ Len(answer') = Len(terms')
      /\ answer'[o] = NoAnswer /\ \A x \in Order : answer'[x] = answer[x]
  <2>1. /\ answer \in Seq(Answers) /\ Len(answer) = Len(terms)
        /\ NoAnswer \in Answers
    BY DEF BookInv, BookTypes, NoAnswer, Answers, Statuses
  <2> QED BY <1>1, <1>2, <2>1, AppendProperties DEF Order
<1>7. AnswersTrue'
  <2>1. \A x \in Order' \ Order : answer'[x] = NoAnswer
    BY <1>2, <1>6
  <2> QED BY <1>1, <1>3, <1>6, <2>1, AnswersKept
<1>8. queue' \in Seq([kind : {"submit", "cancel"}, id : Order']) /\ QueueOK'
  <2>1. CASE ~ up
    <3>1. queue' = <<>> /\ DOMAIN queue' = {}
      BY <1>1, <2>1 DEF BookInv, CallsOK
    <3> QED BY <3>1, EmptySeq DEF QueueOK
  <2>2. CASE up
    <3> DEFINE m == [kind |-> "submit", id |-> o]
               n == Len(queue)
    <3>1. m \in [kind : {"submit", "cancel"}, id : Order'] /\ queue' = Append(queue, m)
      BY <1>1, <1>2, <2>2
    <3>2. /\ queue' \in Seq([kind : {"submit", "cancel"}, id : Order'])
          /\ DOMAIN queue' = 1..(n + 1) /\ queue'[n + 1] = m
          /\ \A i \in 1..n : queue'[i] = queue[i]
      <4> HIDE DEF m
      <4> QED BY <1>2, <3>1, QueueAppended
    <3>3. n \in Nat /\ DOMAIN queue = 1..n /\ \A i \in 1..n : queue[i].id \in Order
      BY QueueKnown
    <3>4. m.kind = "submit" /\ m.id = o /\ c = "placing"
      BY <2>2
    <3>5. \A x \in Order : x < o
      BY <1>2 DEF Order
    <3> HIDE DEF m, n, o, c
    <3>6. \A i \in 1..(n + 1) : i \in 1..n \/ i = n + 1
      BY <3>3
    <3>7. \A i \in DOMAIN queue' :
            /\ call'[queue'[i].id] = IF queue'[i].kind = "submit" THEN "placing" ELSE "cancelling"
            /\ queue'[i].kind = "submit" => \A x \in DOMAIN index' : x < queue'[i].id
      <4>1. ASSUME NEW i \in 1..n
            PROVE  /\ call'[queue[i].id] = IF queue[i].kind = "submit" THEN "placing" ELSE "cancelling"
                   /\ queue[i].kind = "submit" => \A x \in DOMAIN index' : x < queue[i].id
        BY <1>1, <1>5, <3>3 DEF BookInv, QueueOK
      <4>2. call'[m.id] = "placing" /\ \A x \in DOMAIN index' : x < m.id
        BY <1>1, <1>5, <3>4, <3>5 DEF BookInv, BookRight
      <4> QED BY <3>2, <3>4, <3>6, <4>1, <4>2
    <3>8. \A i, j \in DOMAIN queue' :
            /\ i # j => queue'[i].id # queue'[j].id
            /\ i < j /\ queue'[i].kind = "submit" /\ queue'[j].kind = "submit"
                 => queue'[i].id < queue'[j].id
      <4>1. \A i, j \in 1..n :
              /\ i # j => queue[i].id # queue[j].id
              /\ i < j /\ queue[i].kind = "submit" /\ queue[j].kind = "submit"
                   => queue[i].id < queue[j].id
        BY <3>3 DEF BookInv, QueueOK
      <4>2. ASSUME NEW i \in 1..n
            PROVE  /\ queue[i].id < m.id /\ queue[i].id # m.id
                   /\ i # n + 1 /\ ~ (n + 1 < i)
        BY <1>2, <3>3, <3>4, <3>5
      <4>3. ASSUME NEW i \in DOMAIN queue', NEW j \in DOMAIN queue', i # j
            PROVE  /\ queue'[i].id # queue'[j].id
                   /\ i < j /\ queue'[i].kind = "submit" /\ queue'[j].kind = "submit"
                        => queue'[i].id < queue'[j].id
        <5>1. CASE i \in 1..n /\ j \in 1..n
          BY <3>2, <4>1, <4>3, <5>1
        <5>2. CASE i = n + 1
          <6>1. j \in 1..n
            BY <3>2, <3>6, <4>3, <5>2
          <6> QED BY <3>2, <4>2, <5>2, <6>1
        <5>3. CASE j = n + 1
          <6>1. i \in 1..n
            BY <3>2, <3>6, <4>3, <5>3
          <6> QED BY <3>2, <4>2, <5>3, <6>1
        <5> QED BY <3>2, <3>6, <5>1, <5>2, <5>3
      <4>4. \A i \in DOMAIN queue' : ~ (i < i)
        BY <3>2, <3>3
      <4> QED BY <4>3, <4>4
    <3> QED BY <3>2, <3>7, <3>8 DEF QueueOK
  <2> QED BY <2>1, <2>2
<1>9. BookTypes'
  BY <1>1, <1>2, <1>4, <1>5, <1>6, <1>8 DEF BookInv, BookTypes
<1>10. DeliveryOK'
  <2>1. outbox \in Seq(Trade')
    <3>1. Trade \subseteq Trade'
      BY <1>2 DEF Trade, Price
    <3> QED BY <3>1, SeqMonotonic DEF BookInv, DeliveryOK
  <2> QED BY <1>1, <2>1 DEF BookInv, DeliveryOK, Range
<1>11. CallsOK'
  <2>1. Untouched(o) /\ o \notin DOMAIN index
    BY <1>2, NewUntouched DEF BookInv, BookTypes, BookRight
  <2>2. ~ up => queue' = <<>> /\ DOMAIN index = {}
    BY <1>1 DEF BookInv, CallsOK
  <2> HIDE DEF o, c
  <2>3. ASSUME NEW x \in Order'
        PROVE  /\ call'[x] = "placing" => /\ answer'[x] = NoAnswer
                                         /\ \A i \in DOMAIN trades : x \notin {trades[i].taker, trades[i].maker}
               /\ call'[x] \in {"placing", "fallback", "cancelled", "failed"} => x \notin DOMAIN index
    <3>1. CASE x = o
      BY <1>6, <2>1, <3>1 DEF Untouched
    <3>2. CASE x # o
      <4>1. x \in Order /\ call'[x] = call[x] /\ answer'[x] = answer[x]
        BY <1>2, <1>5, <1>6, <3>2
      <4> QED BY <4>1 DEF BookInv, CallsOK, Untouched
    <3> QED BY <3>1, <3>2
  <2> QED BY <1>1, <2>2, <2>3 DEF CallsOK, NoAnswer, Untouched
<1> QED BY <1>4, <1>7, <1>8, <1>9, <1>10, <1>11 DEF BookInv

LEMMA PanicKeeps ==
  ASSUME BookInv, Panic
  PROVE  BookInv'
<1>1. /\ UNCHANGED <<terms, answer, trades, outbox, streamed, recorded>>
      /\ up' = FALSE /\ book' = EmptyBook /\ index' = <<>> /\ queue' = <<>>
      /\ call' = [o \in Order |-> Closed(call[o])]
  BY DEF Panic, delivery
<1>2. Grows /\ terms' \in Seq(Terms) /\ Order' = Order
  BY <1>1, GrowsNot
<1>3. DOMAIN index' = {} /\ DOMAIN queue' = {} /\ queue' \in Seq([kind : {"submit", "cancel"}, id : Order'])
      /\ DOMAIN EmptyBook = Side /\ \A s \in Side : DOMAIN EmptyBook[s] = {}
  BY <1>1, EmptySeq DEF EmptyBook
<1>4. BookRight'
  <2>1. BookOK(book', DOMAIN index', Sold(trades'))
    BY <1>1, <1>3 DEF BookOK
  <2>2. BookOK(book, DOMAIN index, Sold(trades))'
    BY <1>2, <1>3, <2>1, BookOKStays DEF Grows
  <2> QED BY <1>3, <2>2 DEF BookRight
<1>5. Uncrossed'
  BY <1>1, <1>3 DEF Uncrossed, Side
<1>6. WithinLimits'
  BY <1>1, <1>2 DEF BookInv, WithinLimits
<1>7. AnswersTrue'
  BY <1>1, <1>2, AnswersKept
<1>8. call' \in Seq(Calls) /\ Len(call') = Len(terms)
      /\ \A o \in Order : call'[o] # "placing"
  <2>1. \A o \in Order : Closed(call[o]) \in Calls \ {"placing"}
    <3>1. \A o \in Order : call[o] \in Calls
      BY ElementOfSeq DEF BookInv, BookTypes, Order
    <3> QED BY <3>1 DEF Closed, Calls
  <2>2. Len(terms) \in Nat
    BY LenProperties DEF BookInv, BookTypes
  <2>3. call' \in [1..Len(terms) -> Calls]
    BY <1>1, <2>1 DEF Order
  <2>4. call' \in Seq(Calls) /\ Len(call') = Len(terms)
    <3>1. call' \in Seq(Calls)
      BY <2>2, <2>3, SeqDef
    <3>2. DOMAIN call' = 1..Len(call') /\ Len(call') \in Nat
      BY <3>1, LenProperties
    <3> QED BY <2>2, <2>3, <3>1, <3>2, LenProperties
  <2> QED BY <1>1, <2>1, <2>4
<1>9. BookTypes'
  <2>1. trades \in Seq(Trade)'
    BY <1>2 DEF BookInv, BookTypes, Trade, Price
  <2> QED BY <1>1, <1>2, <1>3, <1>8, <2>1 DEF BookInv, BookTypes
<1>10. DeliveryOK'
  BY <1>1, <1>2 DEF BookInv, DeliveryOK, Range, Trade, Price
<1>11. QueueOK'
  BY <1>3 DEF QueueOK
<1>12. CallsOK'
  BY <1>1, <1>2, <1>3, <1>8 DEF CallsOK
<1> QED BY <1>4, <1>5, <1>6, <1>7, <1>9, <1>10, <1>11, <1>12 DEF BookInv

\* The channel without its first command.
LEMMA QueueTail ==
  ASSUME BookInv, queue # <<>>, queue' = Tail(queue), Order' = Order,
         \A x \in Order : x # Head(queue).id => call'[x] = call[x],
         \A x \in DOMAIN index' : x \in DOMAIN index \/ (Head(queue).kind = "submit" /\ x = Head(queue).id)
  PROVE  /\ queue' \in Seq([kind : {"submit", "cancel"}, id : Order']) /\ QueueOK'
         /\ Head(queue).id \in Order
         /\ call[Head(queue).id] = IF Head(queue).kind = "submit" THEN "placing" ELSE "cancelling"
<1> DEFINE n == Len(queue)
<1>1. queue \in Seq([kind : {"submit", "cancel"}, id : Order])
  BY DEF BookInv, BookTypes
<1>2. /\ queue' \in Seq([kind : {"submit", "cancel"}, id : Order]) /\ n \in Nat /\ n # 0
      /\ Len(queue') = n - 1 /\ Head(queue) = queue[1]
      /\ \A i \in 1..(n - 1) : queue'[i] = queue[i + 1]
      /\ DOMAIN queue = 1..n /\ DOMAIN queue' = 1..(n - 1)
  BY <1>1, LenProperties, EmptySeq, HeadTailProperties
<1>3. \A i \in 1..(n - 1) : i + 1 \in 1..n /\ i + 1 # 1 /\ 1 < i + 1 /\ i \in Nat
  BY <1>2
<1>4. 1 \in 1..n
  BY <1>2
<1>5. Head(queue).id \in Order
      /\ call[Head(queue).id] = IF Head(queue).kind = "submit" THEN "placing" ELSE "cancelling"
  BY <1>2, <1>4, QueueKnown DEF BookInv, QueueOK
<1> HIDE DEF n
<1>6. ASSUME NEW i \in DOMAIN queue'
      PROVE  /\ call'[queue'[i].id] = IF queue'[i].kind = "submit" THEN "placing" ELSE "cancelling"
             /\ queue'[i].kind = "submit" => \A x \in DOMAIN index' : x < queue'[i].id
  <2>1. i + 1 \in DOMAIN queue /\ queue'[i] = queue[i + 1] /\ i + 1 # 1 /\ 1 < i + 1 /\ 1 \in DOMAIN queue
    BY <1>2, <1>3, <1>4
  <2>2. queue[i + 1].id # Head(queue).id /\ queue[i + 1].id \in Order
    BY <1>2, <2>1, QueueKnown DEF BookInv, QueueOK
  <2>3. call'[queue[i + 1].id] = IF queue[i + 1].kind = "submit" THEN "placing" ELSE "cancelling"
    BY <2>1, <2>2 DEF BookInv, QueueOK
  <2>4. queue[i + 1].kind = "submit" /\ Head(queue).kind = "submit" => Head(queue).id < queue[i + 1].id
    BY <1>2, <2>1 DEF BookInv, QueueOK
  <2>5. queue[i + 1].kind = "submit" => \A x \in DOMAIN index : x < queue[i + 1].id
    BY <2>1 DEF BookInv, QueueOK
  <2> QED BY <2>1, <2>3, <2>4, <2>5
<1>7. ASSUME NEW i \in DOMAIN queue', NEW j \in DOMAIN queue'
      PROVE  /\ i # j => queue'[i].id # queue'[j].id
             /\ i < j /\ queue'[i].kind = "submit" /\ queue'[j].kind = "submit"
                  => queue'[i].id < queue'[j].id
  <2>1. /\ i + 1 \in DOMAIN queue /\ queue'[i] = queue[i + 1] /\ i \in Nat
        /\ j + 1 \in DOMAIN queue /\ queue'[j] = queue[j + 1] /\ j \in Nat
    BY <1>2, <1>3
  <2>2. (i # j => i + 1 # j + 1) /\ (i < j => i + 1 < j + 1)
    BY <2>1
  <2> QED BY <2>1, <2>2 DEF BookInv, QueueOK
<1>8. QueueOK'
  BY <1>6, <1>7 DEF QueueOK
<1> QED BY <1>2, <1>5, <1>8

\* Without an order that rests, the book is in order.
LEMMA RemovedOK ==
  ASSUME BookInv, NEW o \in DOMAIN index
  PROVE  /\ BookOK(Removed(o), DOMAIN index \ {o}, Sold(trades))
         /\ \A s \in Side : DOMAIN Removed(o)[s] \subseteq DOMAIN book[s]
<1> DEFINE s == terms[o].side
           p == terms[o].price
           l == book[s][p]
           S == DOMAIN index
           A == Sold(trades)
           k == RemoveAt(l, CHOOSE i \in DOMAIN l : l[i].id = o)
<1>1. index[o].side = s /\ index[o].price = p
  BY DEF BookInv, BookRight
<1>2. Removed(o) = [book EXCEPT ![s] = WithLevel(@, p, k)]
  BY <1>1 DEF Removed
<1>3. s \in Side /\ p \in DOMAIN book[s] /\ InLevel(l, o) /\ BookOK(book, S, A)
  BY DEF BookInv, BookRight, BookOK, Found
<1>4. LevelOK(S, A, l, s, p) /\ p \in Price /\ DOMAIN book = Side
  BY <1>3 DEF BookOK
<1> HIDE DEF l, s, p, S, A
<1> DEFINE pos == CHOOSE i \in DOMAIN l : l[i].id = o
<1>5. pos \in DOMAIN l /\ l[pos].id = o
  BY <1>3 DEF InLevel
<1>6. k = RemoveAt(l, pos)
  OBVIOUS
<1> HIDE DEF pos, k
<1>7. /\ k # <<>> => LevelOK(S \ {o}, A, k, s, p)
      /\ \A x : InLevel(l, x) /\ x # o => k # <<>> /\ InLevel(k, x)
  BY <1>4, <1>5, <1>6, LevelRemove
<1>8. \A x \in S \ {o} : Belongs(x, s, p) => k # <<>> /\ InLevel(k, x)
  <2>1. \A x \in S : Belongs(x, s, p) => InLevel(l, x)
    BY <1>3 DEF BookOK, Found, Belongs, l
  <2> QED BY <1>7, <2>1
<1>9. Belongs(o, s, p)
  BY DEF Belongs, s, p
<1>10. BookOK([book EXCEPT ![s] = WithLevel(@, p, k)], S \ {o}, A)
  <2>1. \A x \in S : ~ Belongs(x, s, p) => x \in S \ {o} /\ A[x] = A[x]
    BY <1>9
  <2>2. \A x \in S \ {o} : ~ Belongs(x, s, p) => x \in S
    OBVIOUS
  <2> QED BY <1>3, <1>4, <1>7, <1>8, <2>1, <2>2, LevelReplaced
<1>11. \A u \in Side : DOMAIN [book EXCEPT ![s] = WithLevel(@, p, k)][u] \subseteq DOMAIN book[u]
  BY <1>3, <1>4 DEF WithLevel, Without
<1> QED BY <1>2, <1>10, <1>11 DEF S, A

LEMMA TakeOutKeeps ==
  ASSUME BookInv, TakeOut
  PROVE  BookInv'
<1> DEFINE o == Head(queue).id
<1>1. /\ UNCHANGED <<up, terms, answer, trades, outbox, streamed, recorded>>
      /\ up /\ queue # <<>> /\ Head(queue).kind = "cancel" /\ queue' = Tail(queue)
  BY DEF TakeOut, Command, delivery
<1>2. Grows /\ terms' \in Seq(Terms) /\ Order' = Order
  BY <1>1, GrowsNot
<1>3. PICK c \in {"cancelled", "fallback"} :
        /\ call' = [call EXCEPT ![o] = c]
        /\ c = "cancelled" => o \in DOMAIN index /\ book' = Removed(o) /\ index' = Without(index, {o})
        /\ c = "fallback" => o \notin DOMAIN index /\ book' = book /\ index' = index
  <2>1. CASE o \in DOMAIN index
    BY <2>1 DEF TakeOut
  <2>2. CASE o \notin DOMAIN index
    BY <2>2 DEF TakeOut
  <2> QED BY <2>1, <2>2
<1>4. /\ DOMAIN index' = DOMAIN index \ {o}
      /\ \A x \in DOMAIN index' : index'[x] = index[x]
  BY <1>3 DEF Without
<1>5. o \in Order
  <2>1. 1 \in DOMAIN queue /\ Head(queue) = queue[1]
    <3>1. queue \in Seq([kind : {"submit", "cancel"}, id : Order])
      BY DEF BookInv, BookTypes
    <3> QED BY <1>1, <3>1, LenProperties, EmptySeq, HeadTailProperties
  <2> QED BY <2>1, QueueKnown
<1> HIDE DEF o
<1>6. /\ call' \in Seq(Calls) /\ Len(call') = Len(terms)
      /\ \A x \in Order : call'[x] = IF x = o THEN c ELSE call[x]
  <2>1. call \in Seq(Calls) /\ Len(call) = Len(terms) /\ c \in Calls
    BY DEF BookInv, BookTypes, Calls
  <2> QED BY <1>3, <1>5, <2>1, QueueKnown, ExceptSeq DEF Order
<1>7. queue' \in Seq([kind : {"submit", "cancel"}, id : Order']) /\ QueueOK'
  BY <1>1, <1>2, <1>4, <1>6, QueueTail DEF o
<1>8. BookOK(book', DOMAIN index', Sold(trades')) /\ \A s \in Side : DOMAIN book'[s] \subseteq DOMAIN book[s]
  <2>1. CASE c = "cancelled"
    BY <1>1, <1>3, <1>4, <2>1, RemovedOK
  <2>2. CASE c = "fallback"
    BY <1>1, <1>3, <2>2 DEF BookInv, BookRight
  <2> QED BY <2>1, <2>2
<1>9. BookRight'
  <2>1. DOMAIN index' \subseteq Order
    BY <1>4 DEF BookInv, BookRight
  <2>2. BookOK(book, DOMAIN index, Sold(trades))'
    BY <1>2, <1>8, <2>1, BookOKStays DEF Grows
  <2> QED BY <1>1, <1>2, <1>4, <2>1, <2>2 DEF BookRight, BookInv
<1>10. Uncrossed'
  <2>1. DOMAIN book'["buy"] \subseteq DOMAIN book["buy"] /\ DOMAIN book'["sell"] \subseteq DOMAIN book["sell"]
    BY <1>8 DEF Side
  <2> QED BY <2>1 DEF BookInv, Uncrossed
<1>11. WithinLimits'
  BY <1>1, <1>2 DEF BookInv, WithinLimits
<1>12. AnswersTrue'
  BY <1>1, <1>2, AnswersKept
<1>13. BookTypes'
  <2>1. trades \in Seq(Trade)'
    BY <1>2 DEF BookInv, BookTypes, Trade, Price
  <2> QED BY <1>1, <1>2, <1>6, <1>7, <2>1 DEF BookInv, BookTypes
<1>14. DeliveryOK'
  BY <1>1, <1>2 DEF BookInv, DeliveryOK, Range, Trade, Price
<1>15. CallsOK'
  BY <1>1, <1>2, <1>3, <1>4, <1>6 DEF BookInv, CallsOK, NoAnswer, Untouched
<1> QED BY <1>7, <1>9, <1>10, <1>11, <1>12, <1>13, <1>14, <1>15 DEF BookInv

-----------------------------------------------------------------------------
(* Order book: an order is submitted. *)

\* What Submit makes of order o.
Walk(o) == IF terms[o].kind # "market" /\ terms[o].price = NoPrice THEN Unmatched(o) ELSE Matched(o)
Told(o) == Reported(terms[o], Walk(o).left, Walk(o).trades)
BookWith(o) ==
  IF Rests(terms[o], Walk(o).left) THEN InsertResting(Walk(o).book, o, terms[o].qty - Walk(o).left)
  ELSE Walk(o).book
IndexWith(o) ==
  IF Rests(terms[o], Walk(o).left)
  THEN [i \in DOMAIN Walk(o).index \cup {o} |->
          IF i = o THEN [side |-> terms[o].side, price |-> terms[o].price] ELSE Walk(o).index[i]]
  ELSE Walk(o).index

LEMMA SubmitIs ==
  ASSUME Submit
  PROVE  LET o == Head(queue).id
         IN /\ up /\ queue # <<>> /\ Head(queue).kind = "submit" /\ queue' = Tail(queue)
            /\ terms[o].kind = "GTC" => terms[o].price # NoPrice
            /\ book' = BookWith(o) /\ index' = IndexWith(o)
            /\ trades' = trades \o Told(o) /\ outbox' = outbox \o Told(o)
            /\ answer' = [answer EXCEPT ![o] = Result(terms[o], Walk(o).left, Walk(o).trades)]
            /\ call' = [call EXCEPT ![o] = "placed"]
            /\ UNCHANGED <<up, terms, streamed, recorded>>
BY DEF Submit, Command, BookWith, IndexWith, Told, Walk

LEMMA HeadReady ==
  ASSUME BookInv, queue # <<>>, Head(queue).kind = "submit"
  PROVE  LET o == Head(queue).id
         IN /\ Ready(o) /\ o \in Order /\ call[o] = "placing"
            /\ \A x \in DOMAIN index : x < o
<1> DEFINE o == Head(queue).id
<1>1. 1 \in DOMAIN queue /\ Head(queue) = queue[1]
  <2>1. queue \in Seq([kind : {"submit", "cancel"}, id : Order])
    BY DEF BookInv, BookTypes
  <2> QED BY <2>1, LenProperties, EmptySeq, HeadTailProperties
<1>2. o \in Order /\ call[o] = "placing" /\ \A x \in DOMAIN index : x < o
  BY <1>1, QueueKnown DEF BookInv, QueueOK
<1> HIDE DEF o
<1>3. o \notin DOMAIN index /\ Traded(trades, o) = 0
  BY <1>2, TradedNone DEF BookInv, BookTypes, CallsOK
<1>4. Ready(o)
  BY <1>2, <1>3 DEF Ready, BookInv, BookTypes, BookRight, WithinLimits
<1> QED BY <1>2, <1>4 DEF o

\* The matching ends in order, and when the rest of o is to rest, with nothing
\* left that o would take.
LEMMA WalkIs ==
  ASSUME NEW o, Ready(o)
  PROVE  /\ WalkOK(Walk(o), o)
         /\ terms[o].kind = "GTC" /\ terms[o].price # NoPrice => ~ Going(Walk(o), o)
BY UnmatchedOK, MatchedOK DEF Walk

LEMMA ConcatIs ==
  ASSUME NEW S, NEW a \in Seq(S), NEW b \in Seq(S)
  PROVE  /\ a \o b \in Seq(S) /\ Len(a) \in Nat /\ Len(b) \in Nat
         /\ Len(a \o b) = Len(a) + Len(b)
         /\ DOMAIN a = 1..Len(a) /\ DOMAIN b = 1..Len(b)
         /\ \A i \in DOMAIN a : i \in DOMAIN (a \o b) /\ (a \o b)[i] = a[i]
         /\ \A i \in DOMAIN b : i + Len(a) \in DOMAIN (a \o b) /\ (a \o b)[i + Len(a)] = b[i]
         /\ \A i \in DOMAIN (a \o b) : \/ i \in DOMAIN a /\ (a \o b)[i] = a[i]
                                       \/ \E j \in DOMAIN b : i = j + Len(a) /\ (a \o b)[i] = b[j]
         /\ Range(a \o b) = Range(a) \cup Range(b)
<1> DEFINE c == a \o b
           m == Len(a)
           n == Len(b)
<1>1. /\ c \in Seq(S) /\ m \in Nat /\ n \in Nat /\ Len(c) = m + n
      /\ DOMAIN a = 1..m /\ DOMAIN b = 1..n /\ DOMAIN c = 1..(m + n)
      /\ \A i \in 1..(m + n) : c[i] = IF i <= m THEN a[i] ELSE b[i - m]
  BY ConcatProperties, LenProperties
<1> HIDE DEF c, m, n
<1>2. \A i \in DOMAIN a : i \in DOMAIN c /\ c[i] = a[i]
  BY <1>1
<1>3. ASSUME NEW i \in DOMAIN b PROVE i + m \in DOMAIN c /\ c[i + m] = b[i]
  <2>1. i + m \in 1..(m + n) /\ ~ (i + m <= m) /\ (i + m) - m = i
    BY <1>1
  <2> QED BY <1>1, <2>1
<1>4. ASSUME NEW i \in DOMAIN c
      PROVE  \/ i \in DOMAIN a /\ c[i] = a[i]
             \/ \E j \in DOMAIN b : i = j + m /\ c[i] = b[j]
  <2>1. CASE i <= m
    BY <1>1, <2>1
  <2>2. CASE ~ (i <= m)
    <3>1. i - m \in 1..n /\ i = (i - m) + m
      BY <1>1, <2>2
    <3> QED BY <1>1, <2>2, <3>1
  <2> QED BY <2>1, <2>2
<1>5. Range(c) = Range(a) \cup Range(b)
  <2>1. \A x \in Range(c) : x \in Range(a) \cup Range(b)
    BY <1>4 DEF Range
  <2>2. \A x \in Range(a) \cup Range(b) : x \in Range(c)
    BY <1>2, <1>3 DEF Range
  <2> QED BY <2>1, <2>2
<1> QED BY <1>1, <1>2, <1>3, <1>4, <1>5 DEF c, m, n

\* What is told of the trades: all or, of a fill-or-kill order, nothing.
LEMMA ToldIs ==
  ASSUME NEW o, Ready(o)
  PROVE  /\ Told(o) \in Seq(Trade) /\ trades \in Seq(Trade)
         /\ \/ Told(o) = Walk(o).trades /\ ~ (terms[o].kind = "FOK" /\ Walk(o).left > 0)
            \/ /\ Told(o) = <<>> /\ terms[o].kind = "FOK" /\ Walk(o).left > 0
               /\ trades \o Told(o) = trades
         /\ Rests(terms[o], Walk(o).left) => Told(o) = Walk(o).trades
         /\ \A i \in DOMAIN Told(o) : \E j \in DOMAIN Walk(o).trades : Told(o)[i] = Walk(o).trades[j]
<1>1. Walk(o).trades \in Seq(Trade) /\ trades \in Seq(Trade) /\ <<>> \in Seq(Trade)
      /\ trades \o <<>> = trades
  BY WalkIs, EmptySeq, ConcatEmptySeq DEF WalkOK, WalkTrades, Ready
<1>2. CASE terms[o].kind = "FOK" /\ Walk(o).left > 0
  <2>1. Told(o) = <<>> /\ ~ Rests(terms[o], Walk(o).left) /\ DOMAIN <<>> = {}
    BY <1>2 DEF Told, Reported, Rests
  <2> QED BY <1>1, <1>2, <2>1
<1>3. CASE ~ (terms[o].kind = "FOK" /\ Walk(o).left > 0)
  <2>1. Told(o) = Walk(o).trades
    BY <1>3 DEF Told, Reported
  <2> QED BY <1>1, <1>3, <2>1
<1> QED BY <1>2, <1>3

\* A book in order stays so when the orders have traded less.
LEMMA BookLess ==
  ASSUME NEW b, NEW S, NEW A, NEW B, BookOK(b, S, A),
         \A x \in S : A[x] \in Int /\ B[x] \in Int /\ B[x] <= A[x]
  PROVE  BookOK(b, S, B)
<1>1. ASSUME NEW s \in Side, NEW p \in DOMAIN b[s] PROVE LevelOK(S, B, b[s][p], s, p)
  <2> DEFINE l == b[s][p]
  <2>1. LevelOK(S, A, l, s, p)
    BY DEF BookOK
  <2> HIDE DEF l
  <2>2. \A i \in DOMAIN l : l[i] \in Resting
    BY <2>1, LenProperties, ElementOfSeq DEF LevelOK
  <2>3. \A i \in DOMAIN l : B[l[i].id] <= l[i].filled
    <3>1. ASSUME NEW i \in DOMAIN l PROVE B[l[i].id] <= l[i].filled
      <4>1. l[i].id \in S /\ A[l[i].id] <= l[i].filled /\ l[i].filled \in Int
        BY <2>1, <2>2 DEF LevelOK, Resting
      <4>2. A[l[i].id] \in Int /\ B[l[i].id] \in Int /\ B[l[i].id] <= A[l[i].id]
        BY <4>1
      <4> QED BY <4>1, <4>2
    <3> QED BY <3>1
  <2> QED BY <2>1, <2>3 DEF LevelOK, l
<1> QED BY <1>1 DEF BookOK

\* After the matching the book is in order, for the trades that are told.
LEMMA WalkToldOK ==
  ASSUME NEW o, Ready(o)
  PROVE  BookOK(Walk(o).book, DOMAIN Walk(o).index, Sold(trades \o Told(o)))
<1> DEFINE w == Walk(o)
<1>1. WalkOK(w, o)
  BY WalkIs
<1> HIDE DEF w
<1>2. BookOK(w.book, DOMAIN w.index, Sold(trades \o w.trades))
  BY <1>1 DEF WalkOK, WalkBook
<1>3. CASE Told(o) = w.trades
  BY <1>2, <1>3 DEF w
<1>4. CASE trades \o Told(o) = trades
  <2>1. DOMAIN w.index \subseteq Order
    BY <1>1 DEF WalkOK, WalkBook, Ready
  <2>2. \A x \in Order : Sold(trades)[x] = Traded(trades, x)
        /\ Sold(trades \o w.trades)[x] = Traded(trades \o w.trades, x)
    BY DEF Sold
  <2>3. \A x \in Order : Traded(trades, x) \in Int /\ Traded(trades \o w.trades, x) \in Int
    <3>1. trades \in Seq(AnyTrade) /\ trades \o w.trades \in Seq(AnyTrade)
      <4>1. trades \in Seq(Trade) /\ trades \o w.trades \in Seq(Trade)
        BY <1>1, ConcatIs DEF WalkOK, WalkTrades, Ready
      <4> QED BY <4>1, TradesNat, SeqMonotonic
    <3>2. \A x \in Order : Traded(trades, x) \in Nat /\ Traded(trades \o w.trades, x) \in Nat
      BY <3>1, TradedNat
    <3> QED BY <3>2
  <2>4. \A x \in Order : Traded(trades, x) <= Traded(trades \o w.trades, x)
    BY <1>1 DEF WalkOK, WalkAmounts
  <2>5. BookOK(w.book, DOMAIN w.index, Sold(trades))
    <3>1. \A x \in DOMAIN w.index : /\ Sold(trades \o w.trades)[x] \in Int /\ Sold(trades)[x] \in Int
                                    /\ Sold(trades)[x] <= Sold(trades \o w.trades)[x]
      BY <2>1, <2>2, <2>3, <2>4
    <3> QED BY <1>2, <3>1, BookLess
  <2> QED BY <1>4, <2>5 DEF w
<1> QED BY <1>3, <1>4, ToldIs DEF w

\* An order that is to rest goes behind all at its price, and its price does not
\* cross the other side.
LEMMA InsertOK ==
  ASSUME NEW o, Ready(o), \A x \in DOMAIN index : x < o, Uncrossed,
         terms[o].kind = "GTC" => terms[o].price # NoPrice, Rests(terms[o], Walk(o).left)
  PROVE  /\ BookOK(BookWith(o), DOMAIN Walk(o).index \cup {o}, Sold(trades \o Told(o)))
         /\ \A p \in DOMAIN BookWith(o)["buy"], q \in DOMAIN BookWith(o)["sell"] : p < q
<1> DEFINE w == Walk(o)
           s == terms[o].side
           p == terms[o].price
           l == IF p \in DOMAIN w.book[s] THEN w.book[s][p] ELSE <<>>
           f == terms[o].qty - w.left
           k == Append(l, [id |-> o, filled |-> f])
           S == DOMAIN w.index
           A == Sold(trades \o Told(o))
           c == [w.book EXCEPT ![s] = WithLevel(@, p, k)]
<1>1. /\ WalkOK(w, o) /\ ~ Going(w, o) /\ w.left > 0 /\ Told(o) = w.trades
      /\ s \in Side /\ p \in Price /\ o \in Order /\ terms[o].qty \in Nat
  <2>1. terms \in Seq(Terms) /\ o \in Order /\ terms[o].kind = "GTC" /\ w.left > 0
    BY DEF Ready, Rests
  <2>2. s \in Side /\ p \in Price /\ terms[o].qty \in Nat
    BY <2>1, TermsKnown
  <2> QED BY <2>1, <2>2, WalkIs, ToldIs
<1>2. BookOK(w.book, S, A)
  BY WalkToldOK
<1>3. BookWith(o) = c
  BY DEF BookWith, InsertResting
<1>4. A[o] = f /\ f \in Nat /\ f < terms[o].qty
  <2>1. w.left \in 0..terms[o].qty /\ Traded(trades \o w.trades, o) = f
    BY <1>1 DEF WalkOK, WalkAmounts
  <2>2. A[o] = Traded(trades \o w.trades, o)
    BY <1>1 DEF Sold
  <2> HIDE DEF w, A
  <2> QED BY <1>1, <2>1, <2>2
<1>5. S \subseteq DOMAIN index /\ \A x \in S : x < o
  BY <1>1 DEF WalkOK, WalkBook
<1>6. o \notin S
  BY <1>5 DEF Ready
<1>7. DOMAIN w.book = Side /\ DOMAIN w.book[s] \subseteq Price
  BY <1>1, <1>2 DEF BookOK
<1>8. l = <<>> \/ LevelOK(S, A, l, s, p)
  BY <1>1, <1>2 DEF BookOK
<1>9. Belongs(o, s, p)
  BY DEF Belongs
<1>10. \A x \in S : Belongs(x, s, p) => InLevel(l, x)
  BY <1>2 DEF BookOK, Found, Belongs
<1> HIDE DEF l, S, A, f, w, s, p
<1>11. /\ k # <<>> /\ LevelOK(S \cup {o}, A, k, s, p) /\ InLevel(k, o)
       /\ \A x : InLevel(l, x) => InLevel(k, x)
  <2>1. A[o] <= f
    BY <1>4
  <2>2. f < terms[o].qty
    BY <1>4
  <2>3. o \in Order /\ f \in Nat /\ \A x \in S : x < o
    BY <1>1, <1>4, <1>5
  <2> HIDE DEF k
  <2>4. GoesBehind(S, A, l, s, p, o, f)
    BY <1>8, <1>9, <2>1, <2>2, <2>3 DEF GoesBehind
  <2>5. LET j == Append(l, [id |-> o, filled |-> f])
        IN /\ j # <<>> /\ LevelOK(S \cup {o}, A, j, s, p) /\ InLevel(j, o)
           /\ \A x : InLevel(l, x) => InLevel(j, x)
    BY <2>4, LevelAppend
  <2> QED BY <2>5 DEF k
<1> HIDE DEF k
<1>12. BookOK(c, S \cup {o}, A)
  <2>1. \A x \in S \cup {o} : Belongs(x, s, p) => k # <<>> /\ InLevel(k, x)
    BY <1>10, <1>11
  <2>2. \A x \in S : ~ Belongs(x, s, p) => x \in S \cup {o} /\ A[x] = A[x]
    OBVIOUS
  <2>3. \A x \in S \cup {o} : ~ Belongs(x, s, p) => x \in S
    BY <1>9
  <2> QED BY <1>1, <1>2, <1>11, <2>1, <2>2, <2>3, LevelReplaced
<1>13. /\ DOMAIN c[s] = DOMAIN w.book[s] \cup {p}
       /\ \A u \in Side : u # s => c[u] = w.book[u]
  BY <1>1, <1>7, <1>11 DEF WithLevel
<1> HIDE DEF c
<1>14. /\ w.book[s] = book[s] /\ DOMAIN w.book[Opposite(s)] \subseteq DOMAIN book[Opposite(s)]
       /\ \A q \in DOMAIN w.book[Opposite(s)] : ~ Takes(terms[o], q)
  <2>1. w.book[s] = book[s] /\ DOMAIN w.book[Opposite(s)] \subseteq DOMAIN book[Opposite(s)]
    BY <1>1 DEF WalkOK, WalkBook, s
  <2>2. Reach(w.book[Opposite(s)], o) = {}
    <3>1. w.left # 0
      BY <1>1
    <3> QED BY <1>1, <3>1 DEF Going, Across, s
  <2> QED BY <2>1, <2>2 DEF Reach
<1>15. p # NoPrice /\ p \in Nat /\ Price \subseteq Nat
  BY <1>1, OrderBookAssumption
<1>16. \A x \in DOMAIN c["buy"], y \in DOMAIN c["sell"] : x < y
  <2>1. CASE s = "buy"
    <3>1. Opposite(s) = "sell"
      BY <1>1, <2>1, OppositeIs DEF Side
    <3>2. /\ DOMAIN c["buy"] = DOMAIN book["buy"] \cup {p} /\ c["sell"] = w.book["sell"]
          /\ DOMAIN w.book["sell"] \subseteq DOMAIN book["sell"]
      BY <1>13, <1>14, <2>1, <3>1 DEF Side
    <3>3. ASSUME NEW y \in DOMAIN w.book["sell"] PROVE p < y
      <4>1. ~ (p >= y)
        BY <1>14, <1>15, <2>1, <3>1 DEF Takes, s, p
      <4>2. y \in Nat
        BY <1>2, <1>15 DEF BookOK, Side
      <4> QED BY <1>15, <4>1, <4>2
    <3> QED BY <3>2, <3>3 DEF Uncrossed
  <2>2. CASE s = "sell"
    <3>1. Opposite(s) = "buy"
      BY <1>1, <2>2, OppositeIs DEF Side
    <3>2. /\ DOMAIN c["sell"] = DOMAIN book["sell"] \cup {p} /\ c["buy"] = w.book["buy"]
          /\ DOMAIN w.book["buy"] \subseteq DOMAIN book["buy"]
      BY <1>13, <1>14, <2>2, <3>1 DEF Side
    <3>3. ASSUME NEW y \in DOMAIN w.book["buy"] PROVE y < p
      <4>1. ~ (p <= y)
        BY <1>14, <1>15, <2>2, <3>1 DEF Takes, s, p
      <4>2. y \in Nat
        BY <1>2, <1>15 DEF BookOK, Side
      <4> QED BY <1>15, <4>1, <4>2
    <3> QED BY <3>2, <3>3 DEF Uncrossed
  <2> QED BY <1>1, <2>1, <2>2 DEF Side
<1> QED BY <1>3, <1>12, <1>16 DEF S, A, w

\* The book and the index after Submit.
LEMMA SubmitBookOK ==
  ASSUME NEW o, Ready(o), \A x \in DOMAIN index : x < o, Uncrossed, BookRight,
         terms[o].kind = "GTC" => terms[o].price # NoPrice
  PROVE  /\ BookOK(BookWith(o), DOMAIN IndexWith(o), Sold(trades \o Told(o)))
         /\ \A p \in DOMAIN BookWith(o)["buy"], q \in DOMAIN BookWith(o)["sell"] : p < q
         /\ \A x \in DOMAIN IndexWith(o) :
              /\ x \in DOMAIN index \/ (x = o /\ Rests(terms[o], Walk(o).left))
              /\ IndexWith(o)[x] = [side |-> terms[x].side, price |-> terms[x].price]
<1> DEFINE w == Walk(o)
<1>1. WalkOK(w, o) /\ o \in Order /\ o \notin DOMAIN index
  BY WalkIs DEF Ready
<1>2. /\ DOMAIN w.index \subseteq DOMAIN index /\ \A x \in DOMAIN w.index : w.index[x] = index[x]
      /\ w.book[terms[o].side] = book[terms[o].side]
      /\ DOMAIN w.book[Opposite(terms[o].side)] \subseteq DOMAIN book[Opposite(terms[o].side)]
  BY <1>1 DEF WalkOK, WalkBook
<1>3. \A x \in DOMAIN w.index : w.index[x] = [side |-> terms[x].side, price |-> terms[x].price]
  BY <1>2 DEF BookRight
<1>4. CASE Rests(terms[o], w.left)
  <2>1. IndexWith(o) = [i \in DOMAIN w.index \cup {o} |->
            IF i = o THEN [side |-> terms[o].side, price |-> terms[o].price] ELSE w.index[i]]
    BY <1>4 DEF IndexWith
  <2> HIDE DEF w
  <2>2. DOMAIN IndexWith(o) = DOMAIN w.index \cup {o}
    BY <2>1
  <2>3. \A x \in DOMAIN IndexWith(o) :
          /\ x \in DOMAIN index \/ (x = o /\ Rests(terms[o], w.left))
          /\ IndexWith(o)[x] = [side |-> terms[x].side, price |-> terms[x].price]
    BY <1>2, <1>3, <1>4, <2>1, <2>2
  <2> QED BY <1>4, <2>2, <2>3, InsertOK DEF w
<1>5. CASE ~ Rests(terms[o], w.left)
  <2>1. IndexWith(o) = w.index /\ BookWith(o) = w.book
    BY <1>5 DEF IndexWith, BookWith
  <2>2. BookOK(w.book, DOMAIN w.index, Sold(trades \o Told(o)))
    BY WalkToldOK
  <2>3. terms[o].side \in Side
    BY <1>1, TermsKnown DEF Ready
  <2> HIDE DEF w
  <2>4. \A s \in Side : DOMAIN w.book[s] \subseteq DOMAIN book[s]
    BY <1>2, <2>3, OppositeIs
  <2>5. \A p \in DOMAIN w.book["buy"], q \in DOMAIN w.book["sell"] : p < q
    BY <2>4 DEF Uncrossed, Side
  <2> QED BY <1>2, <1>3, <2>1, <2>2, <2>5
<1> QED BY <1>4, <1>5

\* What the orders have traded after Submit.
LEMMA SubmitAmounts ==
  ASSUME NEW o, Ready(o)
  PROVE  LET new == trades \o Told(o)
         IN /\ \A x \in Order : Traded(new, x) <= terms[x].qty
            /\ \A x \in Order \ {o} : Amount(new, "taker", x) = Amount(trades, "taker", x)
            /\ IF terms[o].kind = "FOK" /\ Walk(o).left > 0
               THEN Amount(new, "taker", o) = 0
               ELSE Amount(new, "taker", o) = terms[o].qty - Walk(o).left
            /\ Walk(o).left \in 0..terms[o].qty
            /\ Walk(o).trades = <<>> <=> Walk(o).left = terms[o].qty
<1>1. WalkAmounts(Walk(o), o)
  BY WalkIs DEF WalkOK
<1>2. CASE Told(o) = Walk(o).trades /\ ~ (terms[o].kind = "FOK" /\ Walk(o).left > 0)
  BY <1>1, <1>2 DEF WalkAmounts
<1>3. CASE trades \o Told(o) = trades /\ terms[o].kind = "FOK" /\ Walk(o).left > 0
  <2>1. Amount(trades, "taker", o) = 0
    <3>1. trades \in Seq(AnyTrade)
      BY TradesNat, SeqMonotonic DEF Ready
    <3>2. Amount(trades, "taker", o) \in Nat /\ Amount(trades, "maker", o) \in Nat
      BY <3>1, TradedNat
    <3> QED BY <3>2 DEF Ready, Traded
  <2> QED BY <1>1, <1>3, <2>1 DEF WalkAmounts, Ready
<1> QED BY <1>2, <1>3, ToldIs

\* The answer to o is what happened to it.
LEMMA ResultIs ==
  ASSUME NEW o, Ready(o)
  PROVE  LET taken == Amount(trades \o Told(o), "taker", o)
             a == Result(terms[o], Walk(o).left, Walk(o).trades)
         IN /\ a.remaining = terms[o].qty - taken
            /\ (a.status = "Filled") = (a.remaining = 0)
            /\ (a.status = "Resting") = (terms[o].kind = "GTC" /\ taken = 0)
            /\ (a.status = "PartiallyFilled") => taken # 0 /\ terms[o].kind \in {"GTC", "IOC"}
            /\ (a.status = "Cancelled") => terms[o].kind # "GTC"
            /\ a \in Answers
<1> DEFINE taken == Amount(trades \o Told(o), "taker", o)
           lot == Walk(o).left
           ts == Walk(o).trades
           t == terms[o]
           a == Result(t, lot, ts)
<1>1. /\ lot \in 0..t.qty /\ t.qty \in Nat \ {0}
      /\ t.kind \in {"market", "GTC", "IOC", "FOK"}
      /\ ts = <<>> <=> lot = t.qty
      /\ IF t.kind = "FOK" /\ lot > 0 THEN taken = 0 ELSE taken = t.qty - lot
  BY SubmitAmounts, TermsKnown DEF Ready
<1> HIDE DEF taken, lot, ts, t
<1>2. lot \in Int /\ (lot # 0 <=> lot > 0)
  BY <1>1
<1>3. CASE lot = 0
  <2>1. a = [status |-> "Filled", remaining |-> 0]
    BY <1>3 DEF Result
  <2>2. taken = t.qty
    BY <1>1, <1>3
  <2> HIDE DEF a
  <2>3. a.status = "Filled" /\ a.remaining = 0 /\ a \in Answers
    BY <2>1 DEF Answers, Statuses
  <2> QED BY <1>1, <2>2, <2>3 DEF taken, lot, ts, t, a
<1>4. CASE lot # 0 /\ t.kind = "market"
  <2>1. a = [status |-> "Cancelled", remaining |-> lot]
    BY <1>4 DEF Result
  <2> HIDE DEF a
  <2>2. a.status = "Cancelled" /\ a.remaining = lot /\ a \in Answers
    BY <1>2, <2>1 DEF Answers, Statuses
  <2>3. lot = t.qty - taken
    BY <1>1, <1>4
  <2> QED BY <1>1, <1>4, <2>2, <2>3 DEF taken, lot, ts, t, a
<1>5. CASE lot # 0 /\ t.kind = "FOK"
  <2>1. a = [status |-> "Cancelled", remaining |-> t.qty]
    BY <1>5 DEF Result
  <2> HIDE DEF a
  <2>2. a.status = "Cancelled" /\ a.remaining = t.qty /\ a \in Answers
    BY <1>1, <2>1 DEF Answers, Statuses
  <2>3. t.qty = t.qty - taken
    BY <1>1, <1>2, <1>5
  <2> QED BY <1>1, <1>5, <2>2, <2>3 DEF taken, lot, ts, t, a
<1>6. CASE lot # 0 /\ t.kind = "IOC"
  <2>1. a = [status |-> IF ts = <<>> THEN "Cancelled" ELSE "PartiallyFilled", remaining |-> lot]
    BY <1>6 DEF Result
  <2> HIDE DEF a
  <2>2. /\ a.status = (IF ts = <<>> THEN "Cancelled" ELSE "PartiallyFilled") /\ a.remaining = lot
        /\ a \in Answers
    BY <1>2, <2>1 DEF Answers, Statuses
  <2>3. lot = t.qty - taken /\ (ts = <<>> <=> taken = 0)
    BY <1>1, <1>6
  <2> QED BY <1>6, <2>2, <2>3 DEF taken, lot, ts, t, a
<1>7. CASE lot # 0 /\ t.kind = "GTC"
  <2>1. a = [status |-> IF ts = <<>> THEN "Resting" ELSE "PartiallyFilled", remaining |-> lot]
    BY <1>7 DEF Result
  <2> HIDE DEF a
  <2>2. /\ a.status = (IF ts = <<>> THEN "Resting" ELSE "PartiallyFilled") /\ a.remaining = lot
        /\ a \in Answers
    BY <1>2, <2>1 DEF Answers, Statuses
  <2>3. lot = t.qty - taken /\ (ts = <<>> <=> taken = 0)
    BY <1>1, <1>7
  <2> QED BY <1>7, <2>2, <2>3 DEF taken, lot, ts, t, a
<1> QED BY <1>1, <1>3, <1>4, <1>5, <1>6, <1>7

\* Every trade of Submit is one that its two orders allow.
LEMMA ToldAllowed ==
  ASSUME NEW o, Ready(o), NEW i \in DOMAIN Told(o)
  PROVE  LET t == Told(o)[i] IN
         /\ t.taker = o /\ t.maker \in DOMAIN index
         /\ terms[o].side # terms[t.maker].side /\ terms[t.maker].price = t.price
         /\ terms[o].price = NoPrice \/ IF terms[o].side = "buy" THEN t.price <= terms[o].price
                                                                 ELSE t.price >= terms[o].price
<1>1. PICK j \in DOMAIN Walk(o).trades : Told(o)[i] = Walk(o).trades[j]
  BY ToldIs
<1> DEFINE t == Walk(o).trades[j]
<1>2. /\ t.taker = o /\ t.maker \in DOMAIN index
      /\ Belongs(t.maker, Opposite(terms[o].side), t.price) /\ Takes(terms[o], t.price)
  BY WalkIs DEF WalkOK, WalkTrades
<1>3. t \in Trade
  BY WalkIs, LenProperties, ElementOfSeq DEF WalkOK, WalkTrades
<1>4. terms[o].side \in Side /\ terms[o].price \in Price \cup {NoPrice} /\ Price \subseteq Nat
  BY TermsKnown, OrderBookAssumption DEF Ready
<1> HIDE DEF t
<1>5. terms[o].side # terms[t.maker].side /\ terms[t.maker].price = t.price
  BY <1>2, <1>4, OppositeIs DEF Belongs
<1>6. terms[o].price = NoPrice \/ IF terms[o].side = "buy" THEN t.price <= terms[o].price
                                                           ELSE t.price >= terms[o].price
  <2>1. t.price \in Nat
    BY <1>3, <1>4 DEF Trade
  <2> QED BY <1>2, <1>4, <2>1 DEF Takes
<1> QED BY <1>1, <1>2, <1>5, <1>6 DEF t

LEMMA SubmitLimits ==
  ASSUME BookInv, NEW o, Ready(o), trades' = trades \o Told(o), terms' = terms
  PROVE  WithinLimits'
<1>1. trades \in Seq(Trade) /\ Told(o) \in Seq(Trade) /\ Order' = Order
  BY ToldIs, GrowsNot
<1>2. ASSUME NEW i \in DOMAIN trades'
      PROVE  LET t == trades'[i] IN
             /\ terms'[t.taker].side # terms'[t.maker].side
             /\ terms'[t.maker].price = t.price
             /\ LET u == terms'[t.taker] IN
                u.price = NoPrice \/ IF u.side = "buy" THEN t.price <= u.price ELSE t.price >= u.price
  <2>1. CASE i \in DOMAIN trades /\ trades'[i] = trades[i]
    BY <2>1 DEF BookInv, WithinLimits
  <2>2. ASSUME NEW j \in DOMAIN Told(o), trades'[i] = Told(o)[j]
        PROVE  LET t == trades'[i] IN
               /\ terms'[t.taker].side # terms'[t.maker].side
               /\ terms'[t.maker].price = t.price
               /\ LET u == terms'[t.taker] IN
                  u.price = NoPrice \/ IF u.side = "buy" THEN t.price <= u.price ELSE t.price >= u.price
    <3> DEFINE t == Told(o)[j]
    <3>1. /\ t.taker = o /\ terms[o].side # terms[t.maker].side /\ terms[t.maker].price = t.price
          /\ terms[o].price = NoPrice \/ IF terms[o].side = "buy" THEN t.price <= terms[o].price
                                                                  ELSE t.price >= terms[o].price
      BY ToldAllowed
    <3> HIDE DEF t
    <3>2. trades'[i] = t
      BY <2>2 DEF t
    <3> QED BY <3>1, <3>2
  <2>3. \/ i \in DOMAIN trades /\ trades'[i] = trades[i]
        \/ \E j \in DOMAIN Told(o) : trades'[i] = Told(o)[j]
    BY <1>1, ConcatIs
  <2> QED BY <2>1, <2>2, <2>3
<1>3. \A x \in Order : Traded(trades', x) <= terms[x].qty
  BY SubmitAmounts
<1> QED BY <1>1, <1>2, <1>3 DEF WithinLimits

LEMMA SubmitAnswers ==
  ASSUME BookInv, NEW o, Ready(o), trades' = trades \o Told(o), terms' = terms,
         answer' = [answer EXCEPT ![o] = Result(terms[o], Walk(o).left, Walk(o).trades)]
  PROVE  /\ AnswersTrue' /\ Len(answer') = Len(terms)
         /\ answer' \in Seq(Answers)
         /\ \A x \in Order \ {o} : answer'[x] = answer[x]
<1> DEFINE a == Result(terms[o], Walk(o).left, Walk(o).trades)
           new == trades \o Told(o)
<1>1. LET taken == Amount(new, "taker", o)
      IN /\ a.remaining = terms[o].qty - taken
         /\ (a.status = "Filled") = (a.remaining = 0)
         /\ (a.status = "Resting") = (terms[o].kind = "GTC" /\ taken = 0)
         /\ (a.status = "PartiallyFilled") => taken # 0 /\ terms[o].kind \in {"GTC", "IOC"}
         /\ (a.status = "Cancelled") => terms[o].kind # "GTC"
         /\ a \in Answers
  BY ResultIs
<1>2. \A x \in Order \ {o} : Amount(new, "taker", x) = Amount(trades, "taker", x)
  BY SubmitAmounts
<1>3. Order' = Order /\ o \in Order
  BY GrowsNot DEF Ready
<1> HIDE DEF a, new
<1>4. /\ answer' \in Seq(Answers) /\ Len(answer') = Len(terms)
      /\ \A x \in Order : answer'[x] = IF x = o THEN a ELSE answer[x]
  <2>1. answer \in Seq(Answers) /\ Len(answer) = Len(terms)
    BY DEF BookInv, BookTypes
  <2>2. answer' = [answer EXCEPT ![o] = a]
    BY DEF a
  <2> QED BY <1>1, <1>3, <2>1, <2>2, QueueKnown, ExceptSeq DEF Order
<1>5. ASSUME NEW x \in Order', answer'[x] # NoAnswer
      PROVE LET taken == Amount(trades', "taker", x)
                b == answer'[x]
            IN /\ b.remaining = terms'[x].qty - taken
               /\ (b.status = "Filled") = (b.remaining = 0)
               /\ (b.status = "Resting") = (terms'[x].kind = "GTC" /\ taken = 0)
               /\ (b.status = "PartiallyFilled") => taken # 0 /\ terms'[x].kind \in {"GTC", "IOC"}
               /\ (b.status = "Cancelled") => terms'[x].kind # "GTC"
  <2>1. trades' = new /\ terms' = terms /\ x \in Order
    BY <1>3 DEF new
  <2>2. CASE x = o
    <3>1. answer'[x] = a
      BY <1>4, <2>1, <2>2
    <3> QED BY <1>1, <2>1, <2>2, <3>1
  <2>3. CASE x # o
    <3>1. answer'[x] = answer[x] /\ Amount(new, "taker", x) = Amount(trades, "taker", x)
      BY <1>2, <1>4, <2>1, <2>3
    <3> QED BY <1>5, <2>1, <3>1 DEF BookInv, AnswersTrue
  <2> QED BY <2>2, <2>3
<1>6. AnswersTrue'
  BY <1>5 DEF AnswersTrue, NoAnswer
<1> QED BY <1>4, <1>6

LEMMA SubmitKeeps ==
  ASSUME BookInv, Submit
  PROVE  BookInv'
<1> DEFINE o == Head(queue).id
<1>1. /\ up /\ queue # <<>> /\ Head(queue).kind = "submit" /\ queue' = Tail(queue)
      /\ terms[o].kind = "GTC" => terms[o].price # NoPrice
      /\ book' = BookWith(o) /\ index' = IndexWith(o)
      /\ trades' = trades \o Told(o) /\ outbox' = outbox \o Told(o)
      /\ answer' = [answer EXCEPT ![o] = Result(terms[o], Walk(o).left, Walk(o).trades)]
      /\ call' = [call EXCEPT ![o] = "placed"]
      /\ UNCHANGED <<up, terms, streamed, recorded>>
  BY SubmitIs
<1>2. Ready(o) /\ o \in Order /\ call[o] = "placing" /\ \A x \in DOMAIN index : x < o
  BY <1>1, HeadReady
<1>3. Grows /\ terms' \in Seq(Terms) /\ Order' = Order
  BY <1>1, GrowsNot
<1> HIDE DEF o
<1>4. /\ BookOK(BookWith(o), DOMAIN IndexWith(o), Sold(trades \o Told(o)))
      /\ \A p \in DOMAIN BookWith(o)["buy"], q \in DOMAIN BookWith(o)["sell"] : p < q
      /\ \A x \in DOMAIN IndexWith(o) :
           /\ x \in DOMAIN index \/ (x = o /\ Rests(terms[o], Walk(o).left))
           /\ IndexWith(o)[x] = [side |-> terms[x].side, price |-> terms[x].price]
  BY <1>1, <1>2, SubmitBookOK DEF BookInv
<1>5. BookRight'
  <2>1. DOMAIN index' \subseteq Order
    BY <1>1, <1>2, <1>4 DEF BookInv, BookRight
  <2>2. BookOK(book', DOMAIN index', Sold(trades'))
    BY <1>1, <1>4
  <2>3. BookOK(book, DOMAIN index, Sold(trades))'
    BY <1>3, <2>1, <2>2, BookOKStays DEF Grows
  <2> QED BY <1>1, <1>3, <1>4, <2>1, <2>3 DEF BookRight
<1>6. Uncrossed'
  BY <1>1, <1>4 DEF Uncrossed
<1>7. WithinLimits'
  BY <1>1, <1>2, SubmitLimits
<1>8. /\ AnswersTrue' /\ Len(answer') = Len(terms)
      /\ answer' \in Seq(Answers)
      /\ \A x \in Order \ {o} : answer'[x] = answer[x]
  BY <1>1, <1>2, SubmitAnswers
<1>9. /\ call' \in Seq(Calls) /\ Len(call') = Len(terms)
      /\ \A x \in Order : call'[x] = IF x = o THEN "placed" ELSE call[x]
  <2>1. call \in Seq(Calls) /\ Len(call) = Len(terms) /\ "placed" \in Calls
    BY DEF BookInv, BookTypes, Calls
  <2> QED BY <1>1, <1>2, <2>1, QueueKnown, ExceptSeq DEF Order
<1>10. queue' \in Seq([kind : {"submit", "cancel"}, id : Order']) /\ QueueOK'
  <2>1. \A x \in Order : x # Head(queue).id => call'[x] = call[x]
    BY <1>9 DEF o
  <2>2. \A x \in DOMAIN index' : x \in DOMAIN index \/ (Head(queue).kind = "submit" /\ x = Head(queue).id)
    BY <1>1, <1>4 DEF o
  <2> QED BY <1>1, <1>3, <2>1, <2>2, QueueTail
<1>11. /\ trades \in Seq(Trade) /\ outbox \in Seq(Trade) /\ Told(o) \in Seq(Trade)
       /\ Trade = Trade'
  BY <1>2, <1>3, ToldIs DEF BookInv, DeliveryOK, Trade, Price
<1>12. /\ trades' \in Seq(Trade) /\ outbox' \in Seq(Trade)
       /\ Len(trades) \in Nat /\ Len(trades') \in Nat /\ Len(trades) <= Len(trades')
       /\ Range(trades') = Range(trades) \cup Range(Told(o))
       /\ Range(outbox') = Range(outbox) \cup Range(Told(o))
  <2>1. /\ trades' \in Seq(Trade) /\ Len(trades) \in Nat /\ Len(Told(o)) \in Nat
        /\ Len(trades') = Len(trades) + Len(Told(o))
        /\ Range(trades') = Range(trades) \cup Range(Told(o))
    BY <1>1, <1>11, ConcatIs
  <2>2. outbox' \in Seq(Trade) /\ Range(outbox') = Range(outbox) \cup Range(Told(o))
    BY <1>1, <1>11, ConcatIs
  <2> QED BY <2>1, <2>2
<1>13. BookTypes'
  BY <1>1, <1>3, <1>8, <1>9, <1>10, <1>11, <1>12 DEF BookInv, BookTypes
<1>14. DeliveryOK'
  <2>1. Range(outbox') \subseteq Range(trades') /\ recorded' \subseteq Range(trades')
    BY <1>1, <1>12 DEF BookInv, DeliveryOK
  <2>2. streamed' \in 0..Len(trades')
    BY <1>1, <1>12 DEF BookInv, DeliveryOK
  <2> QED BY <1>11, <1>12, <2>1, <2>2 DEF DeliveryOK, Range
<1>15. CallsOK'
  <2>1. ASSUME NEW x \in Order, call'[x] \in {"placing", "fallback", "cancelled", "failed"}
        PROVE  x # o /\ call[x] = call'[x] /\ x \notin DOMAIN index /\ x \notin DOMAIN index'
    <3>1. x # o /\ call[x] = call'[x]
      BY <1>9, <2>1
    <3>2. x \notin DOMAIN index
      BY <2>1, <3>1 DEF BookInv, CallsOK
    <3> QED BY <1>1, <1>4, <3>1, <3>2
  <2>2. ASSUME NEW x \in Order, call'[x] = "placing"
        PROVE  answer'[x] = NoAnswer /\ \A i \in DOMAIN trades' : x \notin {trades'[i].taker, trades'[i].maker}
    <3>1. x # o /\ call[x] = "placing" /\ x \notin DOMAIN index
      BY <2>1, <2>2
    <3>2. answer[x] = NoAnswer /\ Untouched(x) /\ answer'[x] = answer[x]
      BY <1>8, <3>1 DEF BookInv, CallsOK
    <3>3. \A j \in DOMAIN Told(o) : x \notin {Told(o)[j].taker, Told(o)[j].maker}
      BY <1>2, <3>1, ToldAllowed
    <3>4. \A i \in DOMAIN trades' : \/ i \in DOMAIN trades /\ trades'[i] = trades[i]
                                    \/ \E j \in DOMAIN Told(o) : trades'[i] = Told(o)[j]
      BY <1>1, <1>11, ConcatIs
    <3>5. \A i \in DOMAIN trades' : x \notin {trades'[i].taker, trades'[i].maker}
      BY <3>2, <3>3, <3>4 DEF Untouched
    <3> QED BY <3>2, <3>5
  <2>3. up'
    BY <1>1
  <2> QED BY <1>3, <2>1, <2>2, <2>3 DEF CallsOK, NoAnswer, Untouched
<1> QED BY <1>5, <1>6, <1>7, <1>8, <1>10, <1>13, <1>14, <1>15 DEF BookInv

-----------------------------------------------------------------------------
(* Order book: the theorems. *)

LEMMA BookStep == BookInv /\ [BookNext]_bookVars => BookInv'
<1> SUFFICES ASSUME BookInv, [BookNext]_bookVars PROVE BookInv'
  OBVIOUS
<1>1. ASSUME NEW t \in Terms, Place(t) PROVE BookInv'
  BY <1>1, PlaceKeeps
<1>2. ASSUME NEW o \in Order, Cancel(o) PROVE BookInv'
  BY <1>2, CancelKeeps
<1>3. ASSUME NEW o \in Order, Fallback(o) PROVE BookInv'
  BY <1>3, FallbackKeeps
<1>4. CASE Submit
  BY <1>4, SubmitKeeps
<1>5. CASE Panic
  BY <1>5, PanicKeeps
<1>6. CASE TakeOut
  BY <1>6, TakeOutKeeps
<1>7. CASE Stream
  BY <1>7, StreamKeeps
<1>8. ASSUME NEW ok \in BOOLEAN, SaveTrade(ok) PROVE BookInv'
  BY <1>8, SaveTradeKeeps
<1>9. CASE UNCHANGED bookVars
  <2>1. UNCHANGED <<book, index, up, queue, terms, call, answer, trades, outbox, streamed, recorded>>
    BY <1>9 DEF bookVars, engine, delivery
  <2>2. Grows /\ terms' \in Seq(Terms) /\ Order' = Order
    BY <2>1, GrowsNot
  <2>3. BookRight' /\ Uncrossed' /\ WithinLimits' /\ trades' \in Seq(Trade)'
    BY <2>1, <2>2, BookKept
  <2>4. AnswersTrue'
    BY <2>1, <2>2, AnswersKept
  <2>5. BookTypes' /\ QueueOK'
    BY <2>1, <2>2, <2>3 DEF BookInv, BookTypes, QueueOK
  <2>6. DeliveryOK'
    BY <2>1, <2>2 DEF BookInv, DeliveryOK, Range, Trade, Price
  <2>7. CallsOK'
    BY <2>1, <2>2 DEF BookInv, CallsOK, NoAnswer, Untouched
  <2> QED BY <2>3, <2>4, <2>5, <2>6, <2>7 DEF BookInv
<1> QED BY <1>1, <1>2, <1>3, <1>4, <1>5, <1>6, <1>7, <1>8, <1>9 DEF BookNext

\* Only Submit makes trades, and they are those it tells of.
LEMMA NewTrades ==
  ASSUME BookInv, [BookNext]_bookVars,
         NEW i \in (Len(trades) + 1)..Len(trades')
  PROVE  /\ Submit /\ Ready(Head(queue).id) /\ call[Head(queue).id] = "placing"
         /\ trades' = trades \o Told(Head(queue).id)
         /\ \E j \in DOMAIN Told(Head(queue).id) : trades'[i] = Told(Head(queue).id)[j]
<1> DEFINE o == Head(queue).id
<1>1. Len(trades) \in Nat
  BY LenProperties DEF BookInv, BookTypes
<1>2. trades' # trades
  <2> SUFFICES ASSUME trades' = trades PROVE FALSE
    OBVIOUS
  <2>1. Len(trades') \in Nat /\ Len(trades') = Len(trades)
    BY <1>1
  <2> QED BY <1>1, <2>1
<1>3. Submit
  BY <1>2 DEF BookNext, Place, Cancel, Fallback, Panic, TakeOut, Stream, SaveTrade, bookVars
<1>4. /\ queue # <<>> /\ Head(queue).kind = "submit" /\ trades' = trades \o Told(o)
  BY <1>3, SubmitIs
<1>5. Ready(o) /\ call[o] = "placing"
  BY <1>4, HeadReady
<1> HIDE DEF o
<1>6. trades \in Seq(Trade) /\ Told(o) \in Seq(Trade)
  BY <1>5, ToldIs
<1>7. /\ DOMAIN trades = 1..Len(trades) /\ trades' \in Seq(Trade)
      /\ \A k \in DOMAIN trades' : k \in DOMAIN trades \/ \E j \in DOMAIN Told(o) : trades'[k] = Told(o)[j]
  BY <1>4, <1>6, ConcatIs
<1>8. i \in DOMAIN trades' /\ i \notin DOMAIN trades
  <2>1. DOMAIN trades' = 1..Len(trades') /\ Len(trades') \in Nat
    BY <1>7, LenProperties
  <2> QED BY <1>1, <1>7, <2>1
<1> QED BY <1>3, <1>4, <1>5, <1>7, <1>8 DEF o

\* What waits at a price is in the index, with the terms it came with.
LEMMA WaitingIs ==
  ASSUME BookInv, NEW s \in Side, NEW p \in DOMAIN book[s], NEW x \in Waiting(s, p)
  PROVE  x \in DOMAIN index /\ terms[x].side = s /\ terms[x].price = p
<1>1. LevelOK(DOMAIN index, Sold(trades), book[s][p], s, p)
  BY DEF BookInv, BookRight, BookOK
<1>2. PICK i \in DOMAIN book[s][p] : x = book[s][p][i].id
  BY DEF Waiting, Range
<1> QED BY <1>1, <1>2 DEF LevelOK

LEMMA ServedStep ==
  ASSUME BookInv, [BookNext]_bookVars,
         NEW s \in Side, NEW p \in DOMAIN book[s], NEW q \in DOMAIN book[s],
         NEW x \in Waiting(s, p), NEW y \in Waiting(s, q),
         Before(s, p, q) \/ (p = q /\ x < y), Given(y)
  PROVE  Given(x) /\ x \notin DOMAIN index'
<1> DEFINE o == Head(queue).id
<1>1. PICK i \in (Len(trades) + 1)..Len(trades') : trades'[i].maker = y
  BY DEF Given
<1>2. /\ Submit /\ Ready(o) /\ trades' = trades \o Told(o)
      /\ \E j \in DOMAIN Told(o) : trades'[i] = Told(o)[j]
  BY <1>1, NewTrades
<1>3. index' = IndexWith(o)
  BY <1>2, SubmitIs
<1> HIDE DEF o
<1>4. PICK j \in DOMAIN Told(o) : Told(o)[j].maker = y
  BY <1>1, <1>2
<1>5. /\ x \in DOMAIN index /\ terms[x].side = s /\ terms[x].price = p
      /\ y \in DOMAIN index /\ terms[y].side = s /\ terms[y].price = q
  BY WaitingIs
<1>6. terms[x].side # terms[o].side /\ Precedes(x, y)
  BY <1>2, <1>4, <1>5, ToldAllowed DEF Precedes
<1>7. Told(o) = Walk(o).trades
  <2>1. DOMAIN <<>> = {}
    OBVIOUS
  <2> QED BY <1>2, <1>4, <2>1, ToldIs
<1>8. Made(Walk(o).trades, y)
  BY <1>4, <1>7 DEF Made
<1>9. x \notin DOMAIN Walk(o).index /\ Made(Walk(o).trades, x)
  BY <1>2, <1>5, <1>6, <1>8, WalkIs DEF WalkOK, WalkOrder
<1>10. x \notin DOMAIN index'
  <2>1. x # o
    BY <1>2, <1>5 DEF Ready
  <2> QED BY <1>3, <1>9, <2>1 DEF IndexWith
<1>11. Given(x)
  <2>1. PICK k \in DOMAIN Told(o) : Told(o)[k].maker = x
    BY <1>7, <1>9 DEF Made
  <2>2. trades \in Seq(Trade) /\ Told(o) \in Seq(Trade)
    BY <1>2, ToldIs
  <2> DEFINE new == trades \o Told(o)
  <2>3. trades' = new
    BY <1>2
  <2>4. /\ Len(new) = Len(trades) + Len(Told(o)) /\ DOMAIN Told(o) = 1..Len(Told(o))
        /\ Len(trades) \in Nat /\ Len(Told(o)) \in Nat
    BY <2>2, ConcatIs
  <2>5. new[k + Len(trades)] = Told(o)[k]
    BY <2>1, <2>2, ConcatIs
  <2> HIDE DEF new
  <2>6. /\ Len(trades') = Len(trades) + Len(Told(o)) /\ k \in 1..Len(Told(o))
        /\ trades'[k + Len(trades)] = Told(o)[k]
    BY <2>3, <2>1, <2>4, <2>5
  <2>7. k + Len(trades) \in (Len(trades) + 1)..Len(trades')
    BY <2>6, <2>4
  <2> QED BY <2>1, <2>6, <2>7 DEF Given
<1> QED BY <1>10, <1>11

LEMMA CancelledStep ==
  ASSUME BookInv, [BookNext]_bookVars, NEW o \in Order, call[o] = "cancelled",
         NEW i \in (Len(trades) + 1)..Len(trades')
  PROVE  o \notin {trades'[i].maker, trades'[i].taker}
<1> DEFINE h == Head(queue).id
<1>1. Ready(h) /\ call[h] = "placing" /\ \E j \in DOMAIN Told(h) : trades'[i] = Told(h)[j]
  BY NewTrades
<1> HIDE DEF h
<1>2. PICK j \in DOMAIN Told(h) : trades'[i] = Told(h)[j]
  BY <1>1
<1>3. trades'[i].taker = h /\ trades'[i].maker \in DOMAIN index
  BY <1>1, <1>2, ToldAllowed
<1>4. o # h /\ o \notin DOMAIN index
  BY <1>1 DEF BookInv, CallsOK
<1> QED BY <1>3, <1>4

LEMMA BookAlways == BookSpec => []BookInv
BY InitBook, BookStep, PTL DEF BookSpec

\* For any terms of any number of orders and any capacity of the channel: the
\* index and the two trees of the book tell of the same orders, what can trade
\* has traded, and no trade is outside what either order allows, in price or in
\* quantity, however place_order and cancel_order reach the engine
\* (matching/order_book.rs, matching/engine.rs).
THEOREM BookStaysSound == BookSpec => []BookSound
BY BookAlways, InvSound, PTL

\* What place_order answers is what happened, also for fill-or-kill
\* (submit_order and its MatchResult).
THEOREM AnswersStayTrue == BookSpec => []AnswersTrue
<1>1. BookInv => AnswersTrue
  BY DEF BookInv
<1> QED BY <1>1, BookAlways, PTL

\* Price-time priority: whoever gets a trade leaves nobody ahead of it behind
\* (match_against_book and insert_resting_order).
THEOREM ServedInOrder == BookSpec => PriceTime
<1>1. BookInv /\ [BookNext]_bookVars =>
        [\A s \in Side : \A p, q \in DOMAIN book[s] : \A x \in Waiting(s, p), y \in Waiting(s, q) :
           (Before(s, p, q) \/ (p = q /\ x < y)) /\ Given(y)
             => Given(x) /\ x \notin DOMAIN index']_bookVars
  BY ServedStep
<1> QED BY <1>1, BookAlways, PTL DEF BookSpec, PriceTime

\* An order that was called cancelled does not trade any more (cancel_order and
\* its fallback in routes/marketplace.rs).
THEOREM CancelledIsOver == BookSpec => CancelledStops
<1>1. BookInv /\ [BookNext]_bookVars =>
        [\A o \in Order : call[o] = "cancelled" =>
           \A i \in (Len(trades) + 1)..Len(trades') : o \notin {trades'[i].maker, trades'[i].taker}]_bookVars
  BY CancelledStep
<1> QED BY <1>1, BookAlways, PTL DEF BookSpec, CancelledStops
===============================================================================
