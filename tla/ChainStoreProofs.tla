--------------------------- MODULE ChainStoreProofs --------------------------
(***************************************************************************)
(* Theorems about ChainStore for every block tree, any number of tasks and *)
(* any number of crashes.                                                  *)
(***************************************************************************)
EXTENDS ChainStore, BlockTreeProofs

(* Facts about the tree. *)

\* store_block_raw completes the branch of a block whose parent is linked.
LEMMA LinkedChild ==
  ASSUME NEW b \in Block \ {Genesis}, NEW S, Linked(Parent[b], S)
  PROVE  Linked(b, S \cup {b})
BY BlockTreeAssumption DEF Linked

-----------------------------------------------------------------------------
(* Type correctness. *)

LEMMA TypeInit == Init => TypeOK
BY BlockTreeAssumption, ChainStoreAssumption
   DEF Init, TypeOK, NoMeta, IdleReg, Heights, StoreSteps, SwitchSteps

LEMMA TypeStep == TypeOK /\ [Next]_vars => TypeOK'
<1> SUFFICES ASSUME TypeOK, [Next]_vars PROVE TypeOK'
  OBVIOUS
<1> USE BlockTreeAssumption, ChainStoreAssumption
    DEF TypeOK, Heights, StoreSteps, SwitchSteps, IdleReg
<1>1. CASE Boot
  <2>1. CASE OpenExisting  BY <2>1 DEF OpenExisting, LoadTip
  <2>2. CASE OpenFresh     BY <2>2 DEF OpenFresh
  <2>3. CASE StoreGenesis  BY <2>3 DEF StoreGenesis
  <2>4. CASE IndexGenesis  BY <2>4 DEF IndexGenesis, LoadTip
  <2> QED BY <1>1, <2>1, <2>2, <2>3, <2>4 DEF Boot
<1>2. CASE Crash
  BY <1>2 DEF Crash, disk
<1>3. ASSUME NEW w \in Writer, StoreStep(w) PROVE TypeOK'
  <2> USE DEF Goto, Return, disk
  <2>1. CASE ReadTipHeight(w)  BY <2>1 DEF ReadTipHeight
  <2>2. CASE CheckExtends(w)
    <3>1. CASE pc' = [pc EXCEPT ![w] = "setHeight"] /\ UNCHANGED reg
      BY <2>2, <3>1 DEF CheckExtends
    <3>2. CASE Return(w)
      BY <2>2, <3>2 DEF CheckExtends
    <3> QED BY <2>2, <3>1, <3>2 DEF CheckExtends
  <2>3. CASE SetHeight(w)      BY <2>3 DEF SetHeight
  <2>4. CASE SetHash(w)        BY <2>4 DEF SetHash
  <2>5. CASE ReadWork(w)       BY <2>5 DEF ReadWork
  <2>6. CASE CommitTip(w)
    <3>1. reg[w].blk \in Block /\ reg[w].cum + Work[reg[w].blk] \in Nat
      BY <2>6 DEF CommitTip
    <3>2. meta' \in [init : BOOLEAN, height : Nat, hash : Block, work : Nat]
      BY <2>6, <3>1 DEF CommitTip
    <3> QED BY <2>6, <3>2 DEF CommitTip
  <2>7. CASE IndexTip(w)       BY <2>7 DEF IndexTip
  <2> QED BY <1>3, <2>1, <2>2, <2>3, <2>4, <2>5, <2>6, <2>7 DEF StoreStep
<1>4. ASSUME NEW w \in Writer, SwitchStep(w) PROVE TypeOK'
  <2> USE DEF Goto, Return, disk
  <2>1. CASE SwitchHash(w)     BY <2>1 DEF SwitchHash
  <2>2. CASE CommitSwitch(w)
    <3>1. reg[w].blk \in Block
      BY <2>2 DEF CommitSwitch
    <3>2. meta' \in [init : BOOLEAN, height : Nat, hash : Block, work : Nat]
      BY <2>2, <3>1 DEF CommitSwitch
    <3> QED BY SMTT(30), <2>2, <3>1, <3>2 DEF CommitSwitch
  <2>3. CASE Reindex(w)
    <3>1. reg[w].cursor \in Block /\ Height[reg[w].cursor] \in Heights
      BY <2>3 DEF Reindex
    <3>2. index' \in [Heights -> Block \cup {NoBlock}]
      BY <2>3, <3>1 DEF Reindex
    <3>3. CASE Return(w)
      BY <2>3, <3>2, <3>3 DEF Reindex
    <3>4. CASE reg' = [reg EXCEPT ![w].cursor = Parent[reg[w].cursor]] /\ UNCHANGED pc
      BY SMTT(30), <2>3, <3>1, <3>2, <3>4 DEF Reindex
    <3> QED BY <2>3, <3>3, <3>4 DEF Reindex
  <2> QED BY <1>4, <2>1, <2>2, <2>3 DEF SwitchStep
<1>5. ASSUME NEW w \in Writer, NEW b \in Block, Call(w, b) PROVE TypeOK'
  <2> USE DEF Goto, disk
  <2>1. CASE StoreRaw(w, b)     BY <2>1 DEF StoreRaw
  <2>2. CASE SwitchHeight(w, b) BY <2>2 DEF SwitchHeight
  <2> QED BY <1>5, <2>1, <2>2 DEF Call
<1>6. CASE UNCHANGED vars
  BY <1>6 DEF vars
<1> QED BY <1>1, <1>2, <1>3, <1>4, <1>5, <1>6 DEF Next

\* The variables keep their types: in particular every height written to the
\* index is one a block has, and a call in progress always has its block.
THEOREM TypeCorrect == Spec => []TypeOK
BY TypeInit, TypeStep, PTL DEF Spec

-----------------------------------------------------------------------------
(* Any number of tasks: the durable tip is linked. *)

\* What makes DurableTipLinked inductive: a call only ever handles a block whose
\* branch is on disk already, from its first commit on.
CallLinked ==
  \A w \in Writer : pc[w] # "idle" =>
    reg[w].blk # Genesis /\ Linked(reg[w].blk, stored)

DurableInv == TypeOK /\ CallLinked /\ DurableTipLinked

LEMMA DurableInit == Init => DurableInv
BY TypeInit DEF Init, DurableInv, CallLinked, DurableTipLinked, NoMeta

LEMMA DurableStep == DurableInv /\ [Next]_vars => DurableInv'
<1> SUFFICES ASSUME DurableInv, [Next]_vars PROVE DurableInv'
  OBVIOUS
<1> USE BlockTreeAssumption DEF DurableInv
<1>1. TypeOK'
  BY TypeStep
<1>2. stored \subseteq stored' /\ stored' \subseteq Block
  BY <1>1 DEF Next, vars, disk, Boot, OpenExisting, OpenFresh, StoreGenesis, IndexGenesis,
     Crash, StoreStep, SwitchStep, Call, ReadTipHeight, CheckExtends, SetHeight,
     SetHash, ReadWork, CommitTip, IndexTip, SwitchHash, CommitSwitch, Reindex,
     StoreRaw, SwitchHeight, TypeOK
<1>3. ASSUME NEW b \in Block, Linked(b, stored)
      PROVE  Linked(b, stored') /\ Linked(b, stored' \cup {Genesis})
  BY <1>2, <1>3 DEF Linked
<1>4. ASSUME NEW b \in Block, Linked(b, stored \cup {Genesis})
      PROVE  Linked(b, stored' \cup {Genesis})
  BY <1>2, <1>4 DEF Linked
<1>5. ASSUME UNCHANGED <<pc, reg>> PROVE CallLinked'
  BY <1>3, <1>5 DEF CallLinked, TypeOK
<1>6. ASSUME UNCHANGED meta PROVE DurableTipLinked'
  BY <1>4, <1>6 DEF DurableTipLinked, TypeOK
<1>7. ASSUME NEW w \in Writer,
             \A v \in Writer \ {w} : pc'[v] = pc[v] /\ reg'[v] = reg[v],
             \/ pc'[w] = "idle"
             \/ pc[w] # "idle" /\ reg'[w].blk = reg[w].blk
      PROVE  CallLinked'
  BY <1>3, <1>7 DEF CallLinked, TypeOK
<1>8. CASE Boot
  <2>1. UNCHANGED <<pc, reg>>
    BY <1>8 DEF Boot, OpenExisting, OpenFresh, StoreGenesis, IndexGenesis
  <2>2. CASE UNCHANGED meta
    BY <1>1, <1>5, <1>6, <2>1, <2>2
  <2>3. CASE OpenFresh
    <3>1. DurableTipLinked'
      BY <2>3 DEF OpenFresh, DurableTipLinked, Linked
    <3> QED BY <1>1, <1>5, <2>1, <3>1
  <2> QED BY <1>8, <2>2, <2>3 DEF Boot, OpenExisting, StoreGenesis, IndexGenesis
<1>9. CASE Crash
  <2>1. CallLinked'
    BY <1>9 DEF Crash, CallLinked
  <2> QED BY <1>1, <1>6, <1>9, <2>1 DEF Crash, disk
<1>10. ASSUME NEW w \in Writer, StoreStep(w) PROVE DurableInv'
  <2>1. CallLinked'
    <3>1. /\ \A v \in Writer \ {w} : pc'[v] = pc[v] /\ reg'[v] = reg[v]
          /\ pc'[w] = "idle" \/ (pc[w] # "idle" /\ reg'[w].blk = reg[w].blk)
      BY <1>10 DEF StoreStep, ReadTipHeight, CheckExtends, SetHeight, SetHash,
         ReadWork, CommitTip, IndexTip, Goto, Return, TypeOK
    <3> QED BY <1>7, <3>1
  <2>2. CASE CommitTip(w)
    <3>1. pc[w] = "commitTip" /\ reg[w].blk \in Block /\ Linked(reg[w].blk, stored)
      BY <2>2 DEF CommitTip, CallLinked, TypeOK
    <3>2. meta'.height = Height[reg[w].blk] /\ meta'.hash = reg[w].blk
      BY <2>2 DEF CommitTip, TypeOK
    <3> QED BY <1>1, <1>3, <2>1, <3>1, <3>2 DEF DurableTipLinked
  <2>3. CASE UNCHANGED meta
    BY <1>1, <1>6, <2>1, <2>3
  <2> QED BY <1>10, <2>2, <2>3 DEF StoreStep, ReadTipHeight, CheckExtends,
             SetHeight, SetHash, ReadWork, IndexTip, disk
<1>11. ASSUME NEW w \in Writer, SwitchStep(w) PROVE DurableInv'
  <2>1. CallLinked'
    <3>1. /\ \A v \in Writer \ {w} : pc'[v] = pc[v] /\ reg'[v] = reg[v]
          /\ pc'[w] = "idle" \/ (pc[w] # "idle" /\ reg'[w].blk = reg[w].blk)
      BY <1>11 DEF SwitchStep, SwitchHash, CommitSwitch, Reindex, Goto, Return, TypeOK
    <3> QED BY <1>7, <3>1
  <2>2. CASE CommitSwitch(w)
    <3>1. pc[w] = "commitSwitch" /\ reg[w].blk \in Block /\ Linked(reg[w].blk, stored)
      BY <2>2 DEF CommitSwitch, CallLinked, TypeOK
    <3>2. meta'.height = Height[reg[w].blk] /\ meta'.hash = reg[w].blk
      BY <2>2 DEF CommitSwitch, TypeOK
    <3> QED BY <1>1, <1>3, <2>1, <3>1, <3>2 DEF DurableTipLinked
  <2>3. CASE UNCHANGED meta
    BY <1>1, <1>6, <2>1, <2>3
  <2> QED BY <1>11, <2>2, <2>3 DEF SwitchStep, SwitchHash, Reindex, disk
<1>12. ASSUME NEW w \in Writer, NEW b \in Block, Call(w, b) PROVE DurableInv'
  <2>1. /\ b # Genesis /\ Linked(b, stored')
        /\ UNCHANGED meta
        /\ reg'[w].blk = b
        /\ \A v \in Writer \ {w} : pc'[v] = pc[v] /\ reg'[v] = reg[v]
    <3>1. CASE StoreRaw(w, b)
      BY <3>1, LinkedChild DEF StoreRaw, Goto, IdleReg, TypeOK
    <3>2. CASE SwitchHeight(w, b)
      BY <3>2 DEF SwitchHeight, Goto, IdleReg, disk, TypeOK
    <3> QED BY <1>12, <3>1, <3>2 DEF Call
  <2>2. CallLinked'
    BY <1>3, <2>1 DEF CallLinked, TypeOK
  <2> QED BY <1>1, <1>6, <2>1, <2>2
<1>13. CASE UNCHANGED vars
  BY <1>1, <1>5, <1>6, <1>13 DEF vars
<1> QED BY <1>8, <1>9, <1>10, <1>11, <1>12, <1>13 DEF Next

\* However many tasks call store_block and update_best_chain at once, and
\* wherever the process dies, the tip read back from the metadata has its own
\* height and its whole branch on disk.
THEOREM DurableTipIsLinked == Spec => []DurableTipLinked
<1>1. DurableInv => DurableTipLinked
  BY DEF DurableInv
<1> QED BY <1>1, DurableInit, DurableStep, PTL DEF Spec

-----------------------------------------------------------------------------
(* One task at a time: cum_work and the cached tip follow the durable tip. *)

Tip == [height |-> meta.height, hash |-> meta.hash]
TipOf(b) == [height |-> Height[b], hash |-> b]

\* What holds at each step of the one call in progress.
CallInv ==
  /\ phase # "down" => meta.init
  /\ ~meta.init => meta.hash = Genesis
  /\ phase # "up" => \A w \in Writer : pc[w] = "idle"
  /\ phase = "up" /\ (\A w \in Writer :
         pc[w] \in {"idle", "readTip", "checkParent", "indexTip", "reindex"}) => best = Tip
  /\ \A w \in Writer :
       /\ pc[w] \in {"setHeight", "setHash", "readWork", "commitTip"} =>
            Parent[reg[w].blk] = meta.hash
       /\ pc[w] \in {"setHash", "switchHash"} => best.height = Height[reg[w].blk]
       /\ pc[w] \in {"readWork", "commitTip", "commitSwitch"} => best = TipOf(reg[w].blk)
       /\ pc[w] = "commitTip" => reg[w].cum = meta.work

SerialInv == DurableInv /\ CallInv /\ WorkMatchesTip

LEMMA SerialInit == Init => SerialInv
BY DurableInit DEF Init, SerialInv, CallInv, WorkMatchesTip, NoMeta

LEMMA SerialStep ==
  ASSUME SingleWriter, SerialInv, [Next]_vars
  PROVE  SerialInv'
<1> USE BlockTreeAssumption DEF SerialInv
<1>1. DurableInv'
  BY DurableStep
<1>2. TypeOK
  BY DEF DurableInv
<1>3. CASE Boot
  <2> USE DEF CallInv, WorkMatchesTip, Tip
  <2>1. CASE OpenExisting
    <3>1. /\ UNCHANGED <<meta, pc, reg>> /\ meta.init /\ best' = Tip'
          /\ \A w \in Writer : pc[w] = "idle"
      BY <2>1 DEF OpenExisting, LoadTip
    <3> QED BY <1>1, <3>1
  <2>2. CASE OpenFresh
    <3>1. /\ UNCHANGED <<pc, reg>> /\ phase' = "genesisBlock" /\ meta'.init
          /\ meta'.work = PathWork[meta'.hash]
          /\ \A w \in Writer : pc[w] = "idle"
      BY <2>2 DEF OpenFresh
    <3> QED BY <1>1, <3>1
  <2>3. CASE StoreGenesis  BY <1>1, <2>3 DEF StoreGenesis
  <2>4. CASE IndexGenesis
    <3>1. /\ UNCHANGED <<meta, pc, reg>> /\ best' = Tip'
          /\ meta.init /\ \A w \in Writer : pc[w] = "idle"
      BY <2>4 DEF IndexGenesis, LoadTip
    <3> QED BY <1>1, <3>1
  <2> QED BY <1>3, <2>1, <2>2, <2>3, <2>4 DEF Boot
<1>4. CASE Crash
  BY <1>1, <1>4 DEF Crash, disk, CallInv, WorkMatchesTip
<1>5. ASSUME NEW w \in Writer, StoreStep(w) PROVE SerialInv'
  <2>1. \A v \in Writer : v = w
    BY DEF SingleWriter
  <2> USE DEF CallInv, Goto, Return, disk, Tip, TipOf
  <2>2. CASE ReadTipHeight(w)
    BY <1>1, <1>2, <2>1, <2>2 DEF ReadTipHeight, WorkMatchesTip, TypeOK
  <2>3. CASE CheckExtends(w)
    <3>1. UNCHANGED <<stored, meta, best, phase>> /\ phase = "up" /\ best = Tip
      BY <1>2, <2>1, <2>3 DEF CheckExtends
    <3>2. CASE pc'[w] = "idle"
      BY <1>1, <2>1, <3>1, <3>2 DEF WorkMatchesTip
    <3>3. CASE pc'[w] = "setHeight" /\ reg' = reg /\ Parent[reg[w].blk] = best.hash
      BY <1>1, <1>2, <2>1, <3>1, <3>3 DEF WorkMatchesTip, TypeOK
    <3> QED BY <1>2, <2>3, <3>2, <3>3 DEF CheckExtends, TypeOK
  <2>4. CASE SetHeight(w)
    BY <1>1, <1>2, <2>1, <2>4 DEF SetHeight, WorkMatchesTip, TypeOK
  <2>5. CASE SetHash(w)
    BY <1>1, <1>2, <2>1, <2>5 DEF SetHash, WorkMatchesTip, TypeOK
  <2>6. CASE ReadWork(w)
    BY <1>1, <1>2, <2>1, <2>6 DEF ReadWork, WorkMatchesTip, TypeOK
  <2>7. CASE CommitTip(w)
    <3>1. /\ reg[w].blk \in Block \ {Genesis}
          /\ Parent[reg[w].blk] = meta.hash
          /\ reg[w].cum = meta.work
          /\ best = TipOf(reg[w].blk)
      BY <1>2, <2>7 DEF CommitTip, DurableInv, CallLinked, TypeOK
    <3>2. meta' = [meta EXCEPT !.height = Height[reg[w].blk], !.hash = reg[w].blk,
                               !.work = meta.work + Work[reg[w].blk]]
      BY <2>7, <3>1 DEF CommitTip
    <3>3. WorkMatchesTip'
      BY <1>2, <3>1, <3>2 DEF WorkMatchesTip, TypeOK
    <3>4. meta'.init = meta.init /\ Tip' = TipOf(reg[w].blk)
      BY <1>2, <3>2 DEF TypeOK
    <3>5. CallInv'
      BY <1>2, <2>1, <2>7, <3>1, <3>4 DEF CommitTip, TypeOK
    <3> QED BY <1>1, <3>3, <3>5
  <2>8. CASE IndexTip(w)
    BY <1>1, <1>2, <2>1, <2>8 DEF IndexTip, WorkMatchesTip, TypeOK
  <2> QED BY <1>5, <2>2, <2>3, <2>4, <2>5, <2>6, <2>7, <2>8 DEF StoreStep
<1>6. ASSUME NEW w \in Writer, SwitchStep(w) PROVE SerialInv'
  <2>1. \A v \in Writer : v = w
    BY DEF SingleWriter
  <2> USE DEF CallInv, Goto, Return, disk, Tip, TipOf
  <2>2. CASE SwitchHash(w)
    BY <1>1, <1>2, <2>1, <2>2 DEF SwitchHash, WorkMatchesTip, TypeOK
  <2>3. CASE CommitSwitch(w)
    <3>1. reg[w].blk \in Block /\ best = TipOf(reg[w].blk)
      BY <1>2, <2>3 DEF CommitSwitch, TypeOK
    <3>2. meta' = [meta EXCEPT !.height = Height[reg[w].blk], !.hash = reg[w].blk,
                               !.work = PathWork[reg[w].blk]]
      BY <2>3 DEF CommitSwitch
    <3>3. WorkMatchesTip' /\ meta'.init = meta.init /\ Tip' = TipOf(reg[w].blk)
      BY <1>2, <3>1, <3>2 DEF WorkMatchesTip, TypeOK
    <3>4. CallInv'
      BY <1>2, <2>1, <2>3, <3>1, <3>3 DEF CommitSwitch, TypeOK
    <3> QED BY <1>1, <3>3, <3>4
  <2>4. CASE Reindex(w)
    <3>1. UNCHANGED <<meta, best, phase>>
      BY <2>4 DEF Reindex
    <3>2. pc[w] = "reindex" /\ pc'[w] \in {"idle", "reindex"}
      BY <1>2, <2>4 DEF Reindex, TypeOK
    <3> QED BY <1>1, <2>1, <3>1, <3>2 DEF WorkMatchesTip
  <2> QED BY <1>6, <2>2, <2>3, <2>4 DEF SwitchStep
<1>7. ASSUME NEW w \in Writer, NEW b \in Block, Call(w, b) PROVE SerialInv'
  <2>1. \A v \in Writer : v = w
    BY DEF SingleWriter
  <2> USE DEF CallInv, Goto, disk, Tip, TipOf
  <2>2. CASE StoreRaw(w, b)
    BY <1>1, <1>2, <2>1, <2>2 DEF StoreRaw, WorkMatchesTip, IdleReg, TypeOK
  <2>3. CASE SwitchHeight(w, b)
    BY <1>1, <1>2, <2>1, <2>3 DEF SwitchHeight, WorkMatchesTip, IdleReg, TypeOK
  <2> QED BY <1>7, <2>2, <2>3 DEF Call
<1>8. CASE UNCHANGED vars
  BY <1>1, <1>8 DEF vars, CallInv, WorkMatchesTip, Tip, TipOf
<1> QED BY <1>3, <1>4, <1>5, <1>6, <1>7, <1>8 DEF Next

LEMMA SerialAlways == SingleWriter /\ Spec => []SerialInv
<1>1. SingleWriter /\ SerialInv /\ [Next]_vars => SerialInv'
  BY SerialStep
<1>2. SingleWriter => [](SingleWriter)
  <2>1. SingleWriter => SingleWriter'
    BY DEF SingleWriter
  <2> QED BY <2>1, PTL
<1> QED BY <1>1, <1>2, SerialInit, PTL DEF Spec

\* With one task at a time, the cum_work that store_block accumulates and that
\* update_best_chain recomputes is the work of the branch below the durable
\* tip, through every crash.
THEOREM WorkFollowsTip == SingleWriter /\ Spec => []WorkMatchesTip
<1>1. SerialInv => WorkMatchesTip
  BY DEF SerialInv
<1> QED BY <1>1, SerialAlways, PTL

\* With one task at a time, between calls the two locks hold the durable tip.
THEOREM CacheFollowsDisk == SingleWriter /\ Spec => []CacheMatchesDisk
<1>1. SerialInv => CacheMatchesDisk
  BY DEF SerialInv, CallInv, CacheMatchesDisk, Quiet, Tip
<1> QED BY <1>1, SerialAlways, PTL

-----------------------------------------------------------------------------
(* One task at a time, no crash: the height index follows the durable tip. *)

\* The height index has block a where it belongs.
Indexes(a) == index[Height[a]] = a

\* A first start has nothing to find; then the index is that of the tip, but for
\* what store_block and the walk of update_best_chain have still to write.
IndexInv ==
  crashes = 0 =>
    /\ phase = "down" => ~meta.init
    /\ phase \in {"genesisBlock", "genesisIndex"} => meta.hash = Genesis
    /\ phase = "up" /\ (\A w \in Writer : pc[w] \notin {"indexTip", "reindex"}) =>
         \A a \in Path[meta.hash] : Indexes(a)
    /\ \A w \in Writer : pc[w] = "indexTip" =>
         /\ reg[w].blk = meta.hash
         /\ \A a \in Path[meta.hash] : a # meta.hash => Indexes(a)
    /\ \A w \in Writer : pc[w] = "reindex" =>
         /\ reg[w].cursor \in Path[meta.hash]
         /\ \A a \in Path[meta.hash] : Height[a] > Height[reg[w].cursor] => Indexes(a)

LEMMA IndexInit == Init => IndexInv
BY DEF Init, IndexInv, NoMeta

\* One entry is written, that of a block of the tip's branch: the others of the
\* branch are at other heights.
LEMMA IndexEntry ==
  ASSUME TypeOK, NEW c \in Path[meta.hash], index' = [index EXCEPT ![Height[c]] = c]
  PROVE  /\ index'[Height[c]] = c
         /\ \A a \in Path[meta.hash] : Indexes(a) \/ a = c => index'[Height[a]] = a
<1>1. meta.hash \in Block /\ Path[meta.hash] \subseteq Block
  BY PathEnds DEF TypeOK
<1>2. \A a \in Block : Height[a] \in Heights
  BY BlockTreeAssumption DEF Heights
<1>3. ASSUME NEW a \in Path[meta.hash], Height[a] = Height[c] PROVE a = c
  <2>1. Height[c] \in 0..Height[meta.hash]
    BY <1>1, PathBelow, BlockTreeAssumption DEF Below
  <2> QED BY <1>1, <1>3, <2>1, BlockAtHeight
<1> QED BY <1>1, <1>2, <1>3 DEF TypeOK, Indexes

LEMMA IndexStep ==
  ASSUME SingleWriter, SerialInv, IndexInv, [Next]_vars
  PROVE  IndexInv'
<1>1. TypeOK /\ CallInv /\ meta.hash \in Block
  BY DEF SerialInv, DurableInv, TypeOK
<1> SUFFICES ASSUME crashes' = 0 PROVE IndexInv'
  BY DEF IndexInv
<1>2. crashes = 0
  <2>1. CASE Crash
    BY <1>1, <2>1 DEF Crash, TypeOK
  <2>2. CASE ~ Crash
    BY <2>2 DEF Next, Boot, OpenExisting, OpenFresh, StoreGenesis, IndexGenesis, StoreStep,
                ReadTipHeight, CheckExtends, SetHeight, SetHash, ReadWork, CommitTip, IndexTip,
                SwitchStep, SwitchHash, CommitSwitch, Reindex, Call, StoreRaw, SwitchHeight, vars
  <2> QED BY <2>1, <2>2
<1>3. CASE Boot
  <2>1. CASE OpenExisting
    BY <1>2, <2>1 DEF OpenExisting, IndexInv
  <2>2. CASE OpenFresh
    <3>1. \A w \in Writer : pc'[w] = "idle"
      BY <1>1, <2>2 DEF OpenFresh, CallInv
    <3> QED BY <2>2, <3>1 DEF OpenFresh, IndexInv
  <2>3. CASE StoreGenesis
    <3>1. \A w \in Writer : pc'[w] = "idle"
      BY <1>1, <2>3 DEF StoreGenesis, CallInv
    <3> QED BY <1>2, <2>3, <3>1 DEF StoreGenesis, IndexInv
  <2>4. CASE IndexGenesis
    <3>1. phase' = "up" /\ meta' = meta /\ meta.hash = Genesis /\ \A w \in Writer : pc'[w] = "idle"
      BY <1>1, <1>2, <2>4 DEF IndexGenesis, LoadTip, IndexInv, CallInv
    <3>2. index'[0] = Genesis
      BY <1>1, <2>4, BlockTreeAssumption DEF IndexGenesis, TypeOK, Heights
    <3> QED BY <3>1, <3>2, BlockTreeAssumption DEF IndexInv, Indexes
  <2> QED BY <1>3, <2>1, <2>2, <2>3, <2>4 DEF Boot
<1>4. CASE Crash
  BY <1>1, <1>2, <1>4 DEF Crash, TypeOK
<1>5. ASSUME NEW w \in Writer, StoreStep(w) PROVE IndexInv'
  <2>1. \A v \in Writer : v = w
    BY DEF SingleWriter
  <2>2. CASE ReadTipHeight(w) \/ CheckExtends(w) \/ SetHeight(w) \/ SetHash(w) \/ ReadWork(w)
    <3>1. /\ meta' = meta /\ index' = index /\ phase' = phase
          /\ pc[w] \notin {"indexTip", "reindex"} /\ pc'[w] \notin {"indexTip", "reindex"}
      BY <1>1, <2>2 DEF ReadTipHeight, CheckExtends, SetHeight, SetHash, ReadWork, Goto, Return,
                        disk, TypeOK
    <3> QED BY <1>2, <2>1, <3>1 DEF IndexInv, Indexes
  <2>3. CASE CommitTip(w)
    <3>1. /\ reg[w].blk \in Block \ {Genesis} /\ Parent[reg[w].blk] = meta.hash
          /\ phase = "up"
      BY <1>1, <2>3 DEF CommitTip, SerialInv, DurableInv, CallLinked, CallInv, TypeOK
    <3>2. /\ meta'.hash = reg[w].blk /\ meta'.init = meta.init /\ index' = index
          /\ phase' = phase /\ reg' = reg /\ pc'[w] = "indexTip"
      BY <1>1, <2>3 DEF CommitTip, Goto, TypeOK
    <3>3. \A a \in Path[meta.hash] : Indexes(a)
      BY <1>2, <2>1, <2>3, <3>1 DEF CommitTip, IndexInv
    <3>4. Path[reg[w].blk] = Path[meta.hash] \cup {reg[w].blk}
      BY <3>1, BlockTreeAssumption
    <3> QED BY <2>1, <3>1, <3>2, <3>3, <3>4 DEF IndexInv, Indexes
  <2>4. CASE IndexTip(w)
    <3>1. /\ reg[w].blk = meta.hash /\ phase = "up"
          /\ \A a \in Path[meta.hash] : a # meta.hash => Indexes(a)
      BY <1>1, <1>2, <2>4 DEF IndexTip, IndexInv, CallInv
    <3>2. /\ index' = [index EXCEPT ![Height[meta.hash]] = meta.hash]
          /\ meta' = meta /\ phase' = phase /\ pc'[w] = "idle"
      BY <1>1, <2>4, <3>1 DEF IndexTip, Return, Goto, TypeOK
    <3>3. meta.hash \in Path[meta.hash]
      BY <1>1, PathEnds
    <3>4. \A a \in Path[meta.hash] : index'[Height[a]] = a
      BY <1>1, <3>1, <3>2, <3>3, IndexEntry
    <3> QED BY <2>1, <3>1, <3>2, <3>4 DEF IndexInv, Indexes
  <2> QED BY <1>5, <2>2, <2>3, <2>4 DEF StoreStep
<1>6. ASSUME NEW w \in Writer, SwitchStep(w) PROVE IndexInv'
  <2>1. \A v \in Writer : v = w
    BY DEF SingleWriter
  <2>2. CASE SwitchHash(w)
    <3>1. /\ meta' = meta /\ index' = index /\ phase' = phase
          /\ pc[w] \notin {"indexTip", "reindex"} /\ pc'[w] \notin {"indexTip", "reindex"}
      BY <1>1, <2>2 DEF SwitchHash, Goto, disk, TypeOK
    <3> QED BY <1>2, <2>1, <3>1 DEF IndexInv, Indexes
  <2>3. CASE CommitSwitch(w)
    <3>1. reg[w].blk \in Block /\ phase = "up"
      BY <1>1, <2>3 DEF CommitSwitch, TypeOK, CallInv
    <3>2. /\ meta'.hash = reg[w].blk /\ meta'.init = meta.init /\ index' = index
          /\ phase' = phase /\ reg'[w].cursor = reg[w].blk /\ pc'[w] = "reindex"
      BY <1>1, <2>3 DEF CommitSwitch, Goto, TypeOK
    <3>3. /\ reg[w].blk \in Path[reg[w].blk]
          /\ \A a \in Path[reg[w].blk] : ~ (Height[a] > Height[reg[w].blk])
      <4>1. \A a \in Path[reg[w].blk] : Height[a] <= Height[reg[w].blk] /\ Height[a] \in Nat
        BY <3>1, PathEnds, PathBelow, BlockTreeAssumption DEF Below
      <4> QED BY <3>1, <4>1, PathEnds, BlockTreeAssumption
    <3> QED BY <2>1, <3>1, <3>2, <3>3 DEF IndexInv
  <2>4. CASE Reindex(w)
    <3> DEFINE c == reg[w].cursor
    <3>1. /\ c \in Path[meta.hash] /\ phase = "up"
          /\ \A a \in Path[meta.hash] : Height[a] > Height[c] => Indexes(a)
      BY <1>1, <1>2, <2>4 DEF Reindex, IndexInv, CallInv
    <3>2. index' = [index EXCEPT ![Height[c]] = c] /\ meta' = meta /\ phase' = phase
      BY <2>4 DEF Reindex
    <3>3. /\ c \in Block /\ Height[c] \in Nat
          /\ \A a \in Path[meta.hash] : a \in Block /\ Height[a] \in Nat
      BY <1>1, <3>1, PathEnds, BlockTreeAssumption
    <3>4. \A a \in Path[meta.hash] : Height[a] = Height[c] => a = c
      BY <1>1, <3>1, <3>3, PathChain, PathBelow DEF Chained, Below
    <3>5. \A a \in Path[meta.hash] : Height[a] >= Height[c] => index'[Height[a]] = a
      <4>1. \A a \in Path[meta.hash] : Height[a] >= Height[c] => a = c \/ Indexes(a)
        BY <3>1, <3>3, <3>4
      <4> QED BY <1>1, <3>1, <3>2, <4>1, IndexEntry
    <3> HIDE DEF c
    <3>6. CASE c = Genesis
      <4>1. pc'[w] = "idle"
        BY <1>1, <2>4, <3>6 DEF Reindex, Return, Goto, TypeOK, c
      <4>2. \A a \in Path[meta.hash] : Height[a] >= Height[c]
        BY <3>3, <3>6, BlockTreeAssumption
      <4> QED BY <2>1, <3>1, <3>2, <3>5, <4>1, <4>2 DEF IndexInv, Indexes
    <3>7. CASE c # Genesis
      <4>1. reg'[w].cursor = Parent[c] /\ pc'[w] = "reindex"
        BY <1>1, <2>4, <3>7 DEF Reindex, TypeOK, c
      <4>2. /\ Height[c] = Height[Parent[c]] + 1 /\ Path[c] = Path[Parent[c]] \cup {c}
            /\ Parent[c] \in Block /\ Height[Parent[c]] \in Nat
        BY <3>3, <3>7, BlockTreeAssumption
      <4>3. Parent[c] \in Path[meta.hash]
        BY <1>1, <3>1, <4>2, PathEnds, PathBelow DEF Below
      <4>4. \A a \in Path[meta.hash] : Height[a] > Height[Parent[c]] => index'[Height[a]] = a
        BY <3>3, <3>5, <4>2
      <4> QED BY <2>1, <3>1, <3>2, <4>1, <4>3, <4>4 DEF IndexInv, Indexes
    <3> QED BY <3>6, <3>7
  <2> QED BY <1>6, <2>2, <2>3, <2>4 DEF SwitchStep
<1>7. ASSUME NEW w \in Writer, NEW b \in Block, Call(w, b) PROVE IndexInv'
  <2>1. \A v \in Writer : v = w
    BY DEF SingleWriter
  <2>2. /\ meta' = meta /\ index' = index /\ phase' = phase
        /\ pc[w] \notin {"indexTip", "reindex"} /\ pc'[w] \notin {"indexTip", "reindex"}
    BY <1>1, <1>7 DEF Call, StoreRaw, SwitchHeight, Goto, disk, TypeOK
  <2> QED BY <1>2, <2>1, <2>2 DEF IndexInv, Indexes
<1>8. CASE UNCHANGED vars
  BY <1>2, <1>8 DEF vars, IndexInv, Indexes
<1> QED BY <1>3, <1>4, <1>5, <1>6, <1>7, <1>8 DEF Next

\* With one task at a time and no crash, between calls the height index answers
\* with the blocks of the tip's branch: the walk that rebuilds it reaches the
\* genesis block whatever branch the node switches to, a shorter one too.
THEOREM IndexFollowsTip == SingleWriter /\ Spec => []IndexMatchesTip
<1>1. SingleWriter /\ SerialInv /\ IndexInv /\ [Next]_vars => IndexInv'
  BY IndexStep
<1>2. SingleWriter => [](SingleWriter)
  <2>1. SingleWriter => SingleWriter'
    BY DEF SingleWriter
  <2> QED BY <2>1, PTL
<1>3. IndexInv => IndexMatchesTip
  BY DEF IndexInv, IndexMatchesTip, Quiet, Indexes
<1> QED BY <1>1, <1>2, <1>3, IndexInit, SerialAlways, PTL DEF Spec

-----------------------------------------------------------------------------
(* One task at a time: the store implements CanonicalChain. *)

LEMMA RefineInit == Init => Canonical!Init
BY DEF Init, Canonical!Init, Asked, NoMeta

LEMMA RefineStep ==
  ASSUME SingleWriter, SerialInv, [Next]_vars
  PROVE  [Canonical!Next]_<<stored, meta.hash, Asked>>
<1> USE BlockTreeAssumption
<1>1. TypeOK /\ CallInv /\ CallLinked
  BY DEF SerialInv, DurableInv
<1>2. ASSUME UNCHANGED <<stored, meta, pc, reg>>
      PROVE  UNCHANGED <<stored, meta.hash, Asked>>
  BY <1>2 DEF Asked
<1>3. CASE Boot
  <2>1. UNCHANGED <<pc, reg>> /\ UNCHANGED Asked
    BY <1>3 DEF Boot, OpenExisting, OpenFresh, StoreGenesis, IndexGenesis, Asked
  <2>2. CASE OpenExisting \/ IndexGenesis
    BY <2>1, <2>2 DEF OpenExisting, IndexGenesis
  <2>3. CASE OpenFresh
    BY <1>1, <2>1, <2>3 DEF OpenFresh, CallInv
  <2>4. CASE StoreGenesis
    <3>1. Canonical!Learn(Genesis)
      BY <2>1, <2>4 DEF StoreGenesis, Canonical!Learn
    <3> QED BY <3>1 DEF Canonical!Next
  <2> QED BY <1>3, <2>2, <2>3, <2>4 DEF Boot
<1>4. CASE Crash
  <2>1. Asked' = {} /\ UNCHANGED <<stored, meta>>
    BY <1>4 DEF Crash, disk, Asked
  <2> QED BY <2>1 DEF Canonical!Next, Canonical!Forget
<1>5. ASSUME NEW w \in Writer, StoreStep(w)
      PROVE  [Canonical!Next]_<<stored, meta.hash, Asked>>
  <2>1. UNCHANGED stored /\ Asked = {} /\ Asked' = {}
    BY <1>1, <1>5 DEF SingleWriter, Asked, StoreStep, ReadTipHeight, CheckExtends,
       SetHeight, SetHash, ReadWork, CommitTip, IndexTip, Goto, Return, disk, TypeOK
  <2>2. CASE CommitTip(w)
    <3>1. /\ reg[w].blk \in Block \ {Genesis} /\ reg[w].blk \in stored
          /\ Parent[reg[w].blk] = meta.hash
      <4>1. pc[w] = "commitTip"
        BY <2>2 DEF CommitTip
      <4>2. reg[w].blk \in Block \ {Genesis} /\ Linked(reg[w].blk, stored)
        BY <1>1, <4>1 DEF CallLinked, TypeOK
      <4>3. reg[w].blk \in Path[reg[w].blk]
        BY <4>2
      <4> QED BY <1>1, <4>1, <4>2, <4>3 DEF CallInv, Linked
    <3>2. meta'.hash = reg[w].blk
      BY <1>1, <2>2 DEF CommitTip, TypeOK
    <3>3. Canonical!Extend(reg[w].blk)
      BY <2>1, <3>1, <3>2 DEF Canonical!Extend
    <3> QED BY <3>1, <3>3 DEF Canonical!Next
  <2>3. CASE UNCHANGED meta
    BY <2>1, <2>3
  <2> QED BY <1>5, <2>2, <2>3 DEF StoreStep, ReadTipHeight, CheckExtends,
             SetHeight, SetHash, ReadWork, IndexTip, disk
<1>6. ASSUME NEW w \in Writer, SwitchStep(w)
      PROVE  [Canonical!Next]_<<stored, meta.hash, Asked>>
  <2>1. Writer = {w}
    BY DEF SingleWriter
  <2>2. CASE SwitchHash(w)
    <3>1. Asked' = Asked /\ UNCHANGED <<stored, meta>>
      BY <1>1, <2>1, <2>2 DEF SwitchHash, Goto, disk, Asked, TypeOK
    <3> QED BY <3>1
  <2>3. CASE CommitSwitch(w)
    <3>1. pc[w] = "commitSwitch" /\ pc'[w] = "reindex" /\ reg[w].blk \in Block
      BY <1>1, <2>3 DEF CommitSwitch, Goto, TypeOK
    <3>2. Asked = {reg[w].blk} /\ Asked' = {}
      BY <2>1, <3>1 DEF Asked
    <3>3. meta'.hash = reg[w].blk /\ UNCHANGED stored
      BY <1>1, <2>3 DEF CommitSwitch, TypeOK
    <3>4. Canonical!Reorganize(reg[w].blk)
      BY <3>2, <3>3 DEF Canonical!Reorganize
    <3> QED BY <3>1, <3>4 DEF Canonical!Next
  <2>4. CASE Reindex(w)
    <3>1. pc[w] = "reindex" /\ pc'[w] \in {"idle", "reindex"} /\ UNCHANGED <<stored, meta>>
      BY <1>1, <2>4 DEF Reindex, Return, Goto, TypeOK
    <3>2. Asked = {} /\ Asked' = {}
      BY <2>1, <3>1 DEF Asked
    <3> QED BY <3>1, <3>2
  <2> QED BY <1>6, <2>2, <2>3, <2>4 DEF SwitchStep
<1>7. ASSUME NEW w \in Writer, NEW b \in Block, Call(w, b)
      PROVE  [Canonical!Next]_<<stored, meta.hash, Asked>>
  <2>1. Writer = {w}
    BY DEF SingleWriter
  <2>2. CASE StoreRaw(w, b)
    <3>1. Asked = {} /\ Asked' = {}
      BY <1>1, <2>1, <2>2 DEF StoreRaw, Goto, Asked, TypeOK
    <3>2. Canonical!Learn(b)
      BY <2>2, <3>1 DEF StoreRaw, Canonical!Learn
    <3> QED BY <3>2 DEF Canonical!Next
  <2>3. CASE SwitchHeight(w, b)
    <3>1. Asked = {} /\ Asked' = {b}
      BY <1>1, <2>1, <2>3 DEF SwitchHeight, Goto, IdleReg, Asked, TypeOK
    <3>2. Canonical!Ask(b)
      BY <2>3, <3>1 DEF SwitchHeight, disk, Canonical!Ask, Canonical!Linked, Linked
    <3> QED BY <3>2 DEF Canonical!Next
  <2> QED BY <1>7, <2>2, <2>3 DEF Call
<1>8. CASE UNCHANGED vars
  BY <1>2, <1>8 DEF vars
<1> QED BY <1>3, <1>4, <1>5, <1>6, <1>7, <1>8 DEF Next

\* With one task at a time the three tables and two locks behave, through every
\* crash, like one durable tip that is extended by its successor or switched on
\* request.
THEOREM ImplementsCanonicalChain == SingleWriter /\ Spec => RefinesCanonicalChain
<1>1. SingleWriter => [](SingleWriter)
  <2>1. SingleWriter => SingleWriter'
    BY DEF SingleWriter
  <2> QED BY <2>1, PTL
<1>2. SingleWriter /\ SerialInv /\ [Next]_vars
        => [Canonical!Next]_<<stored, meta.hash, Asked>>
  BY RefineStep
<1> QED BY <1>1, <1>2, RefineInit, SerialAlways, PTL
        DEF Spec, RefinesCanonicalChain, Canonical!Spec
==============================================================================
