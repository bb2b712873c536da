----------------------------- MODULE ChainStore ------------------------------
(***************************************************************************)
(* ChainState of node/src/chain.rs: three redb tables (blocks, metadata,   *)
(* height_index), the best tip cached behind two separate RwLocks, and the *)
(* calls that move them: new, store_block and update_best_chain.           *)
(*                                                                         *)
(* Every redb commit is one atomic and durable step; so is every access to *)
(* one of the two locks.  No lock is held from one step to the next, so    *)
(* the calls of different tasks (event loop, mining loop, spawned          *)
(* reorganization tasks) interleave at these points, and the process may   *)
(* die between any two of them.                                            *)
(*                                                                         *)
(* Left out: total_minted_rewards, which the code keeps by the same        *)
(* statements as cum_work; the u128 saturation of both; the LRU cache of   *)
(* decoded blocks; the reset of a metadata height above                    *)
(* MAX_REASONABLE_HEIGHT, which repairs bytes the program never writes.    *)
(***************************************************************************)
EXTENDS BlockTree

CONSTANTS
  Writer,      \* the tasks that call store_block and update_best_chain
  MaxCrashes,  \* bound: how often the process may die
  NoBlock      \* an absent entry

ASSUME ChainStoreAssumption ==
  /\ MaxCrashes \in Nat
  /\ NoBlock \notin Block

VARIABLES
  stored,   \* BLOCKS_TABLE: the blocks on disk
  meta,     \* METADATA_TABLE: genesis_hash present?, best_height, best_hash, cum_work
  index,    \* HEIGHT_INDEX_TABLE: height -> block or NoBlock
  best,     \* in memory: best_height and best_hash
  phase,    \* where ChainState::new is: "down", "genesisBlock", "genesisIndex", "up"
  pc,       \* pc[w]: the next step of the call task w is in, or "idle"
  reg,      \* reg[w]: that call's block, what it read, and its index cursor
  crashes   \* how often the process died so far

disk == <<stored, meta, index>>
vars == <<stored, meta, index, best, phase, pc, reg, crashes>>

Heights == {Height[b] : b \in Block}

NoMeta == [init |-> FALSE, height |-> 0, hash |-> Genesis, work |-> 0]
IdleReg == [blk |-> NoBlock, seen |-> 0, cum |-> 0, cursor |-> NoBlock]

\* Names of the steps inside store_block and inside update_best_chain.
StoreSteps == {"readTip", "checkParent", "setHeight", "setHash",
               "readWork", "commitTip", "indexTip"}
SwitchSteps == {"switchHeight", "switchHash", "commitSwitch", "reindex"}

TypeOK ==
  /\ stored \subseteq Block
  /\ meta \in [init : BOOLEAN, height : Nat, hash : Block, work : Nat]
  /\ index \in [Heights -> Block \cup {NoBlock}]
  /\ best \in [height : Nat, hash : Block]
  /\ phase \in {"down", "genesisBlock", "genesisIndex", "up"}
  /\ pc \in [Writer -> {"idle"} \cup StoreSteps \cup SwitchSteps]
  /\ reg \in [Writer -> [blk : Block \cup {NoBlock}, seen : Nat, cum : Nat,
                         cursor : Block \cup {NoBlock}]]
  /\ \A w \in Writer : pc[w] # "idle" => reg[w].blk \in Block
  /\ \A w \in Writer : pc[w] = "reindex" => reg[w].cursor \in Block
  /\ crashes \in 0..MaxCrashes

\* An empty database and no process.
Init ==
  /\ stored = {}
  /\ meta = NoMeta
  /\ index = [h \in Heights |-> NoBlock]
  /\ best = [height |-> 0, hash |-> Genesis]
  /\ phase = "down"
  /\ pc = [w \in Writer |-> "idle"]
  /\ reg = [w \in Writer |-> IdleReg]
  /\ crashes = 0

-----------------------------------------------------------------------------
(* ChainState::new *)

\* Reads the tip back.  cum_work is present whenever best_hash is, so
\* ensure_cumulative_work_meta writes nothing.
LoadTip ==
  /\ phase' = "up"
  /\ best' = [height |-> meta.height, hash |-> meta.hash]

\* The metadata names a genesis: the database is taken as initialised.
OpenExisting ==
  /\ phase = "down" /\ meta.init
  /\ LoadTip
  /\ UNCHANGED <<stored, meta, index, pc, reg, crashes>>

\* No genesis_hash: the first of three commits writes the metadata ...
OpenFresh ==
  /\ phase = "down" /\ ~meta.init
  /\ meta' = [init |-> TRUE, height |-> 0, hash |-> Genesis, work |-> Work[Genesis]]
  /\ phase' = "genesisBlock"
  /\ UNCHANGED <<stored, index, best, pc, reg, crashes>>

\* ... the second one the genesis block ...
StoreGenesis ==
  /\ phase = "genesisBlock"
  /\ stored' = stored \cup {Genesis}
  /\ phase' = "genesisIndex"
  /\ UNCHANGED <<meta, index, best, pc, reg, crashes>>

\* ... and the third one its height_index entry.
IndexGenesis ==
  /\ phase = "genesisIndex"
  /\ index' = [index EXCEPT ![0] = Genesis]
  /\ LoadTip
  /\ UNCHANGED <<stored, meta, pc, reg, crashes>>

-----------------------------------------------------------------------------
(* store_block *)

Goto(w, step) == pc' = [pc EXCEPT ![w] = step]
Return(w) == /\ Goto(w, "idle")
             /\ reg' = [reg EXCEPT ![w] = IdleReg]

\* Faulty variant: the block is announced but not committed.
StoreRawLost(w, b) ==
  /\ phase = "up" /\ pc[w] = "idle"
  /\ b # Genesis
  /\ Linked(Parent[b], stored)
  /\ Goto(w, "readTip")
  /\ reg' = [reg EXCEPT ![w] = [IdleReg EXCEPT !.blk = b]]
  /\ UNCHANGED <<disk, best, phase, crashes>>

\* Task w calls store_block(b): store_block_raw commits the block first.
\* Every caller has validated b against the emission rule, which walks b's
\* parent down to genesis on disk (cumulative_work_at_tip_hash).
StoreRaw(w, b) ==
  /\ phase = "up" /\ pc[w] = "idle"
  /\ b # Genesis
  /\ Linked(Parent[b], stored)
  /\ stored' = stored \cup {b}
  /\ Goto(w, "readTip")
  /\ reg' = [reg EXCEPT ![w] = [IdleReg EXCEPT !.blk = b]]
  /\ UNCHANGED <<meta, index, best, phase, crashes>>

\* `current_best_height`
ReadTipHeight(w) ==
  /\ pc[w] = "readTip"
  /\ Goto(w, "checkParent")
  /\ reg' = [reg EXCEPT ![w].seen = best.height]
  /\ UNCHANGED <<disk, best, phase, crashes>>

\* Faulty variant: a higher block becomes the tip whatever its parent.
CheckHigher(w) ==
  /\ pc[w] = "checkParent"
  /\ IF Height[reg[w].blk] > reg[w].seen
       THEN Goto(w, "setHeight") /\ UNCHANGED reg
       ELSE Return(w)
  /\ UNCHANGED <<disk, best, phase, crashes>>

\* `current_best_hash`, then the two tests: the call goes on only for a block
\* that is higher than the tip and names it as its parent.
CheckExtends(w) ==
  /\ pc[w] = "checkParent"
  /\ IF Height[reg[w].blk] > reg[w].seen /\ Parent[reg[w].blk] = best.hash
       THEN Goto(w, "setHeight") /\ UNCHANGED reg
       ELSE Return(w)
  /\ UNCHANGED <<disk, best, phase, crashes>>

\* The cached tip moves before the metadata does.
SetHeight(w) ==
  /\ pc[w] = "setHeight"
  /\ best' = [best EXCEPT !.height = Height[reg[w].blk]]
  /\ Goto(w, "setHash")
  /\ UNCHANGED <<disk, phase, reg, crashes>>

SetHash(w) ==
  /\ pc[w] = "setHash"
  /\ best' = [best EXCEPT !.hash = reg[w].blk]
  /\ Goto(w, "readWork")
  /\ UNCHANGED <<disk, phase, reg, crashes>>

\* `prev_cum`, in a read transaction of its own.
ReadWork(w) ==
  /\ pc[w] = "readWork"
  /\ reg' = [reg EXCEPT ![w].cum = meta.work]
  /\ Goto(w, "commitTip")
  /\ UNCHANGED <<disk, best, phase, crashes>>

CommitTip(w) ==
  /\ pc[w] = "commitTip"
  /\ LET b == reg[w].blk
     IN meta' = [meta EXCEPT !.height = Height[b], !.hash = b,
                             !.work = reg[w].cum + Work[b]]
  /\ Goto(w, "indexTip")
  /\ UNCHANGED <<stored, index, best, phase, reg, crashes>>

IndexTip(w) ==
  /\ pc[w] = "indexTip"
  /\ index' = [index EXCEPT ![Height[reg[w].blk]] = reg[w].blk]
  /\ Return(w)
  /\ UNCHANGED <<stored, meta, best, phase, crashes>>

-----------------------------------------------------------------------------
(* update_best_chain *)

\* Task w calls update_best_chain(b).  Its callers have stored every block of
\* the branch down to a block of the current chain.
SwitchHeight(w, b) ==
  /\ phase = "up" /\ pc[w] = "idle"
  /\ b # Genesis
  /\ Linked(b, stored)
  /\ best' = [best EXCEPT !.height = Height[b]]
  /\ Goto(w, "switchHash")
  /\ reg' = [reg EXCEPT ![w] = [IdleReg EXCEPT !.blk = b]]
  /\ UNCHANGED <<disk, phase, crashes>>

\* Faulty variant: the cached hash keeps naming the old tip.
SwitchHashForgotten(w) ==
  /\ pc[w] = "switchHash"
  /\ Goto(w, "commitSwitch")
  /\ UNCHANGED <<disk, best, phase, reg, crashes>>

SwitchHash(w) ==
  /\ pc[w] = "switchHash"
  /\ best' = [best EXCEPT !.hash = reg[w].blk]
  /\ Goto(w, "commitSwitch")
  /\ UNCHANGED <<disk, phase, reg, crashes>>

\* Faulty variant: cum_work is carried over from the old branch.
CommitSwitchCarried(w) ==
  /\ pc[w] = "commitSwitch"
  /\ LET b == reg[w].blk
     IN /\ meta' = [meta EXCEPT !.height = Height[b], !.hash = b,
                                !.work = @ + Work[b]]
        /\ reg' = [reg EXCEPT ![w].cursor = b]
  /\ Goto(w, "reindex")
  /\ UNCHANGED <<stored, index, best, phase, crashes>>

\* cum_work is recomputed from the stored headers, not carried over.
CommitSwitch(w) ==
  /\ pc[w] = "commitSwitch"
  /\ LET b == reg[w].blk
     IN /\ meta' = [meta EXCEPT !.height = Height[b], !.hash = b,
                                !.work = PathWork[b]]
        /\ reg' = [reg EXCEPT ![w].cursor = b]
  /\ Goto(w, "reindex")
  /\ UNCHANGED <<stored, index, best, phase, crashes>>

\* Faulty variant: only the tip's own entry is rewritten.
ReindexTipOnly(w) ==
  /\ pc[w] = "reindex"
  /\ LET c == reg[w].cursor
     IN index' = [index EXCEPT ![Height[c]] = c]
  /\ Return(w)
  /\ UNCHANGED <<stored, meta, best, phase, crashes>>

\* rebuild_height_index_from_canonical_tip: one commit per height, tip first.
Reindex(w) ==
  /\ pc[w] = "reindex"
  /\ LET c == reg[w].cursor
     IN /\ index' = [index EXCEPT ![Height[c]] = c]
        /\ IF c = Genesis
             THEN Return(w)
             ELSE /\ reg' = [reg EXCEPT ![w].cursor = Parent[c]]
                  /\ UNCHANGED pc
  /\ UNCHANGED <<stored, meta, best, phase, crashes>>

-----------------------------------------------------------------------------
\* The process dies: memory is lost, the disk keeps every committed step.
Crash ==
  /\ phase # "down"
  /\ crashes < MaxCrashes
  /\ crashes' = crashes + 1
  /\ phase' = "down"
  /\ best' = [height |-> 0, hash |-> Genesis]
  /\ pc' = [w \in Writer |-> "idle"]
  /\ reg' = [w \in Writer |-> IdleReg]
  /\ UNCHANGED disk

Boot == OpenExisting \/ OpenFresh \/ StoreGenesis \/ IndexGenesis

StoreStep(w) ==
  \/ ReadTipHeight(w) \/ CheckExtends(w) \/ SetHeight(w) \/ SetHash(w)
  \/ ReadWork(w) \/ CommitTip(w) \/ IndexTip(w)

SwitchStep(w) == SwitchHash(w) \/ CommitSwitch(w) \/ Reindex(w)

Call(w, b) == StoreRaw(w, b) \/ SwitchHeight(w, b)

Next ==
  \/ Boot
  \/ Crash
  \/ \E w \in Writer : StoreStep(w) \/ SwitchStep(w)
  \/ \E w \in Writer, b \in Block : Call(w, b)

Spec == Init /\ [][Next]_vars

-----------------------------------------------------------------------------
(* Properties *)

SingleWriter == \A v, w \in Writer : v = w

Quiet == phase = "up" /\ \A w \in Writer : pc[w] = "idle"

\* Whatever tasks interleave and wherever the process dies, the tip in the
\* metadata names a block whose whole branch is on disk, at its own height:
\* store_block_raw commits before the metadata does, and the metadata holds
\* height and hash in one commit.  Only the genesis block may be missing, for
\* good, if the process dies in its first start (ChainState::new, OpenFresh).
DurableTipLinked ==
  meta.init => /\ meta.height = Height[meta.hash]
               /\ Linked(meta.hash, stored \cup {Genesis})

\* cum_work is the work of the branch below the durable tip, although
\* store_block adds an increment to what it read earlier and a crash may fall
\* between the two ("sum of header.work_score along the canonical best chain
\* (genesis -> tip)", chain.rs:22).
WorkMatchesTip == meta.init => meta.work = PathWork[meta.hash]

\* Between calls the cached tip, its two halves included, is the durable one:
\* what a restart at this point would load.
CacheMatchesDisk == Quiet => best = [height |-> meta.height, hash |-> meta.hash]

\* Without a crash, between calls the height index answers for every height up
\* to the tip with the block of the canonical branch, also after a switch to a
\* shorter branch ("Map height -> hash on the canonical best chain only",
\* chain.rs:354).
IndexMatchesTip ==
  Quiet /\ crashes = 0 => \A a \in Path[meta.hash] : index[Height[a]] = a

\* The store implements CanonicalChain: from the outside, store_block moves the
\* durable tip to its successor or not at all, and only update_best_chain ever
\* makes it jump, whatever a crash leaves half done.
Asked == {reg[w].blk : w \in {v \in Writer : pc[v] \in {"switchHash", "commitSwitch"}}}
Canonical == INSTANCE CanonicalChain
               WITH known <- stored, tip <- meta.hash, asked <- Asked
RefinesCanonicalChain == Canonical!Spec
==============================================================================
