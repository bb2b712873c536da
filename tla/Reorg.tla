-------------------------------- MODULE Reorg --------------------------------
(***************************************************************************)
(* How a running node moves its chain and its ledger together:             *)
(* node/src/service/fork.rs (attempt_reorganization_if_longer_chain,       *)
(* reorganize_chain, reorganize_chain_from_genesis), the block handlers of *)
(* node/src/service/mod.rs and the mining loop of node/src/service/        *)
(* mining.rs.                                                              *)
(*                                                                         *)
(* The tasks run on a multi-threaded runtime and share the chain, the      *)
(* ledger and the sync buffer; nothing makes them take turns.  A task      *)
(* first stores a block and then applies it, in two steps.  A              *)
(* reorganization attempt runs in a task of its own.                       *)
(*                                                                         *)
(* store_block and update_best_chain are single steps here, as             *)
(* CanonicalChain promises them; ChainStore opens them up.  Applying or    *)
(* unwinding one block is one step.  The candidate search of               *)
(* check_and_reorganize_chain is abstracted to any block it could name.    *)
(* process_buffered_blocks has no caller and is left out.                  *)
(* What the mining loop adds to the dimensional pools for a block of its   *)
(* own (mining.rs:395) is left out: the bodies here carry no swaps, and    *)
(* nothing else reads the pools.                                           *)
(***************************************************************************)
EXTENDS BlockTree, BlockLedger

CONSTANTS
  Body,           \* Body[b]: b's coinbase and transactions
  Valid,          \* the blocks validate_block_with_options accepts
  GenesisLedger,  \* the ledger start-up leaves (service/mod.rs:486)
  Importer,       \* tasks that receive blocks: the CPP and mesh event loops, RPC
  Miner,          \* the mining loop, or no task
  Attempt,        \* reorganization tasks that may be under way at once
  MinAnchor,      \* MIN_ANCHOR_DEPTH
  MaxCrashes,     \* bound: how often the process may die
  MaxUpsets,      \* bound: how often a task may be disturbed
  NoBlock         \* an absent entry

ASSUME ReorgAssumption ==
  /\ DOMAIN Body = Block
  /\ Valid \subseteq Block
  /\ Importer \cap Miner = {} /\ Attempt \cap (Importer \cup Miner) = {}
  /\ MinAnchor \in Nat
  /\ MaxCrashes \in Nat
  /\ MaxUpsets \in Nat
  /\ NoBlock \notin Block

VARIABLES
  stored,   \* blocks on disk
  tip,      \* the canonical tip
  ledger,   \* the account state, in one database with nothing else to order it by
  buffer,   \* block_buffer: one block per height
  task,     \* task[t]: what an importer or the miner is doing, and with which block
  job,      \* job[r]: how far reorganization attempt r is
  crashes,  \* how often the process died so far
  upsets    \* history: how often a task was disturbed so far (see Undisturbed)

chain == <<stored, tip>>
vars == <<stored, tip, ledger, buffer, task, job, crashes, upsets>>

Task == Importer \cup Miner
Heights == {Height[b] : b \in Block}
Above(b) == Height[b] + 1
Buffered == {buffer[h] : h \in Heights} \ {NoBlock}

IdleTask == [at |-> "idle", blk |-> NoBlock]
IdleJob == [at |-> "idle", target |-> Genesis, base |-> Genesis, buffered |-> FALSE,
            alt |-> {}, full |-> FALSE, old |-> {}, new |-> {}]

TypeOK ==
  /\ stored \subseteq Block
  /\ tip \in Block
  /\ buffer \in [Heights -> Block \cup {NoBlock}]
  /\ task \in [Task -> [at : {"idle", "store", "apply"}, blk : Block \cup {NoBlock}]]
  /\ \A t \in Task : task[t].at # "idle" => task[t].blk \in Block \ {Genesis}
  /\ job \in [Attempt ->
       [at : {"idle", "compare", "unwind", "store", "apply", "switch"},
        target : Block, base : Block, buffered : BOOLEAN, alt : SUBSET Block,
        full : BOOLEAN, old : SUBSET (Block \ {Genesis}), new : SUBSET (Block \ {Genesis})]]
  /\ crashes \in 0..MaxCrashes
  /\ upsets \in 0..MaxUpsets

Init ==
  /\ stored = {Genesis}
  /\ tip = Genesis
  /\ ledger = GenesisLedger
  /\ buffer = [h \in Heights |-> NoBlock]
  /\ task = [t \in Task |-> IdleTask]
  /\ job = [r \in Attempt |-> IdleJob]
  /\ crashes = 0
  /\ upsets = 0

-----------------------------------------------------------------------------
(* ChainState, as its callers see it *)

\* store_block: is_new_best tells whether the tip moved.
IsNewBest(b) == Parent[b] = tip
\* Faulty variant: the tip moves before the block is on disk.
StoreBlockLost(b) ==
  /\ tip' = IF IsNewBest(b) THEN b ELSE tip
  /\ UNCHANGED stored

\* Faulty variant: any higher block becomes the tip.
StoreHigher(b) ==
  /\ stored' = stored \cup {b}
  /\ tip' = IF Height[b] > Height[tip] THEN b ELSE tip

StoreBlock(b) ==
  /\ stored' = stored \cup {b}
  /\ tip' = IF IsNewBest(b) THEN b ELSE tip

-----------------------------------------------------------------------------
(* Importers: BlockReceived and BlocksReceived *)

\* A successor of the tip that validates goes on to be stored.
Accept(i, b) ==
  /\ task[i].at = "idle"
  /\ b # Genesis /\ Parent[b] = tip
  /\ b \in Valid
  /\ task' = [task EXCEPT ![i] = [at |-> "store", blk |-> b]]
  /\ UNCHANGED <<chain, ledger, buffer, job, crashes>>

\* A sync block that is not on the canonical chain, and is not (or must not
\* be) applied to it, is buffered under its height, over whatever was there.
BufferBlock(i, b) ==
  /\ task[i].at = "idle"
  /\ b \notin Path[tip]
  /\ buffer' = [buffer EXCEPT ![Height[b]] = b]
  /\ UNCHANGED <<chain, ledger, task, job, crashes>>

\* The buffered successor of the tip leaves the buffer; it is dropped if it
\* does not validate.
Drain(i, b) ==
  /\ task[i].at = "idle"
  /\ Above(tip) \in Heights /\ b = buffer[Above(tip)]
  /\ b # NoBlock /\ Parent[b] = tip
  /\ buffer' = [buffer EXCEPT ![Height[b]] = NoBlock]
  /\ task' = IF b \in Valid
               THEN [task EXCEPT ![i] = [at |-> "store", blk |-> b]] ELSE task
  /\ UNCHANGED <<chain, ledger, job, crashes>>

\* Only a block that became the tip is applied.
StoreAccepted(i) ==
  /\ task[i].at = "store"
  /\ StoreBlock(task[i].blk)
  /\ task' = [task EXCEPT ![i] =
                IF IsNewBest(task[i].blk) THEN [@ EXCEPT !.at = "apply"] ELSE IdleTask]
  /\ UNCHANGED <<ledger, buffer, job, crashes>>

ApplyStored(t) ==
  /\ task[t].at = "apply"
  /\ ledger' = ApplyBody(ledger, Body[task[t].blk], 0)
  /\ task' = [task EXCEPT ![t] = IdleTask]
  /\ UNCHANGED <<chain, buffer, job, crashes>>

-----------------------------------------------------------------------------
(* The mining loop *)

\* The template names the tip of now; finding the block takes long.
MineBlock(m, b) ==
  /\ task[m].at = "idle"
  /\ b # Genesis /\ Parent[b] = tip
  /\ b \in Valid
  /\ task' = [task EXCEPT ![m] = [at |-> "store", blk |-> b]]
  /\ UNCHANGED <<chain, ledger, buffer, job, crashes>>

\* The miner ignores is_new_best and goes on to apply its block.
StoreMined(m) ==
  /\ task[m].at = "store"
  /\ StoreBlock(task[m].blk)
  /\ task' = [task EXCEPT ![m].at = "apply"]
  /\ UNCHANGED <<ledger, buffer, job, crashes>>

-----------------------------------------------------------------------------
(* attempt_reorganization_if_longer_chain *)

\* Reads tip and buffer, each behind a lock of its own.  A candidate taken
\* from the stored blocks comes without the buffer.
StartAttempt(r, b, buffered) ==
  /\ job[r].at = "idle"
  /\ b \in IF buffered THEN Buffered ELSE stored
  /\ b # tip /\ Height[b] >= Height[tip]
  /\ job' = [job EXCEPT ![r] =
       [IdleJob EXCEPT !.at = "compare", !.target = b, !.base = tip,
                       !.buffered = buffered, !.alt = IF buffered THEN Buffered ELSE {}]]
  /\ UNCHANGED <<chain, ledger, buffer, task, crashes>>

\* compare_chains: more than 0.5% heavier.
Heavier(theirs, ours) == theirs > ours + ours \div 200

\* find_common_ancestor_with_alt_chain meets only blocks it can load.
Reachable(j) == Path[j.target] \ Path[tip] \subseteq stored \cup j.alt

\* Faulty variant: the common ancestor is unwound as well.
OldBranchWithAncestor(j, c) ==
  {a \in Path[tip] : Height[c] <= Height[a] /\ Height[a] <= Height[j.base]}

\* The canonical blocks from above c up to the height of the tip read first.
OldBranch(j, c) == {a \in Path[tip] : Height[c] < Height[a] /\ Height[a] <= Height[j.base]}
OldWork(j, c) ==
  IF Height[c] < Height[j.base]
    THEN PathWork[BlockAt(tip, Height[j.base])] - PathWork[c] ELSE 0

\* Faulty variant: the longer branch wins, whatever its work.
LongestCase(j) ==
  LET c == CommonAncestor(tip, j.target)
  IN /\ Reachable(j)
     /\ Height[c] >= MinAnchor
     /\ Height[j.base] <= Height[tip]
     /\ c # j.target
     /\ Height[j.target] >= Height[j.base]

\* The ordinary case: the branches meet at an ancestor high enough.
AnchoredCase(j) ==
  LET c == CommonAncestor(tip, j.target)
  IN /\ Reachable(j)
     /\ Height[c] >= MinAnchor
     /\ Height[j.base] <= Height[tip]
     /\ Heavier(PathWork[j.target] - PathWork[c], OldWork(j, c))

\* No ancestor was found, but by now the candidate can be walked to genesis:
\* validated first, and switched to if it is heavier or merely higher.
CompleteCase(j) ==
  /\ ~Reachable(j)
  /\ Path[j.target] \subseteq stored \cup (IF j.buffered THEN Buffered ELSE {})
  /\ Path[j.target] \ {Genesis} \subseteq Valid
  /\ j.base \in Path[tip]
  /\ Heavier(PathWork[j.target], PathWork[j.base]) \/ Height[j.target] > Height[j.base]

FromGenesis(b) == Path[b] \ {Genesis}

Compare(r) ==
  LET j == job[r]
      c == CommonAncestor(tip, j.target)
  IN /\ j.at = "compare"
     /\ job' = [job EXCEPT ![r] =
          IF AnchoredCase(j)
            THEN [j EXCEPT !.at = "unwind", !.old = OldBranch(j, c),
                           !.new = Path[j.target] \ Path[c]]
          ELSE IF CompleteCase(j)
            THEN [j EXCEPT !.at = "unwind", !.full = TRUE,
                           !.old = FromGenesis(j.base), !.new = FromGenesis(j.target)]
          ELSE IdleJob]
     /\ UNCHANGED <<chain, ledger, buffer, task, crashes>>

Lowest(S) == CHOOSE b \in S : \A d \in S : Height[b] <= Height[d]
Highest(S) == CHOOSE b \in S : \A d \in S : Height[d] <= Height[b]

\* reorganize_chain is handed the old branch newest first and iterates it
\* with .rev(); reorganize_chain_from_genesis reverses only once.
NextToUnwind(j) == IF j.full THEN Highest(j.old) ELSE Lowest(j.old)

Unwind(r) ==
  LET b == NextToUnwind(job[r])
  IN /\ job[r].at = "unwind" /\ job[r].old # {}
     /\ ledger' = UnwindBody(ledger, Body[b])
     /\ job' = [job EXCEPT ![r].old = @ \ {b}]
     /\ UNCHANGED <<chain, buffer, task, crashes>>

\* reorganize_chain validates the new branch after the old one is unwound.  On
\* failure it returns; the ledger stays unwound and the tip where it was.
Validate(r) ==
  LET j == job[r]
  IN /\ j.at = "unwind" /\ j.old = {}
     /\ job' = [job EXCEPT ![r] =
                  IF j.full \/ j.new \subseteq Valid
                    THEN [j EXCEPT !.at = "store"] ELSE IdleJob]
     /\ UNCHANGED <<chain, ledger, buffer, task, crashes>>

StoreNew(r) ==
  /\ job[r].at = "store"
  /\ StoreBlock(Lowest(job[r].new))
  /\ job' = [job EXCEPT ![r].at = "apply"]
  /\ UNCHANGED <<ledger, buffer, task, crashes>>

ApplyNew(r) ==
  LET b == Lowest(job[r].new)
      rest == job[r].new \ {b}
  IN /\ job[r].at = "apply"
     /\ ledger' = ApplyBody(ledger, Body[b], 0)
     /\ job' = [job EXCEPT ![r].new = rest,
                           ![r].at = IF rest = {} THEN "switch" ELSE "store"]
     /\ UNCHANGED <<chain, buffer, task, crashes>>

\* update_best_chain
SwitchTip(r) ==
  /\ job[r].at = "switch"
  /\ tip' = job[r].target
  /\ job' = [job EXCEPT ![r] = IdleJob]
  /\ UNCHANGED <<stored, ledger, buffer, task, crashes>>

-----------------------------------------------------------------------------
\* The process dies.  Chain and ledger are on disk; a restart repairs neither.
\* (At height 0 it funds the genesis account again, with what it has then.)
Crash ==
  /\ crashes < MaxCrashes
  /\ crashes' = crashes + 1
  /\ buffer' = [h \in Heights |-> NoBlock]
  /\ task' = [t \in Task |-> IdleTask]
  /\ job' = [r \in Attempt |-> IdleJob]
  /\ UNCHANGED <<chain, ledger>>

ImporterStep(i) ==
  \/ \E b \in Block : Accept(i, b) \/ BufferBlock(i, b) \/ Drain(i, b)
  \/ StoreAccepted(i) \/ ApplyStored(i)

MinerStep(m) == (\E b \in Block : MineBlock(m, b)) \/ StoreMined(m) \/ ApplyStored(m)

AttemptStep(r) ==
  \/ \E b \in Block, buffered \in BOOLEAN : StartAttempt(r, b, buffered)
  \/ Compare(r) \/ Unwind(r) \/ Validate(r) \/ StoreNew(r) \/ ApplyNew(r) \/ SwitchTip(r)

Step ==
  \/ \E i \in Importer : ImporterStep(i)
  \/ \E m \in Miner : MinerStep(m)
  \/ \E r \in Attempt : AttemptStep(r)
  \/ Crash

\* Tasks that are in the middle of something.  A miner that is still looking
\* for its block is not.
Active ==
  {i \in Importer : task[i].at # "idle"} \cup {m \in Miner : task[m].at = "apply"}
    \cup {r \in Attempt : job[r].at # "idle"}

\* A step nothing goes wrong in: no task becomes active while another one is,
\* the buffer an attempt has read stays as it is until the attempt has decided,
\* no mined block comes late, no branch fails to validate after the old one was
\* unwound, and the process does not die in the middle of something.
Undisturbed ==
  /\ Cardinality(Active') > 1 => Active' \subseteq Active
  /\ buffer' # buffer => \A r \in Attempt : job[r].at # "compare"
  /\ \A m \in Miner : task[m].at = "store" /\ task'[m].at = "apply" => IsNewBest(task[m].blk)
  /\ \A r \in Attempt : job[r].at = "unwind" => job'[r].at # "idle"
  /\ crashes' # crashes => Active = {}

Next ==
  /\ Step
  /\ upsets' = IF Undisturbed THEN upsets ELSE upsets + 1
  /\ upsets' <= MaxUpsets

Spec == Init /\ [][Next]_vars

-----------------------------------------------------------------------------
(* Properties *)

\* The ledger a node has that started from genesis and applied b's branch.
Replay[b \in Block] ==
  IF b = Genesis THEN GenesisLedger ELSE ApplyBody(Replay[Parent[b]], Body[b], 0)

\* What is left of t's ledger, for each block of its branch, once the blocks
\* above c up to that one are unwound in the order reorganize_chain does it.
Unwound(t, c) ==
  LET left[a \in Path[t]] ==
        IF a \in Path[c] THEN Replay[t] ELSE UnwindBody(left[Parent[a]], Body[a])
  IN left

\* Unwinding a branch down to a block at or above the anchor, lowest block
\* first, gives that block's ledger.  It fails where a debit stops at zero, a
\* transaction is taken back that was skipped, or one of a kind that unwinding
\* does not take back wholly.
BranchesUnwind ==
  \A t \in Block : \A c \in Path[t] : Height[c] >= MinAnchor => Unwound(t, c)[t] = Replay[c]

\* Whenever nothing is going on and no task was ever disturbed, the ledger is
\* the one of the canonical chain, after any number of extensions, mined
\* blocks and switches: what reorganize_chain unwinds and applies adds up.
LedgerFollowsTip == Active = {} /\ upsets = 0 => ledger = Replay[tip]

\* Whatever tasks interleave and wherever the process dies, the tip's branch
\* is on disk: a switch comes after all of the new branch was stored.
TipLinked == Linked(tip, stored)

\* The types, and the tip's branch on disk.
ChainSound == TypeOK /\ TipLinked

\* An undisturbed node that has grown past MinAnchor never again changes its
\* block at that height: no attempt gets below the anchor, not by several
\* switches in a row either (MIN_ANCHOR_DEPTH, fork.rs:849).
AnchorKept ==
  Height[tip] >= MinAnchor =>
    /\ Height[tip'] >= MinAnchor
    /\ BlockAt(tip', MinAnchor) = BlockAt(tip, MinAnchor)

\* The tip of an undisturbed node is only ever extended, or moved to a branch
\* with more work, although an attempt decides long before it switches and
\* store_block may move the tip in between (compare_chains in fork.rs), and
\* never to one that leaves the chain below the anchor.
TipMovesUp ==
  [][upsets' = 0 /\ tip' # tip =>
       (Parent[tip'] = tip \/ PathWork[tip'] > PathWork[tip]) /\ AnchorKept]_vars

\* The chain a node keeps is a CanonicalChain under every interleaving.
Asked == {job[r].target : r \in {s \in Attempt : job[s].at = "switch"}}
Canonical == INSTANCE CanonicalChain WITH known <- stored, asked <- Asked
RefinesCanonicalChain == Canonical!Spec
==============================================================================
