------------------------------- MODULE Indexer --------------------------------
(***************************************************************************)
(* The block indexer of the API server (api-server/src/indexer): it polls  *)
(* a node, copies confirmed blocks into the tables of Supabase and keeps   *)
(* the height it has reached in memory and in a row.  Every call of the    *)
(* database is a step of its own that can fail, before or after it took    *)
(* effect, and the node may reorganize between any two calls.              *)
(*                                                                         *)
(* Per block there is a row of `blocks` and rows of the detail tables,     *)
(* which stand or fall together per table.  Trades, the dataset catalog    *)
(* and metrics are left out, the failures of their calls are not.          *)
(***************************************************************************)
EXTENDS BlockTree, Sequences, FiniteSetsExt

CONSTANTS
  K,           \* INDEXER_CONFIRMATIONS
  Batch,       \* blocks per round, 100
  Lead,        \* how far ahead of the tip the index may be, 10
  Detail,      \* the detail tables, in the order they are filled
  MaxErrors,   \* bound: calls of node or database that fail
  MaxCrashes,  \* bound: crashes
  None         \* no block, no hash

ASSUME IndexerAssumption ==
  /\ None \notin Block /\ K \in Nat /\ Lead \in Nat /\ Batch \in Nat \ {0}
  /\ Detail \in Seq(STRING) /\ Detail # <<>>
  /\ MaxErrors \in Nat /\ MaxCrashes \in Nat

VARIABLES
  named,    \* does the node's JSON name a block's hash?  chain_getBlock of this
            \* repository's node gives Block, which has no such field
  tip,      \* the node's best block
  rows,     \* rows[h]: the block in `blocks` at height h
  parts,    \* parts[h][t]: the block whose details are in table t at height h
  saved,    \* the row of sync_state
  sync,     \* SyncState
  at,       \* where the loop is
  next,     \* the height of the loop over the batch
  end,      \* its last height
  blk,      \* the block in hand
  fork,     \* the height to roll back to
  done,     \* detail tables filled for blk
  errors, crashes,
  forgot,   \* history: the loop went back behind the row of sync_state
  left,     \* history: blocks the node's chain has left
  wild      \* history: it has come back to one of them, or lowered its tip
            \* below the end of the batch

tables == <<rows, parts>>
node == <<named, tip, left, wild>>
loop == <<at, next, end, blk, fork, done>>
vars == <<node, tables, saved, sync, loop, errors, crashes, forgot>>

Heights == 1..Max({Height[b] : b \in Block})
Tables == {Detail[i] : i \in DOMAIN Detail}
Blank == [t \in Tables |-> None]
Default == [height |-> 0, hash |-> None]

\* block_hash_from_json.
HashOf(b) == IF named THEN b ELSE None

Init ==
  /\ named \in BOOLEAN /\ tip = Genesis /\ left = {} /\ wild = FALSE
  /\ rows = [h \in Heights |-> None] /\ parts = [h \in Heights |-> Blank]
  /\ saved = Default /\ sync = Default
  /\ at = "load" /\ next = 0 /\ end = 0 /\ blk = None /\ fork = 0 /\ done = 0
  /\ errors = 0 /\ crashes = 0 /\ forgot = FALSE

-----------------------------------------------------------------------------
(* The node. *)

Extend(b) ==
  /\ b # Genesis /\ Parent[b] = tip /\ tip' = b
  /\ UNCHANGED <<named, left, wild, tables, saved, sync, loop, errors, crashes, forgot>>

\* A reorganization to a heavier branch, of which all blocks are known.
Switch(b) ==
  /\ tip \notin Path[b] /\ PathWork[b] > PathWork[tip] /\ tip' = b
  /\ left' = left \cup (Path[tip] \ Path[b])
  /\ wild' = (wild \/ Path[b] \cap left # {} \/ Height[b] < end)
  /\ UNCHANGED <<named, tables, saved, sync, loop, errors, crashes, forgot>>

-----------------------------------------------------------------------------
(* The loop.  A failed call ends the batch. *)

Fail == errors < MaxErrors /\ errors' = errors + 1
GiveUp == at' = "save" /\ UNCHANGED <<next, end, blk, fork, done>>
GoTo(place) == at' = place /\ UNCHANGED <<next, end, blk, fork, done>>

\* Without an answer the indexer starts from genesis, and the row stays.
Load ==
  /\ at = "load" /\ GoTo("poll")
  /\ \/ sync' = saved /\ UNCHANGED <<errors, forgot>>
     \/ sync' = Default /\ Fail /\ forgot' = (forgot \/ saved.height > 0)
  /\ UNCHANGED <<node, tables, saved, crashes>>

Safe == IF Height[tip] < K THEN 0 ELSE Height[tip] - K

\* The heights to index when h is the last one indexed.
BatchAfter(h) == [first |-> h + 1, last |-> Min({Safe, h + Batch})]

\* Has the chain been begun anew?
Ahead == sync.height > Height[tip] + Lead

\* A round begins.  An index too far ahead of the tip is begun anew: its rows stay.
Poll ==
  /\ at = "poll"
  /\ LET from == IF Ahead THEN Default ELSE sync
         round == BatchAfter(from.height)
     IN /\ sync' = from
        /\ IF Ahead
           THEN \/ saved' = Default /\ UNCHANGED <<errors, forgot>>
                \/ Fail /\ forgot' = TRUE /\ UNCHANGED saved
           ELSE UNCHANGED <<saved, errors, forgot>>
        /\ IF Safe <= from.height
           THEN UNCHANGED loop
           ELSE /\ at' = "fetch" /\ next' = round.first /\ end' = round.last
                /\ UNCHANGED <<blk, fork, done>>
  /\ UNCHANGED <<node, tables, crashes>>

\* The node's answer for a height: none above its tip.
Answer(h) == IF h > Height[tip] THEN None ELSE BlockAt(tip, h)
ParentHash(b) == IF b = None THEN None ELSE Parent[b]

MismatchNever(b) == FALSE   \* Faulty variant: no reorganization is noticed.
\* Reorg detection.
Mismatch(b) == sync.hash # None /\ ParentHash(b) # sync.hash

\* find_fork_height: the height of the row with this hash, or 0.
ForkHeight(hash) ==
  Max({0} \cup {h \in Heights : hash # None /\ rows[h] = hash})

\* get_block_by_height, and the lookup of the fork where there is one.
Fetch ==
  /\ at = "fetch"
  /\ \/ Fail /\ GiveUp
     \/ LET b == Answer(next) IN
        /\ UNCHANGED <<errors, next, end>>
        /\ CASE Mismatch(b) -> at' = "unindex" /\ fork' = ForkHeight(ParentHash(b))
                               /\ UNCHANGED <<blk, done>>
             [] ~Mismatch(b) /\ b = None -> at' = "save" /\ UNCHANGED <<blk, fork, done>>
             [] OTHER -> at' = "upsert" /\ blk' = b /\ UNCHANGED <<fork, done>>
  /\ UNCHANGED <<node, tables, saved, sync, crashes, forgot>>

-----------------------------------------------------------------------------
(* process_block. *)

\* The row of the block.
Upsert ==
  /\ at = "upsert"
  /\ \/ rows' = [rows EXCEPT ![next] = blk] /\ GoTo("clear") /\ UNCHANGED errors
     \/ rows' \in {rows, [rows EXCEPT ![next] = blk]} /\ Fail /\ GiveUp
  /\ UNCHANGED <<node, parts, saved, sync, crashes, forgot>>

\* parts without the details of these tables at these heights.
Cleared(hs, ts) ==
  [h \in Heights |-> [t \in Tables |-> IF h \in hs /\ t \in ts THEN None ELSE parts[h][t]]]

\* Three deletions run at once: if one fails, any of them may have happened.
Clear ==
  /\ at = "clear"
  /\ \/ parts' = Cleared({next}, Tables) /\ at' = "insert" /\ done' = 0
        /\ UNCHANGED <<errors, next, end, blk, fork>>
     \/ \E ts \in SUBSET Tables : parts' = Cleared({next}, ts) /\ Fail /\ GiveUp
  /\ UNCHANGED <<node, rows, saved, sync, crashes, forgot>>

\* One detail table is filled.
Insert ==
  LET filled == [parts EXCEPT ![next][Detail[done + 1]] = blk] IN
  /\ at = "insert" /\ done < Len(Detail)
  /\ \/ parts' = filled /\ done' = done + 1 /\ UNCHANGED <<errors, at, next, end, blk, fork>>
     \/ parts' \in {parts, filled} /\ Fail /\ GiveUp
  /\ UNCHANGED <<node, rows, saved, sync, crashes, forgot>>

\* Trades and catalog are brought up to date, and the block counts as indexed.
Indexed ==
  /\ at = "insert" /\ done = Len(Detail)
  /\ \/ /\ sync' = [height |-> next, hash |-> HashOf(blk)]
        /\ at' = IF next < end THEN "fetch" ELSE "save"
        /\ next' = next + 1 /\ UNCHANGED <<errors, end, blk, fork, done>>
     \/ Fail /\ GiveUp /\ UNCHANGED sync
  /\ UNCHANGED <<node, tables, saved, crashes, forgot>>

-----------------------------------------------------------------------------
(* handle_reorg. *)

Above == {h \in Heights : h > fork}

\* The details above the fork; trades come first and may fail.
Unindex ==
  /\ at = "unindex"
  /\ \/ parts' = Cleared(Above, Tables) /\ GoTo("unrow") /\ UNCHANGED errors
     \/ \E ts \in SUBSET Tables : parts' = Cleared(Above, ts) /\ Fail /\ GiveUp
  /\ UNCHANGED <<node, rows, saved, sync, crashes, forgot>>

\* get_block_hash_at_height.
HashAt(h, table) == IF h = 0 THEN None ELSE table[h]

AfterReorgKeeping(kept) == sync   \* Faulty variant: the position is not taken back.
\* The position after the rollback.
AfterReorg(kept) == [height |-> fork, hash |-> HashAt(fork, kept)]

\* The rows above the fork, and the new position.  Where the hash at the fork
\* cannot be read the height is taken back all the same.
Unrow ==
  LET kept == [h \in Heights |-> IF h \in Above THEN None ELSE rows[h]] IN
  /\ at = "unrow" /\ GiveUp
  /\ \/ rows' = kept /\ sync' = AfterReorg(kept) /\ UNCHANGED errors
     \/ fork > 0 /\ rows' = kept /\ sync' = [AfterReorg(kept) EXCEPT !.hash = sync.hash] /\ Fail
     \/ rows' \in {rows, kept} /\ Fail /\ UNCHANGED sync
  /\ UNCHANGED <<node, parts, saved, crashes, forgot>>

-----------------------------------------------------------------------------

SavedAhead == [sync EXCEPT !.height = @ + 1]   \* Faulty variant: one too many.
\* What SyncState::save writes.
Saved == sync

Save ==
  /\ at = "save" /\ GoTo("poll")
  /\ \/ saved' = Saved /\ UNCHANGED <<errors, forgot>>
     \/ /\ saved' \in {saved, Saved} /\ Fail
        /\ forgot' = (forgot \/ saved'.height > sync.height)
  /\ UNCHANGED <<node, tables, sync, crashes>>

Crash ==
  /\ at # "load" /\ crashes < MaxCrashes /\ crashes' = crashes + 1
  /\ sync' = Default /\ at' = "load" /\ next' = 0 /\ end' = 0 /\ blk' = None /\ fork' = 0 /\ done' = 0
  /\ UNCHANGED <<node, tables, saved, errors, forgot>>

Step == Load \/ Poll \/ Fetch \/ Upsert \/ Clear \/ Insert \/ Indexed \/ Unindex \/ Unrow \/ Save

Next == (\E b \in Block : Extend(b) \/ Switch(b)) \/ Step \/ Crash

\* The loop goes on as long as the process runs.
Spec == Init /\ [][Next]_vars /\ WF_vars(Step)

-----------------------------------------------------------------------------
(* Properties. *)

Position == [height : Heights \cup {0}, hash : Block \cup {None}]

\* A batch reaches no higher than the position it began from and Batch heights
\* on, whatever was rolled back in between.
TypeOK ==
  /\ named \in BOOLEAN /\ tip \in Block /\ left \subseteq Block /\ wild \in BOOLEAN
  /\ rows \in [Heights -> Block \cup {None}]
  /\ parts \in [Heights -> [Tables -> Block \cup {None}]]
  /\ saved \in Position /\ sync \in Position
  /\ at \in {"load", "poll", "fetch", "upsert", "clear", "insert", "unindex", "unrow", "save"}
  /\ at \in {"fetch", "upsert", "clear", "insert"} => next = sync.height + 1 /\ next \in 1..end
  /\ blk \in Block \cup {None} /\ fork \in Heights \cup {0} /\ done \in 0..Len(Detail)
  /\ errors \in 0..MaxErrors /\ crashes \in 0..MaxCrashes

\* The row and all details at height h are of one block of that height.
Whole(h) ==
  /\ rows[h] # None /\ Height[rows[h]] = h
  /\ \A t \in Tables : parts[h][t] = rows[h]

\* With the JSON of this repository's node, nothing is missing up to the
\* position and nothing is mixed of two blocks, whatever failed half way and
\* wherever the process went down: but where the loop went back behind the saved
\* position (a reset that was not saved, a start at which the row could not be
\* read), for the next crash brings the higher one back.
Complete == ~named /\ ~forgot => \A h \in 1..sync.height : Whole(h)

\* The types, and a complete index under this repository's node.
IndexSound == TypeOK /\ Complete

\* With a node that names hashes: while the last block indexed is on the node's
\* chain, the index up to it is that chain, and no rollback of it is under way.
\* A branch the node comes back to may have been rolled back by halves, one that
\* has become too short is, and a crash may bring back the position from before
\* a rollback.
IndexedBelow ==
  sync.hash # None /\ sync.hash \in Path[tip] /\ ~wild /\ crashes = 0
  => \A h \in 1..sync.height : Whole(h) /\ rows[h] = BlockAt(tip, h)

\* The index gets as high as the confirmed chain when the node and the faults
\* have come to rest: batches, retries and rollbacks come to an end.
IndexCatchesUp == <>[](sync.height >= Safe)

\* test_reorg_detection (sync_state.rs:98) takes a parent other than the last
\* block for a reorganization: then blocks that follow one another in the index
\* follow one another in the chain.  Not so with this repository's node.
RowsLinked == \A h \in 1..(sync.height - 1) : Parent[rows[h + 1]] = rows[h]

\* "Roll back data above `fork_height` on a chain reorg" (event_processor.rs:126),
\* "will resume from fork point" (service.rs:127): a rollback keeps the blocks
\* that are still on the node's chain.  It does not: the fork looked up is that
\* of the parent of a block on the new branch, of which the index has none.
RollbackKeeps ==
  [][\A h \in Heights : rows'[h] = None => rows[h] \notin Path[tip]]_vars
==============================================================================
