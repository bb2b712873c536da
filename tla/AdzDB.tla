-------------------------------- MODULE AdzDB --------------------------------
(***************************************************************************)
(* The other chain store, of builds with the feature adzdb: the database   *)
(* of adzdb/src/lib.rs and AdzdbChainState on top of it                    *)
(* (node/src/chain_adzdb.rs).                                              *)
(*                                                                         *)
(* Three files only ever grow, a fourth holds the metadata.  A file is     *)
(* what the operating system has of it, which outlives the process;        *)
(* `flushed` is what sync_all has brought to the disk.  A power loss keeps *)
(* what was flushed and any part of the rest, of each file on its own; the *)
(* last index record may be cut in the middle.  What follows such a record *)
(* is out of step with the 56 bytes a reader takes at a time and is lost.  *)
(*                                                                         *)
(* put runs behind the write lock, so there is one at a time.  Pruning,    *)
(* compaction and snapshots have no caller and are left out.  A block      *)
(* stands for its bytes.                                                   *)
(***************************************************************************)
EXTENDS BlockTree, Sequences

CONSTANTS
  Writer,      \* tasks that call store_block and update_best_chain
  Boot,        \* the task that opens the database
  MaxKills,    \* bound: how often the process may die
  MaxOutages,  \* bound: how often the power may fail
  Tears,       \* can a power loss cut an index record in two?
  NoBlock      \* an absent entry

ASSUME AdzDBAssumption ==
  /\ Boot \notin Writer
  /\ MaxKills \in Nat /\ MaxOutages \in Nat
  /\ Tears \in BOOLEAN
  /\ NoBlock \notin Block

VARIABLES
  made,      \* how many steps of Database::create are done
  disk,      \* the files: dat, idx, hgt, meta
  flushed,   \* as much of them as a power loss leaves
  mem,       \* hash_index, height_index and metadata in memory
  best,      \* best_height, best_hash, best_cumulative_work
  status,    \* of the process
  put,       \* the put that holds the write lock
  task,      \* task[t]: where a writer's call is, and with which block
  kills, outages,
  acked,     \* history: blocks put has returned Ok for
  durable,   \* history: blocks put has returned Ok for after writing them itself
  lost       \* history: has a power loss taken something?

files == <<made, disk, flushed>>
history == <<acked, durable, lost>>
bounds == <<kills, outages>>
vars == <<files, mem, best, status, put, task, bounds, history>>

Heights == {Height[b] : b \in Block}
Torn == [key |-> NoBlock, at |-> 0]
NoMeta == [height |-> 0, hash |-> NoBlock]
NoPut == [at |-> "none", blk |-> NoBlock, by |-> Boot]
Idle == [at |-> "idle", blk |-> NoBlock]
NoMem == [index |-> [b \in Block |-> 0], height |-> [h \in Heights |-> NoBlock],
          meta |-> NoMeta]
EmptyDisk == [dat |-> <<>>, idx |-> <<>>, hgt |-> <<>>, meta |-> NoMeta]
NoBest == [height |-> 0, hash |-> NoBlock, work |-> 0]
Created == 5

Last(s) == s[Len(s)]

\* get: the bytes at the offset the index names, if the data file reaches there.
Reads(b) ==
  LET at == mem.index[b] IN IF at \in 1..Len(disk.dat) THEN disk.dat[at] ELSE NoBlock

\* The blocks that can be read back as what was stored.
Readable == {b \in Block : Reads(b) = b}

Meta == [height : Heights, hash : Block \cup {NoBlock}]
Disk ==
  [dat : Seq(Block), idx : Seq([key : Block \cup {NoBlock}, at : Nat]),
   hgt : Seq(Block), meta : Meta]

TypeOK ==
  /\ made \in 0..Created
  /\ disk \in Disk /\ flushed \in Disk
  /\ mem.index \in [Block -> Nat]
  /\ mem.height \in [Heights -> Block \cup {NoBlock}]
  /\ mem.meta \in Meta
  /\ best \in [height : Heights, hash : Block \cup {NoBlock}, work : Nat]
  /\ status \in {"down", "opening", "up", "failed"}
  /\ put \in [at : {"none", "data", "index", "height", "meta", "sync"},
              blk : Block \cup {NoBlock}, by : Writer \cup {Boot}]
  /\ task \in [Writer -> [at : {"idle", "put", "compare", "height", "hash", "work",
                                "to_height", "to_hash", "to_work", "flush"},
                          blk : Block \cup {NoBlock}]]
  /\ kills \in 0..MaxKills /\ outages \in 0..MaxOutages
  /\ durable \subseteq acked /\ acked \subseteq Block
  /\ lost \in BOOLEAN

Init ==
  /\ made = 0
  /\ disk = EmptyDisk /\ flushed = EmptyDisk
  /\ mem = NoMem
  /\ best = NoBest
  /\ status = "down"
  /\ put = NoPut
  /\ task = [t \in Writer |-> Idle]
  /\ kills = 0 /\ outages = 0
  /\ acked = {} /\ durable = {}
  /\ lost = FALSE

-----------------------------------------------------------------------------
(* Start-up: Database::open_or_create, then AdzdbChainState::new *)

\* Which of the two open_or_create calls depends on adzdb.meta (made = 4: it is
\* there but still empty, and cannot be opened).  create refuses when adzdb.idx
\* is there.  What create has made, Open then reads; it is empty.
OpenOrCreate ==
  /\ status = "down"
  /\ made < Created
  /\ IF made = 0 THEN made' = 1 /\ status' = "opening"
                 ELSE status' = "failed" /\ UNCHANGED made
  /\ UNCHANGED <<disk, flushed, mem, best, put, task, bounds, history>>

CreateNext ==
  /\ status = "opening" /\ made < Created
  /\ made' = made + 1
  /\ status' = IF made' = Created THEN "down" ELSE status
  /\ UNCHANGED <<disk, flushed, mem, best, put, task, bounds, history>>

\* load_hash_index and load_height_index: later entries win.
WholeRecords(idx) ==
  {i \in 1..Len(idx) : \A j \in 1..i : idx[j] # Torn}
LoadIndex(idx) ==
  [b \in Block |->
    LET own == {i \in WholeRecords(idx) : idx[i].key = b}
    IN IF own = {} THEN 0 ELSE idx[CHOOSE i \in own : \A j \in own : j <= i].at]
LoadHeights(hgt) ==
  [h \in Heights |->
    LET own == {i \in 1..Len(hgt) : Height[hgt[i]] = h}
    IN IF own = {} THEN NoBlock ELSE hgt[CHOOSE i \in own : \A j \in own : j <= i]]

Open ==
  /\ status = "down" /\ made = Created
  /\ mem' = [index |-> LoadIndex(disk.idx), height |-> LoadHeights(disk.hgt),
             meta |-> disk.meta]
  /\ status' = "opening"
  /\ UNCHANGED <<files, best, put, task, bounds, history>>

\* Σ work_score from tip down to genesis, 0 when a block does not load.
CumulativeWork(b) == IF Linked(b, Readable) THEN PathWork[b] ELSE 0

\* The genesis block is stored if height 0 has none, unless its hash is known.
StoreGenesis ==
  /\ status = "opening" /\ made = Created /\ put = NoPut
  /\ mem.height[0] = NoBlock /\ mem.index[Genesis] = 0
  /\ put' = [at |-> "data", blk |-> Genesis, by |-> Boot]
  /\ UNCHANGED <<files, mem, best, status, task, bounds, history>>

\* The tip is whatever the height index has at latest_height; it is an error
\* when that is nothing.
LoadTip ==
  LET h == mem.meta.height
      tip == IF h > 0 THEN mem.height[h] ELSE Genesis
  IN /\ status = "opening" /\ made = Created /\ put = NoPut
     /\ mem.height[0] # NoBlock \/ mem.index[Genesis] # 0
     /\ IF tip = NoBlock \/ mem.height[0] \notin {Genesis, NoBlock}
          THEN status' = "failed" /\ UNCHANGED best
          ELSE /\ status' = "up"
               /\ best' = [height |-> h, hash |-> tip, work |-> CumulativeWork(tip)]
     /\ UNCHANGED <<files, mem, put, task, bounds, history>>

-----------------------------------------------------------------------------
(* Database::put *)

\* latest_height and latest_hash.
MetaWith(m, b) == IF Height[b] > m.height THEN [height |-> Height[b], hash |-> b] ELSE m

WriteData ==
  /\ put.at = "data"
  /\ disk' = [disk EXCEPT !.dat = Append(@, put.blk)]
  /\ put' = [put EXCEPT !.at = "index"]
  /\ UNCHANGED <<made, flushed, mem, best, status, task, bounds, history>>

\* Faulty variant: the metadata go to the file before the height does.
WriteIndexAndMeta ==
  /\ put.at = "index"
  /\ disk' = [disk EXCEPT !.idx = Append(@, [key |-> put.blk, at |-> Len(disk.dat)]),
                         !.meta = MetaWith(@, put.blk)]
  /\ put' = [put EXCEPT !.at = "height"]
  /\ UNCHANGED <<made, flushed, mem, best, status, task, bounds, history>>

\* The offset is the end of the data file before the write.
WriteIndex ==
  /\ put.at = "index"
  /\ disk' = [disk EXCEPT !.idx = Append(@, [key |-> put.blk, at |-> Len(disk.dat)])]
  /\ put' = [put EXCEPT !.at = "height"]
  /\ UNCHANGED <<made, flushed, mem, best, status, task, bounds, history>>

WriteHeight ==
  /\ put.at = "height"
  /\ disk' = [disk EXCEPT !.hgt = Append(@, put.blk)]
  /\ put' = [put EXCEPT !.at = "meta"]
  /\ UNCHANGED <<made, flushed, mem, best, status, task, bounds, history>>

\* The indices in memory are updated, then sync writes the metadata.
WriteMeta ==
  LET b == put.blk
  IN /\ put.at = "meta"
     /\ mem' = [index |-> [mem.index EXCEPT ![b] = Last(disk.idx).at],
                height |-> [mem.height EXCEPT ![Height[b]] = b],
                meta |-> MetaWith(mem.meta, b)]
     /\ disk' = [disk EXCEPT !.meta = mem'.meta]
     /\ put' = [put EXCEPT !.at = "sync"]
     /\ UNCHANGED <<made, flushed, best, status, task, bounds, history>>

\* Faulty variant: the index is not brought to the disk.
SyncData ==
  /\ put.at = "sync"
  /\ flushed' = [disk EXCEPT !.idx = flushed.idx]
  /\ put' = NoPut
  /\ IF put.by = Boot THEN UNCHANGED task ELSE task' = [task EXCEPT ![put.by].at = "compare"]
  /\ acked' = acked \cup {put.blk}
  /\ durable' = durable \cup {put.blk}
  /\ UNCHANGED <<made, disk, mem, best, status, bounds, lost>>

\* sync_all of the four files; put returns.
Sync ==
  /\ put.at = "sync"
  /\ flushed' = disk
  /\ put' = NoPut
  /\ IF put.by = Boot THEN UNCHANGED task ELSE task' = [task EXCEPT ![put.by].at = "compare"]
  /\ acked' = acked \cup {put.blk}
  /\ durable' = durable \cup {put.blk}
  /\ UNCHANGED <<made, disk, mem, best, status, bounds, lost>>

-----------------------------------------------------------------------------
(* AdzdbChainState::store_block *)

\* A known hash is not written again.
Store(t, b) ==
  /\ status = "up" /\ task[t].at = "idle" /\ put = NoPut
  /\ b # Genesis /\ mem.index[Parent[b]] # 0
  /\ IF mem.index[b] # 0
       THEN /\ task' = [task EXCEPT ![t] = [at |-> "compare", blk |-> b]]
            /\ acked' = acked \cup {b}
            /\ UNCHANGED put
       ELSE /\ task' = [task EXCEPT ![t] = [at |-> "put", blk |-> b]]
            /\ put' = [at |-> "data", blk |-> b, by |-> t]
            /\ UNCHANGED acked
  /\ UNCHANGED <<files, mem, best, status, bounds, durable, lost>>

\* Any higher block becomes the best one.
Compare(t) ==
  /\ task[t].at = "compare"
  /\ task' = [task EXCEPT ![t] =
       IF Height[@.blk] > best.height THEN [@ EXCEPT !.at = "height"] ELSE Idle]
  /\ UNCHANGED <<files, mem, best, status, put, bounds, history>>

\* store_block and update_best_chain move height, hash and work one after the
\* other; the latter then writes the metadata again.
MoveHeight(t) ==
  /\ task[t].at \in {"height", "to_height"}
  /\ best' = [best EXCEPT !.height = Height[task[t].blk]]
  /\ task' = [task EXCEPT ![t].at = IF @ = "height" THEN "hash" ELSE "to_hash"]
  /\ UNCHANGED <<files, mem, status, put, bounds, history>>

MoveHash(t) ==
  /\ task[t].at \in {"hash", "to_hash"}
  /\ best' = [best EXCEPT !.hash = task[t].blk]
  /\ task' = [task EXCEPT ![t].at = IF @ = "hash" THEN "work" ELSE "to_work"]
  /\ UNCHANGED <<files, mem, status, put, bounds, history>>

\* Faulty variant: the block's work is added to the tip's.
MoveWorkOn(t) ==
  /\ task[t].at \in {"work", "to_work"} /\ put = NoPut
  /\ best' = [best EXCEPT !.work = @ + Work[task[t].blk]]
  /\ task' = [task EXCEPT ![t] = IF @.at = "work" THEN Idle ELSE [@ EXCEPT !.at = "flush"]]
  /\ UNCHANGED <<files, mem, status, put, bounds, history>>

\* The sum is taken behind the database's lock.
MoveWork(t) ==
  /\ task[t].at \in {"work", "to_work"} /\ put = NoPut
  /\ best' = [best EXCEPT !.work = CumulativeWork(task[t].blk)]
  /\ task' = [task EXCEPT ![t] = IF @.at = "work" THEN Idle ELSE [@ EXCEPT !.at = "flush"]]
  /\ UNCHANGED <<files, mem, status, put, bounds, history>>

\* update_best_chain, called for a branch the reorganization has stored.
UpdateBestChain(t, b) ==
  /\ status = "up" /\ task[t].at = "idle" /\ put = NoPut
  /\ \A a \in Path[b] : mem.index[a] # 0
  /\ task' = [task EXCEPT ![t] = [at |-> "to_height", blk |-> b]]
  /\ UNCHANGED <<files, mem, best, status, put, bounds, history>>

\* sync: the metadata written are those of the last put, not of the new tip.
Flush(t) ==
  /\ task[t].at = "flush" /\ put = NoPut
  /\ disk' = [disk EXCEPT !.meta = mem.meta]
  /\ flushed' = disk'
  /\ task' = [task EXCEPT ![t] = Idle]
  /\ UNCHANGED <<made, mem, best, status, put, bounds, history>>

-----------------------------------------------------------------------------
(* Failures *)

Die ==
  /\ mem' = NoMem /\ best' = NoBest /\ put' = NoPut
  /\ status' = "down"
  /\ task' = [t \in Writer |-> Idle]

Kill ==
  /\ status # "down"
  /\ kills < MaxKills
  /\ kills' = kills + 1
  /\ Die
  /\ UNCHANGED <<files, outages, history>>

Prefixes(old, new) == {SubSeq(new, 1, n) : n \in Len(old)..Len(new)}
TornOff(s, new) == IF Tears /\ Len(s) < Len(new) THEN {s, Append(s, Torn)} ELSE {s}

PowerLoss ==
  /\ outages < MaxOutages
  /\ outages' = outages + 1
  /\ \E dat \in Prefixes(flushed.dat, disk.dat), hgt \in Prefixes(flushed.hgt, disk.hgt),
        idx \in UNION {TornOff(s, disk.idx) : s \in Prefixes(flushed.idx, disk.idx)},
        meta \in {flushed.meta, disk.meta} :
       disk' = [dat |-> dat, idx |-> idx, hgt |-> hgt, meta |-> meta]
  /\ flushed' = disk'
  /\ lost' = (lost \/ disk' # disk)
  /\ Die
  /\ UNCHANGED <<made, kills, acked, durable>>

Next ==
  \/ OpenOrCreate \/ CreateNext \/ Open \/ StoreGenesis \/ LoadTip
  \/ WriteData \/ WriteIndex \/ WriteHeight \/ WriteMeta \/ Sync
  \/ \E t \in Writer :
       \/ \E b \in Block : Store(t, b) \/ UpdateBestChain(t, b)
       \/ Compare(t) \/ MoveHeight(t) \/ MoveHash(t) \/ MoveWork(t) \/ Flush(t)
  \/ Kill \/ PowerLoss

Spec == Init /\ [][Next]_vars

-----------------------------------------------------------------------------
(* Properties *)

\* A block put has written and synced can be read back, byte for byte, by every
\* later process, also after a power loss in the middle of later puts.
SyncedReadable == status = "up" => durable \subseteq Readable

\* A block put has returned Ok for, written or already known, can be read back
\* after any kills, as long as no power loss has taken anything.
AckedReadable == status = "up" /\ ~lost => acked \subseteq Readable

\* The types, and what was promised to a caller can be read.
PromisesKept == TypeOK /\ SyncedReadable /\ AckedReadable

\* Whatever kills interrupt, every process comes up with a tip whose branch can
\* be read down to the genesis block, and knows its work.
TipBacked ==
  status = "up" /\ ~lost =>
    /\ Linked(best.hash, Readable)
    /\ (\A t \in Writer : task[t].at = "idle") => best.work = PathWork[best.hash]

\* Once created, the database opens again after any kills: the metadata never
\* name a height the height index does not have.
OpensAgain == made = Created /\ ~lost => status # "failed"

\* A restart comes up at the height of the blocks put has returned Ok for: a
\* block whose put was interrupted is absent, and there to stay once it has been
\* synced again.  Not so: known by its hash, it is not written again.
HeightReached ==
  [][status = "opening" /\ status' = "up" => \A b \in acked : best'.height >= Height[b]]_vars
==============================================================================
