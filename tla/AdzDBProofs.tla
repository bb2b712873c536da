----------------------------- MODULE AdzDBProofs -----------------------------
(***************************************************************************)
(* Theorems about AdzDB for every block tree, any number of writers, kills *)
(* and power losses.  What each one rests on is in its statement: that no  *)
(* index record is torn, or that nothing was lost, or one writer.          *)
(***************************************************************************)
EXTENDS AdzDB, BlockTreeProofs

(* The inductive invariant. *)

\* The database is open, or being opened, with the indices in memory.
Running == made = Created /\ status \in {"opening", "up"}

Records == 1..Len(disk.idx)
Recorded(b) == \E i \in Records : disk.idx[i].key = b
Known(b) == mem.index[b] # 0

\* Calls are made by a process that is up, and have their block.
CallsWell ==
  /\ put.at # "none" => Running /\ put.blk \in Block
  /\ put.at # "none" /\ put.by \in Writer =>
       task[put.by] = [at |-> "put", blk |-> put.blk] /\ status = "up"
  /\ \A t \in Writer : task[t].at # "idle" => status = "up" /\ task[t].blk \in Block
  /\ status = "up" => made = Created
  /\ put.at \in {"height", "meta"} => Len(disk.idx) > 0

\* Between index record and memory update the block is on disk only.
Hidden(b) == put.at \in {"height", "meta"} /\ put.blk = b

\* Nothing tore a record.
Whole == ~ Tears \/ ~ lost

\* Each block has one index record at most, and memory has what the records say.
IndexWell ==
  /\ \A i \in Records : disk.idx[i].key \in Block /\ disk.idx[i].at # 0
  /\ \A i, j \in Records : disk.idx[i].key = disk.idx[j].key => i = j
  /\ Running =>
       /\ \A i \in Records : ~ Hidden(disk.idx[i].key) => mem.index[disk.idx[i].key] = disk.idx[i].at
       /\ \A b \in Block : Known(b) => Recorded(b) /\ ~ Hidden(b)

\* What the put under way has written so far is the last of each file.
PutWell ==
  /\ put.at \in {"data", "index"} => ~ Recorded(put.blk)
  /\ put.at \in {"index", "height", "meta", "sync"} =>
       Len(disk.dat) > 0 /\ Last(disk.dat) = put.blk
  /\ put.at \in {"height", "meta", "sync"} =>
       Len(disk.idx) > 0 /\ Last(disk.idx) = [key |-> put.blk, at |-> Len(disk.dat)]

WholeInv == Whole => IndexWell /\ PutWell

Begins(s, t) == Len(s) <= Len(t) /\ \A i \in 1..Len(s) : s[i] = t[i]

\* The files hold a record of b and the bytes it names.
Holds(dat, idx, b) ==
  \E i \in 1..Len(idx) : idx[i].key = b /\ idx[i].at \in 1..Len(dat) /\ dat[idx[i].at] = b

\* What was synced has its record and its bytes where a power loss leaves them.
DurableInv ==
  ~ Tears =>
    /\ Begins(flushed.dat, disk.dat) /\ Begins(flushed.idx, disk.idx)
    /\ \A b \in durable : Holds(flushed.dat, flushed.idx, b)
    /\ put.at # "none" => put.blk \notin durable

\* Until something is lost: every record has its bytes, with every block its
\* ancestors are recorded, and the metadata name a height the file has.
FilesWell ==
  /\ \A i \in Records : disk.idx[i].at \in 1..Len(disk.dat)
                        /\ disk.dat[disk.idx[i].at] = disk.idx[i].key
  /\ \A i \in Records : \A a \in Path[disk.idx[i].key] : Recorded(a)
  /\ \A i \in 1..Len(disk.hgt) : Recorded(disk.hgt[i])
  /\ disk.meta.height # 0 =>
       \E i \in 1..Len(disk.hgt) : Height[disk.hgt[i]] = disk.meta.height
  /\ put.at = "meta" => \E i \in 1..Len(disk.hgt) : disk.hgt[i] = put.blk
  /\ \A b \in acked : Recorded(b)
  /\ put.at # "none" => put.blk \notin acked

\* The whole branch is in the index in memory.
Backed(b) == b \in Block /\ \A a \in Path[b] : Known(a)

MemoryWell ==
  Running =>
    /\ \A b \in Block : Known(b) => Backed(b)
    /\ put.at # "none" => \A a \in Path[put.blk] : a = put.blk \/ Known(a)
    /\ \A h \in Heights : mem.height[h] # NoBlock =>
         Known(mem.height[h]) /\ Height[mem.height[h]] = h
    /\ mem.meta = disk.meta
    /\ mem.meta.height # 0 => mem.height[mem.meta.height] # NoBlock

CallsBacked ==
  /\ status = "up" => Backed(best.hash)
  /\ \A t \in Writer : task[t].at \notin {"idle", "put"} => Backed(task[t].blk)

IntactInv ==
  ~ lost => FilesWell /\ MemoryWell /\ CallsBacked /\ (made = Created => status # "failed")

\* With one writer, best_hash and best_cumulative_work go together but for the
\* steps between them.
OneWriter == \A t, u \in Writer : t = u
WorkInv ==
  OneWriter /\ ~ lost /\ status = "up" =>
    /\ \A t \in Writer : task[t].at \in {"work", "to_work"} => best.hash = task[t].blk
    /\ \/ best.work = PathWork[best.hash]
       \/ \E t \in Writer : task[t].at \in {"hash", "to_hash", "work", "to_work"}

AdzInv == TypeOK /\ CallsWell /\ WholeInv /\ DurableInv /\ IntactInv /\ WorkInv

-----------------------------------------------------------------------------
(* Facts about the files. *)

\* What a power loss leaves of a file.
LEMMA PrefixFacts ==
  ASSUME NEW S, NEW s \in Seq(S), NEW t \in Seq(S), NEW p \in Prefixes(s, t)
  PROVE  p \in Seq(S) /\ Len(s) <= Len(p) /\ Begins(p, t)
<1>1. PICK n \in Len(s)..Len(t) : p = SubSeq(t, 1, n)
  BY DEF Prefixes
<1>2. n \in 0..Len(t) /\ Len(s) <= n
  BY <1>1
<1>3. p \in Seq(S) /\ Len(p) = n /\ \A i \in 1..n : p[i] = t[i]
  BY <1>1, <1>2
<1> QED BY <1>2, <1>3 DEF Begins

\* The same of the index file, the last record of which may be torn.
LEMMA IndexPrefixFacts ==
  ASSUME NEW S, Torn \in S, NEW s \in Seq(S), NEW t \in Seq(S),
         NEW p \in UNION {TornOff(q, t) : q \in Prefixes(s, t)}
  PROVE  p \in Seq(S) /\ (~ Tears => Len(s) <= Len(p) /\ Begins(p, t))
<1>1. PICK q \in Prefixes(s, t) : p \in TornOff(q, t)
  OBVIOUS
<1>2. q \in Seq(S) /\ Len(s) <= Len(q) /\ Begins(q, t)
  BY PrefixFacts
<1>3. p = q \/ (Tears /\ p = Append(q, Torn))
  BY <1>1 DEF TornOff
<1> HIDE DEF Torn
<1> QED BY <1>2, <1>3

\* Of the entries of a file that match there is a last one.
LEMMA LastExists ==
  ASSUME NEW n \in Nat, NEW own \in SUBSET (1..n), own # {}
  PROVE  \E i \in own : \A j \in own : j <= i
<1> DEFINE gaps == {n - i : i \in own}
<1>1. gaps \in SUBSET Nat /\ gaps # {}
  <2>1. ASSUME NEW i \in own PROVE n - i \in Nat
    <3>1. i \in 1..n
      OBVIOUS
    <3> QED BY <3>1
  <2> QED BY <2>1
<1>2. PICK m \in gaps : \A k \in gaps : m <= k
  BY <1>1, LeastExists
<1>3. PICK i \in own : m = n - i
  BY <1>2
<1>4. ASSUME NEW j \in own PROVE j <= i
  <2>1. n - j \in gaps
    BY <1>4
  <2>2. n - i <= n - j
    BY <1>2, <1>3, <2>1
  <2> QED BY <2>2
<1> QED BY <1>4

\* A file whose records are of different blocks loads as it stands.
LEMMA LoadIndexFacts ==
  ASSUME NEW idx \in Seq([key : Block \cup {NoBlock}, at : Nat]),
         \A i \in 1..Len(idx) : idx[i].key \in Block,
         \A i, j \in 1..Len(idx) : idx[i].key = idx[j].key => i = j
  PROVE  /\ \A i \in 1..Len(idx) : LoadIndex(idx)[idx[i].key] = idx[i].at
         /\ \A b \in Block : LoadIndex(idx)[b] # 0 => \E i \in 1..Len(idx) : idx[i].key = b
<1>1. WholeRecords(idx) = 1..Len(idx)
  <2>1. \A i \in 1..Len(idx) : idx[i] # Torn
    BY AdzDBAssumption DEF Torn
  <2>2. \A i \in 1..Len(idx) : \A j \in 1..i : j \in 1..Len(idx)
    OBVIOUS
  <2> QED BY <2>1, <2>2 DEF WholeRecords
<1>2. ASSUME NEW i \in 1..Len(idx) PROVE LoadIndex(idx)[idx[i].key] = idx[i].at
  <2> DEFINE own == {k \in WholeRecords(idx) : idx[k].key = idx[i].key}
  <2>1. own = {i}
    BY <1>1
  <2>2. (CHOOSE k \in own : \A m \in own : m <= k) = i
    BY <2>1
  <2>3. idx[i].key \in Block
    OBVIOUS
  <2> QED BY <2>1, <2>2, <2>3 DEF LoadIndex
<1>3. ASSUME NEW b \in Block, LoadIndex(idx)[b] # 0 PROVE \E i \in 1..Len(idx) : idx[i].key = b
  BY <1>1, <1>3 DEF LoadIndex
<1> QED BY <1>2, <1>3

\* The height index names blocks of the file, each at its height.
LEMMA LoadHeightsFacts ==
  ASSUME NEW hgt \in Seq(Block), NEW h \in Heights
  PROVE  /\ LoadHeights(hgt)[h] # NoBlock =>
              \E i \in 1..Len(hgt) : LoadHeights(hgt)[h] = hgt[i] /\ Height[hgt[i]] = h
         /\ (\E i \in 1..Len(hgt) : Height[hgt[i]] = h) =>
              LoadHeights(hgt)[h] \in Block /\ LoadHeights(hgt)[h] # NoBlock
<1> DEFINE own == {i \in 1..Len(hgt) : Height[hgt[i]] = h}
<1>1. CASE own = {}
  BY <1>1 DEF LoadHeights
<1>2. CASE own # {}
  <2>1. \E i \in own : \A j \in own : j <= i
    <3>1. own \in SUBSET (1..Len(hgt)) /\ Len(hgt) \in Nat
      OBVIOUS
    <3> HIDE DEF own
    <3> QED BY <1>2, <3>1, LastExists
  <2> DEFINE i == CHOOSE k \in own : \A j \in own : j <= k
  <2>2. i \in own
    BY <2>1
  <2>3. LoadHeights(hgt)[h] = hgt[i]
    BY <1>2 DEF LoadHeights
  <2> HIDE DEF i
  <2> QED BY <2>2, <2>3, AdzDBAssumption
<1> QED BY <1>1, <1>2

\* Whatever the index file holds, every block gets a number.
LEMMA LoadIndexType ==
  ASSUME NEW idx \in Seq([key : Block \cup {NoBlock}, at : Nat])
  PROVE  LoadIndex(idx) \in [Block -> Nat]
<1>1. ASSUME NEW b \in Block PROVE LoadIndex(idx)[b] \in Nat
  <2> DEFINE own == {i \in WholeRecords(idx) : idx[i].key = b}
  <2>1. CASE own = {}
    BY <2>1 DEF LoadIndex
  <2>2. CASE own # {}
    <3>1. own \in SUBSET (1..Len(idx)) /\ Len(idx) \in Nat
      BY DEF WholeRecords
    <3>2. \E i \in own : \A j \in own : j <= i
      BY <2>2, <3>1, LastExists
    <3> DEFINE i == CHOOSE k \in own : \A j \in own : j <= k
    <3>3. i \in own
      BY <3>2
    <3>4. LoadIndex(idx)[b] = idx[i].at
      BY <2>2 DEF LoadIndex
    <3> HIDE DEF i
    <3>5. i \in 1..Len(idx)
      BY <3>1, <3>3
    <3> DEFINE Record == [key : Block \cup {NoBlock}, at : Nat]
    <3>6. \A r \in Record : r.at \in Nat
      OBVIOUS
    <3>7. idx \in Seq(Record)
      OBVIOUS
    <3> HIDE DEF Record
    <3>8. idx[i] \in Record
      BY <3>5, <3>7
    <3> QED BY <3>4, <3>6, <3>8
  <2> QED BY <2>1, <2>2
<1> QED BY <1>1 DEF LoadIndex

-----------------------------------------------------------------------------
(* Types and calls. *)

\* The tree, as these proofs use it.
LEMMA TreeFacts ==
  /\ Genesis \in Block /\ NoBlock \notin Block /\ Boot \notin Writer
  /\ \A b \in Block :
       /\ Height[b] \in Heights /\ Height[b] \in Nat /\ PathWork[b] \in Nat
       /\ b # Genesis => Height[b] > 0
  /\ Heights \subseteq Nat /\ 0 \in Heights /\ Height[Genesis] = 0
<1>1. ASSUME NEW b \in Block, b # Genesis PROVE Height[b] > 0
  BY <1>1, BlockTreeAssumption
<1>2. 0 \in Heights
  BY BlockTreeAssumption DEF Heights
<1> QED BY <1>1, <1>2, BlockTreeAssumption, AdzDBAssumption DEF Heights

\* MetaWith keeps the type of the metadata.
LEMMA MetaType ==
  ASSUME NEW m \in Meta, NEW b \in Block
  PROVE  MetaWith(m, b) \in Meta
BY TreeFacts DEF Meta, MetaWith

\* The types hold initially and every step keeps them.
LEMMA TypeInit == Init => TypeOK /\ CallsWell
<1> SUFFICES ASSUME Init PROVE TypeOK /\ CallsWell
  OBVIOUS
<1>1. EmptyDisk \in Disk
  BY TreeFacts DEF EmptyDisk, Disk, Meta, NoMeta
<1>2. NoMem.index \in [Block -> Nat] /\ NoMem.height \in [Heights -> Block \cup {NoBlock}]
      /\ NoMem.meta \in Meta
  BY TreeFacts DEF NoMem, NoMeta, Meta
<1>3. best \in [height : Heights, hash : Block \cup {NoBlock}, work : Nat]
  BY TreeFacts DEF Init, NoBest
<1>4. put \in [at : {"none", "data", "index", "height", "meta", "sync"},
               blk : Block \cup {NoBlock}, by : Writer \cup {Boot}]
  BY DEF Init, NoPut
<1>5. task \in [Writer -> [at : {"idle", "put", "compare", "height", "hash", "work",
                                "to_height", "to_hash", "to_work", "flush"},
                           blk : Block \cup {NoBlock}]]
  BY DEF Init, Idle
<1>6. TypeOK
  <2>1. made \in 0..Created /\ kills \in 0..MaxKills /\ outages \in 0..MaxOutages
    BY AdzDBAssumption DEF Init, Created
  <2>2. disk \in Disk /\ flushed \in Disk
    BY <1>1 DEF Init
  <2>3. mem = NoMem /\ status = "down" /\ durable = {} /\ acked = {} /\ lost = FALSE
    BY DEF Init
  <2> QED BY <1>2, <1>3, <1>4, <1>5, <2>1, <2>2, <2>3 DEF TypeOK
<1>7. CallsWell
  BY DEF Init, CallsWell, NoPut, Idle
<1> QED BY <1>6, <1>7

\* A file of the disk takes another record of its kind.
LEMMA DiskFacts ==
  ASSUME NEW d \in Disk
  PROVE  /\ d.dat \in Seq(Block) /\ d.hgt \in Seq(Block) /\ d.meta \in Meta
         /\ d.idx \in Seq([key : Block \cup {NoBlock}, at : Nat])
         /\ \A b \in Block :
              /\ [d EXCEPT !.dat = Append(@, b)] \in Disk
              /\ [d EXCEPT !.hgt = Append(@, b)] \in Disk
              /\ \A n \in Nat : [d EXCEPT !.idx = Append(@, [key |-> b, at |-> n])] \in Disk
         /\ \A m \in Meta : [d EXCEPT !.meta = m] \in Disk
         /\ Len(d.idx) > 0 => Last(d.idx) \in [key : Block \cup {NoBlock}, at : Nat]
         /\ Len(d.dat) \in Nat
<1> DEFINE Record == [key : Block \cup {NoBlock}, at : Nat]
<1>1. d.dat \in Seq(Block) /\ d.hgt \in Seq(Block) /\ d.meta \in Meta /\ d.idx \in Seq(Record)
  BY DEF Disk
<1>2. ASSUME NEW b \in Block
      PROVE  /\ Append(d.dat, b) \in Seq(Block) /\ Append(d.hgt, b) \in Seq(Block)
             /\ \A n \in Nat : Append(d.idx, [key |-> b, at |-> n]) \in Seq(Record)
  <2>1. \A n \in Nat : [key |-> b, at |-> n] \in Record
    OBVIOUS
  <2> HIDE DEF Record
  <2> QED BY <1>1, <2>1
<1>3. Len(d.idx) > 0 => Last(d.idx) \in Record
  <2> HIDE DEF Record
  <2> QED BY <1>1 DEF Last
<1>4. Len(d.dat) \in Nat
  BY <1>1
<1> QED BY <1>1, <1>2, <1>3, <1>4 DEF Disk

LEMMA TypeStep == TypeOK /\ CallsWell /\ [Next]_vars => TypeOK'
<1> SUFFICES ASSUME TypeOK, CallsWell, [Next]_vars PROVE TypeOK'
  OBVIOUS
<1> USE TreeFacts
<1>a. CASE OpenOrCreate \/ CreateNext
  BY <1>a DEF TypeOK, OpenOrCreate, CreateNext, Created, bounds, history
<1>b. CASE Open
  <2>1. mem'.index \in [Block -> Nat]
    BY <1>b, LoadIndexType DEF TypeOK, Open, Disk
  <2>2. mem'.height \in [Heights -> Block \cup {NoBlock}]
    <3>1. ASSUME NEW h \in Heights PROVE LoadHeights(disk.hgt)[h] \in Block \cup {NoBlock}
      <4>1. disk.hgt \in Seq(Block)
        BY DEF TypeOK, Disk
      <4>2. CASE LoadHeights(disk.hgt)[h] = NoBlock
        BY <4>2
      <4>3. CASE LoadHeights(disk.hgt)[h] # NoBlock
        <5>1. PICK i \in 1..Len(disk.hgt) : LoadHeights(disk.hgt)[h] = disk.hgt[i]
          BY <4>1, <4>3, LoadHeightsFacts
        <5> QED BY <4>1, <5>1
      <4> QED BY <4>2, <4>3
    <3> QED BY <1>b, <3>1 DEF Open, LoadHeights
  <2> QED BY <1>b, <2>1, <2>2 DEF TypeOK, Open, Disk, bounds, history, files
<1>c. CASE StoreGenesis
  BY <1>c DEF TypeOK, StoreGenesis, bounds, history, files
<1>d. CASE LoadTip
  <2> DEFINE h == mem.meta.height
             tip == IF h > 0 THEN mem.height[h] ELSE Genesis
  <2>1. h \in Heights /\ tip \in Block \cup {NoBlock}
    BY DEF TypeOK, Meta
  <2>2. tip # NoBlock => CumulativeWork(tip) \in Nat
    BY <2>1 DEF CumulativeWork
  <2>3. best' = best \/ (tip # NoBlock /\ best' = [height |-> h, hash |-> tip, work |-> CumulativeWork(tip)])
    BY <1>d DEF LoadTip
  <2>4. best' \in [height : Heights, hash : Block \cup {NoBlock}, work : Nat]
    BY <2>1, <2>2, <2>3 DEF TypeOK
  <2> QED BY <1>d, <2>4 DEF TypeOK, LoadTip, bounds, history, files
<1>e. CASE WriteData
  <2>1. put.blk \in Block
    BY <1>e DEF CallsWell, WriteData
  <2>2. disk' \in Disk
    BY <1>e, <2>1, DiskFacts DEF TypeOK, WriteData
  <2> QED BY <1>e, <2>2 DEF TypeOK, WriteData, bounds, history
<1>f. CASE WriteIndex
  <2>1. put.blk \in Block
    BY <1>f DEF CallsWell, WriteIndex
  <2>2. disk' \in Disk
    BY <1>f, <2>1, DiskFacts DEF TypeOK, WriteIndex
  <2> QED BY <1>f, <2>2 DEF TypeOK, WriteIndex, bounds, history
<1>g. CASE WriteHeight
  <2>1. put.blk \in Block
    BY <1>g DEF CallsWell, WriteHeight
  <2>2. disk' \in Disk
    BY <1>g, <2>1, DiskFacts DEF TypeOK, WriteHeight
  <2> QED BY <1>g, <2>2 DEF TypeOK, WriteHeight, bounds, history
<1>h. CASE WriteMeta
  <2>1. put.blk \in Block /\ Len(disk.idx) > 0
    BY <1>h DEF CallsWell, WriteMeta
  <2>2. Last(disk.idx).at \in Nat
    BY <2>1, DiskFacts DEF TypeOK
  <2>3. MetaWith(mem.meta, put.blk) \in Meta
    BY <2>1, MetaType DEF TypeOK
  <2>4. disk' \in Disk
    BY <1>h, <2>3, DiskFacts DEF TypeOK, WriteMeta
  <2> QED BY <1>h, <2>1, <2>2, <2>3, <2>4 DEF TypeOK, WriteMeta, bounds, history
<1>i. CASE Sync
  <2>1. put.blk \in Block
    BY <1>i DEF CallsWell, Sync
  <2> QED BY <1>i, <2>1 DEF TypeOK, Sync, NoPut, bounds, history
<1>j. ASSUME NEW t \in Writer, NEW b \in Block, Store(t, b) \/ UpdateBestChain(t, b) PROVE TypeOK'
  BY <1>j DEF TypeOK, Store, UpdateBestChain, files, bounds, history
<1>k. ASSUME NEW t \in Writer, Compare(t) \/ MoveHeight(t) \/ MoveHash(t) PROVE TypeOK'
  <2>1. CASE Compare(t)
    BY <2>1 DEF TypeOK, Compare, Idle, files, bounds, history
  <2>2. CASE MoveHeight(t)
    <3>1. task[t].blk \in Block
      BY <2>2 DEF CallsWell, MoveHeight
    <3> QED BY <2>2, <3>1 DEF TypeOK, MoveHeight, files, bounds, history
  <2>3. CASE MoveHash(t)
    <3>1. task[t].blk \in Block
      BY <2>3 DEF CallsWell, MoveHash
    <3> QED BY <2>3, <3>1 DEF TypeOK, MoveHash, files, bounds, history
  <2> QED BY <1>k, <2>1, <2>2, <2>3
<1>l. ASSUME NEW t \in Writer, MoveWork(t) PROVE TypeOK'
  <2>1. task[t].blk \in Block
    BY <1>l DEF CallsWell, MoveWork
  <2>2. CumulativeWork(task[t].blk) \in Nat
    BY <2>1 DEF CumulativeWork
  <2> QED BY <1>l, <2>1, <2>2 DEF TypeOK, MoveWork, Idle, files, bounds, history
<1>m. ASSUME NEW t \in Writer, Flush(t) PROVE TypeOK'
  BY <1>m DEF TypeOK, Flush, Disk, Idle, bounds, history
<1>n. CASE Kill \/ PowerLoss
  <2>1. mem' = NoMem /\ best' = NoBest /\ put' = NoPut /\ status' = "down"
        /\ task' = [t \in Writer |-> Idle] /\ made' = made /\ acked' = acked /\ durable' = durable
    BY <1>n DEF Kill, PowerLoss, Die, files, history
  <2>2. kills' \in 0..MaxKills /\ outages' \in 0..MaxOutages
    BY <1>n, AdzDBAssumption DEF Kill, PowerLoss, TypeOK
  <2>3. disk' \in Disk /\ flushed' \in Disk /\ lost' \in BOOLEAN
    <3>1. CASE Kill
      BY <3>1 DEF Kill, TypeOK, files, history
    <3>2. CASE PowerLoss
      <4>1. PICK dat \in Prefixes(flushed.dat, disk.dat), hgt \in Prefixes(flushed.hgt, disk.hgt),
                 idx \in UNION {TornOff(s, disk.idx) : s \in Prefixes(flushed.idx, disk.idx)},
                 meta \in {flushed.meta, disk.meta} :
              disk' = [dat |-> dat, idx |-> idx, hgt |-> hgt, meta |-> meta]
        BY <3>2 DEF PowerLoss
      <4>2. dat \in Seq(Block) /\ hgt \in Seq(Block)
        BY PrefixFacts DEF TypeOK, Disk
      <4>3. Torn \in [key : Block \cup {NoBlock}, at : Nat]
        BY DEF Torn
      <4>4. idx \in Seq([key : Block \cup {NoBlock}, at : Nat])
        <5>1. flushed.idx \in Seq([key : Block \cup {NoBlock}, at : Nat])
              /\ disk.idx \in Seq([key : Block \cup {NoBlock}, at : Nat])
          BY DEF TypeOK, Disk
        <5> QED BY ZenonT(30), <4>3, <5>1, IndexPrefixFacts
      <4> QED BY <3>2, <4>1, <4>2, <4>4 DEF TypeOK, Disk, PowerLoss
    <3> QED BY <1>n, <3>1, <3>2
  <2> QED BY <2>1, <2>2, <2>3 DEF TypeOK, NoMem, NoMeta, NoBest, NoPut, Idle, Meta
<1>o. CASE UNCHANGED vars
  BY <1>o DEF TypeOK, vars, files, bounds, history
<1> QED BY <1>a, <1>b, <1>c, <1>d, <1>e, <1>f, <1>g, <1>h, <1>i, <1>j, <1>k, <1>l, <1>m, <1>n, <1>o
    DEF Next

LEMMA CallsStep == TypeOK /\ CallsWell /\ [Next]_vars => CallsWell'
<1> SUFFICES ASSUME TypeOK, CallsWell, [Next]_vars PROVE CallsWell'
  OBVIOUS
<1> USE TreeFacts DEF CallsWell, Running
<1>0. put \in [at : {"none", "data", "index", "height", "meta", "sync"},
               blk : Block \cup {NoBlock}, by : Writer \cup {Boot}]
      /\ task \in [Writer -> [at : {"idle", "put", "compare", "height", "hash", "work",
                                    "to_height", "to_hash", "to_work", "flush"},
                              blk : Block \cup {NoBlock}]]
  BY DEF TypeOK
<1>a. CASE OpenOrCreate \/ CreateNext
  BY <1>a DEF OpenOrCreate, CreateNext, TypeOK, Created
<1>b. CASE Open
  BY <1>b DEF Open, files
<1>c. CASE StoreGenesis
  BY <1>c DEF StoreGenesis, files
<1>d. CASE LoadTip
  BY <1>d DEF LoadTip, files, NoPut
<1>e. CASE WriteData
  BY <1>0, <1>e DEF WriteData
<1>f. CASE WriteIndex
  <2>1. disk.idx \in Seq([key : Block \cup {NoBlock}, at : Nat])
    BY DiskFacts DEF TypeOK
  <2>2. Len(disk'.idx) > 0
    <3> DEFINE r == [key |-> put.blk, at |-> Len(disk.dat)]
    <3>1. disk'.idx = Append(disk.idx, r)
      BY <1>f DEF WriteIndex, TypeOK, Disk
    <3> HIDE DEF r
    <3> QED BY <2>1, <3>1
  <2> QED BY <1>0, <1>f, <2>2 DEF WriteIndex
<1>g. CASE WriteHeight
  BY <1>0, <1>g DEF WriteHeight
<1>h. CASE WriteMeta
  BY <1>0, <1>h DEF WriteMeta
<1>i. CASE Sync
  BY <1>0, <1>i DEF Sync, NoPut
<1>j. ASSUME NEW t \in Writer, NEW b \in Block, Store(t, b) \/ UpdateBestChain(t, b)
      PROVE  CallsWell'
  BY <1>0, <1>j DEF Store, UpdateBestChain, files
<1>k. ASSUME NEW t \in Writer, Compare(t) \/ MoveHeight(t) \/ MoveHash(t) \/ MoveWork(t)
      PROVE  CallsWell'
  <2>1. task[t].at \notin {"idle", "put"} /\ put' = put /\ status' = status /\ disk' = disk
        /\ made' = made
    BY <1>k DEF Compare, MoveHeight, MoveHash, MoveWork, files
  <2>2. \A u \in Writer : u # t => task'[u] = task[u]
    BY <1>0, <1>k DEF Compare, MoveHeight, MoveHash, MoveWork
  <2>3. task'[t] = Idle \/ task'[t].blk = task[t].blk
    BY <1>0, <1>k DEF Compare, MoveHeight, MoveHash, MoveWork
  <2> QED BY <1>0, <2>1, <2>2, <2>3 DEF Idle
<1>l. ASSUME NEW t \in Writer, Flush(t) PROVE CallsWell'
  BY <1>0, <1>l DEF Flush, Idle
<1>m. CASE Kill \/ PowerLoss
  BY <1>m DEF Kill, PowerLoss, Die, NoPut, Idle
<1>n. CASE UNCHANGED vars
  BY <1>n DEF vars, files
<1> QED BY <1>a, <1>b, <1>c, <1>d, <1>e, <1>f, <1>g, <1>h, <1>i, <1>j, <1>k, <1>l, <1>m, <1>n
    DEF Next

-----------------------------------------------------------------------------
(* The index. *)

\* What the lemmas below use of the types.
Record == [key : Block \cup {NoBlock}, at : Nat]
LEMMA TypeFacts ==
  ASSUME TypeOK
  PROVE  /\ disk.dat \in Seq(Block) /\ disk.idx \in Seq(Record) /\ disk.hgt \in Seq(Block)
         /\ disk.meta \in Meta
         /\ flushed.dat \in Seq(Block) /\ flushed.idx \in Seq(Record)
         /\ mem.index \in [Block -> Nat] /\ mem.height \in [Heights -> Block \cup {NoBlock}]
         /\ \A i \in Records : disk.idx[i].at \in Nat
         /\ Len(disk.dat) \in Nat /\ Len(disk.idx) \in Nat
<1>1. disk.dat \in Seq(Block) /\ disk.hgt \in Seq(Block) /\ disk.meta \in Meta
      /\ disk.idx \in Seq(Record) /\ flushed.dat \in Seq(Block) /\ flushed.idx \in Seq(Record)
  BY DiskFacts DEF TypeOK, Record
<1>2. \A r \in Record : r.at \in Nat
  BY DEF Record
<1>3. \A i \in Records : disk.idx[i] \in Record
  BY <1>1 DEF Records
<1>4. Len(disk.dat) \in Nat /\ Len(disk.idx) \in Nat
  BY <1>1
<1> QED BY <1>1, <1>2, <1>3, <1>4 DEF TypeOK

\* The steps of a process on the index: the rest leave index, put and bytes alone.
Still ==
  /\ disk'.dat = disk.dat /\ disk'.idx = disk.idx /\ disk'.hgt = disk.hgt
  /\ mem' = mem /\ put' = put /\ durable' = durable
  /\ (Running' => Running)
  /\ lost' = lost

\* Every step that is none of put's, a start or a failure is one of those.
LEMMA StillSteps ==
  ASSUME TypeOK, CallsWell,
         OpenOrCreate \/ CreateNext \/ LoadTip \/ UNCHANGED vars
         \/ \E t \in Writer : Compare(t) \/ MoveHeight(t) \/ MoveHash(t) \/ MoveWork(t) \/ Flush(t)
                              \/ \E b \in Block : UpdateBestChain(t, b)
  PROVE  Still /\ acked' = acked
<1> USE DEF Still, Running, files, history
<1>1. CASE OpenOrCreate \/ CreateNext
  BY <1>1 DEF OpenOrCreate, CreateNext, TypeOK, Created
<1>2. CASE LoadTip
  BY <1>2 DEF LoadTip
<1>3. CASE UNCHANGED vars
  BY <1>3 DEF vars
<1>4. ASSUME NEW t \in Writer, Compare(t) \/ MoveHeight(t) \/ MoveHash(t) \/ MoveWork(t)
                               \/ \E b \in Block : UpdateBestChain(t, b)
      PROVE  Still /\ acked' = acked
  BY <1>4 DEF Compare, MoveHeight, MoveHash, MoveWork, UpdateBestChain
<1>5. ASSUME NEW t \in Writer, Flush(t) PROVE Still /\ acked' = acked
  <2>1. disk' = [disk EXCEPT !.meta = mem.meta]
    BY <1>5 DEF Flush
  <2> QED BY <1>5, <2>1 DEF Flush, TypeOK, Disk
<1> QED BY <1>1, <1>2, <1>3, <1>4, <1>5

\* Each step of a put, as far as the files and the memory are concerned.
LEMMA PutSteps ==
  ASSUME TypeOK
  PROVE  /\ WriteData => /\ disk'.dat = Append(disk.dat, put.blk)
                         /\ disk'.idx = disk.idx /\ disk'.hgt = disk.hgt /\ disk'.meta = disk.meta
         /\ WriteIndex => /\ disk'.idx = Append(disk.idx, [key |-> put.blk, at |-> Len(disk.dat)])
                          /\ disk'.dat = disk.dat /\ disk'.hgt = disk.hgt /\ disk'.meta = disk.meta
         /\ WriteHeight => /\ disk'.hgt = Append(disk.hgt, put.blk)
                           /\ disk'.dat = disk.dat /\ disk'.idx = disk.idx /\ disk'.meta = disk.meta
         /\ WriteMeta => /\ disk'.dat = disk.dat /\ disk'.idx = disk.idx /\ disk'.hgt = disk.hgt
                         /\ disk'.meta = mem'.meta
         /\ WriteData \/ WriteIndex \/ WriteHeight =>
              put'.blk = put.blk /\ put'.by = put.by /\ mem' = mem /\ durable' = durable
              /\ acked' = acked /\ status' = status /\ made' = made /\ lost' = lost
              /\ flushed' = flushed
         /\ WriteData => put.at = "data" /\ put'.at = "index"
         /\ WriteIndex => put.at = "index" /\ put'.at = "height"
         /\ WriteHeight => put.at = "height" /\ put'.at = "meta"
         /\ WriteMeta => /\ put.at = "meta" /\ put'.at = "sync" /\ put'.blk = put.blk
                         /\ put'.by = put.by /\ flushed' = flushed /\ durable' = durable
                         /\ acked' = acked /\ status' = status /\ made' = made /\ lost' = lost
         /\ Sync => /\ put.at = "sync" /\ put' = NoPut /\ disk' = disk /\ mem' = mem
                    /\ status' = status /\ made' = made /\ lost' = lost
<1>1. disk = [dat |-> disk.dat, idx |-> disk.idx, hgt |-> disk.hgt, meta |-> disk.meta]
  BY DEF TypeOK, Disk
<1>2. put = [at |-> put.at, blk |-> put.blk, by |-> put.by]
  BY DEF TypeOK
<1> QED BY <1>1, <1>2
        DEF WriteData, WriteIndex, WriteHeight, WriteMeta, Sync, bounds, history, files

\* A start, or a failure: the put under way is gone, and memory is what was loaded.
LEMMA LoadSteps ==
  ASSUME TypeOK, CallsWell
  PROVE  /\ Open => /\ put' = put /\ put.at = "none" /\ Running'
                    /\ disk' = disk /\ flushed' = flushed /\ durable' = durable
                    /\ acked' = acked /\ lost' = lost
         /\ Kill \/ PowerLoss =>
              /\ put'.at = "none" /\ ~ Running' /\ status' = "down"
              /\ durable' = durable /\ acked' = acked /\ made' = made
              /\ (~ lost' => ~ lost /\ disk' = disk)
              /\ \A t \in Writer : task'[t].at = "idle"
         /\ Kill => flushed' = flushed /\ disk' = disk /\ lost' = lost
         /\ PowerLoss => flushed' = disk'
<1>1. Open => /\ put' = put /\ put.at = "none" /\ Running'
              /\ disk' = disk /\ flushed' = flushed /\ durable' = durable
              /\ acked' = acked /\ lost' = lost
  BY DEF Open, CallsWell, Running, files, history
<1>2. Kill => /\ put'.at = "none" /\ ~ Running' /\ status' = "down"
              /\ durable' = durable /\ acked' = acked /\ made' = made
              /\ flushed' = flushed /\ disk' = disk /\ lost' = lost
              /\ \A t \in Writer : task'[t].at = "idle"
  BY DEF Kill, Die, Running, NoPut, Idle, files, history
<1>3. PowerLoss => /\ put'.at = "none" /\ ~ Running' /\ status' = "down"
                   /\ durable' = durable /\ acked' = acked /\ made' = made
                   /\ (~ lost' => ~ lost /\ disk' = disk)
                   /\ \A t \in Writer : task'[t].at = "idle"
                   /\ flushed' = disk'
  <2>1. PowerLoss => lost' = (lost \/ disk' # disk)
    BY DEF PowerLoss
  <2>2. lost \in BOOLEAN
    BY DEF TypeOK
  <2>3. PowerLoss => (~ lost' => ~ lost /\ disk' = disk)
    BY <2>1, <2>2
  <2> QED BY <2>3 DEF PowerLoss, Die, Running, NoPut, Idle
<1> QED BY <1>1, <1>2, <1>3

\* The index keeps one record of each block, and memory keeps to it.
LEMMA WholeStep == TypeOK /\ CallsWell /\ WholeInv /\ [Next]_vars => WholeInv'
<1> SUFFICES ASSUME TypeOK, CallsWell, WholeInv, [Next]_vars PROVE WholeInv'
  OBVIOUS
<1>t. /\ TypeOK'
      /\ disk.dat \in Seq(Block) /\ disk.idx \in Seq(Record)
      /\ Len(disk.dat) \in Nat /\ Len(disk.idx) \in Nat
      /\ mem.index \in [Block -> Nat]
      /\ \A i \in Records : disk.idx[i].at \in Nat
      /\ CallsWell'
  BY TypeStep, CallsStep, TypeFacts
<1> USE DEF Records, Recorded, Known, Hidden
<1>a. CASE OpenOrCreate \/ CreateNext \/ LoadTip \/ UNCHANGED vars
           \/ \E t \in Writer : Compare(t) \/ MoveHeight(t) \/ MoveHash(t) \/ MoveWork(t) \/ Flush(t)
                                \/ \E b \in Block : UpdateBestChain(t, b)
  <2>1. Still
    BY <1>a, StillSteps
  <2> QED BY <2>1 DEF Still, WholeInv, Whole, IndexWell, PutWell
<1>b. CASE Open
  <2>1. /\ put' = put /\ put.at = "none" /\ disk' = disk /\ lost' = lost
        /\ mem'.index = LoadIndex(disk.idx)
    BY <1>b, LoadSteps DEF Open
  <2>2. ASSUME IndexWell
        PROVE  /\ \A i \in Records : mem'.index[disk.idx[i].key] = disk.idx[i].at
               /\ \A b \in Block : mem'.index[b] # 0 => Recorded(b)
    <3>1. \A i \in 1..Len(disk.idx) : disk.idx[i].key \in Block
      BY <2>2 DEF IndexWell
    <3>2. \A i, j \in 1..Len(disk.idx) : disk.idx[i].key = disk.idx[j].key => i = j
      BY <2>2 DEF IndexWell
    <3>3. disk.idx \in Seq([key : Block \cup {NoBlock}, at : Nat])
      BY <1>t DEF Record
    <3>4. /\ \A i \in 1..Len(disk.idx) : LoadIndex(disk.idx)[disk.idx[i].key] = disk.idx[i].at
          /\ \A b \in Block : LoadIndex(disk.idx)[b] # 0 =>
               \E i \in 1..Len(disk.idx) : disk.idx[i].key = b
      BY <3>1, <3>2, <3>3, LoadIndexFacts
    <3> QED BY <2>1, <3>4
  <2> QED BY <2>1, <2>2 DEF WholeInv, Whole, IndexWell, PutWell
<1>c. CASE StoreGenesis \/ \E t \in Writer, b \in Block : Store(t, b)
  <2>1. /\ disk' = disk /\ mem' = mem /\ lost' = lost /\ Running /\ put.at = "none"
        /\ \/ put' = put
           \/ put'.at = "data" /\ put'.blk \in Block /\ mem.index[put'.blk] = 0
    <3>1. CASE StoreGenesis
      BY <3>1, TreeFacts DEF StoreGenesis, Running, NoPut, files, history
    <3>2. ASSUME NEW t \in Writer, NEW b \in Block, Store(t, b)
          PROVE  /\ disk' = disk /\ mem' = mem /\ lost' = lost /\ Running /\ put.at = "none"
                 /\ \/ put' = put
                    \/ put'.at = "data" /\ put'.blk \in Block /\ mem.index[put'.blk] = 0
      BY <3>2 DEF Store, Running, CallsWell, NoPut, files
    <3> QED BY <1>c, <3>1, <3>2
  <2>2. ASSUME IndexWell, NEW b \in Block, mem.index[b] = 0 PROVE ~ Recorded(b)
    BY <1>t, <2>1, <2>2 DEF IndexWell
  <2>3. Running' => Running
    BY <2>1
  <2> QED BY <2>1, <2>2, <2>3 DEF WholeInv, Whole, IndexWell, PutWell
<1>d. CASE WriteData
  <2>1. /\ disk'.dat = Append(disk.dat, put.blk) /\ disk'.idx = disk.idx /\ mem' = mem
        /\ put.at = "data" /\ put'.at = "index" /\ put'.blk = put.blk /\ put.blk \in Block
        /\ (Running' <=> Running) /\ lost' = lost
    BY <1>d, PutSteps DEF Running, CallsWell
  <2>2. Len(disk'.dat) > 0 /\ Last(disk'.dat) = put.blk
    BY <1>t, <2>1 DEF Last
  <2> QED BY <2>1, <2>2 DEF WholeInv, Whole, IndexWell, PutWell
<1>e. CASE WriteIndex
  <2> DEFINE r == [key |-> put.blk, at |-> Len(disk.dat)]
  <2>1. /\ disk'.idx = Append(disk.idx, r) /\ disk'.dat = disk.dat /\ mem' = mem
        /\ put.at = "index" /\ put'.at = "height" /\ put'.blk = put.blk /\ put.blk \in Block
        /\ Running /\ (Running' <=> Running) /\ lost' = lost
    BY <1>e, PutSteps DEF Running, CallsWell
  <2>2. SUFFICES ASSUME Whole, IndexWell, PutWell PROVE IndexWell' /\ PutWell'
    BY <2>1 DEF WholeInv, Whole
  <2>3. /\ Len(disk'.idx) = Len(disk.idx) + 1 /\ disk'.idx[Len(disk.idx) + 1] = r
        /\ \A i \in Records : disk'.idx[i] = disk.idx[i]
        /\ r.key = put.blk /\ r.at = Len(disk.dat)
    BY <1>t, <2>1
  <2>4. \A i \in Records : disk.idx[i].key # put.blk
    BY <2>1, <2>2 DEF PutWell
  <2>5. Len(disk.dat) > 0 /\ Last(disk.dat) = put.blk
    BY <2>1, <2>2 DEF PutWell
  <2>6. Last(disk'.idx) = [key |-> put'.blk, at |-> Len(disk'.dat)] /\ Len(disk'.idx) > 0
    BY <1>t, <2>1, <2>3 DEF Last
  <2> HIDE DEF r
  <2>7. \A i \in Records' : i \in Records \/ i = Len(disk.idx) + 1
    BY <1>t, <2>3
  <2>8. \A i \in Records' : disk'.idx[i].key \in Block /\ disk'.idx[i].at # 0
    BY <1>t, <2>1, <2>2, <2>3, <2>5, <2>7 DEF IndexWell
  <2>9. \A i, j \in Records' : disk'.idx[i].key = disk'.idx[j].key => i = j
    <3>1. \A i, j \in Records : disk.idx[i].key = disk.idx[j].key => i = j
      BY <2>2 DEF IndexWell
    <3> QED BY <2>3, <2>4, <2>7, <3>1
  <2>10. \A i \in Records' : disk'.idx[i].key # put.blk =>
           mem'.index[disk'.idx[i].key] = disk'.idx[i].at
    <3>1. \A i \in Records : mem.index[disk.idx[i].key] = disk.idx[i].at
      BY <2>1, <2>2, <2>4 DEF IndexWell
    <3> QED BY <2>1, <2>3, <2>7, <3>1
  <2>11. ASSUME NEW b \in Block, Known(b)' PROVE Recorded(b)' /\ ~ Hidden(b)'
    <3>1. Recorded(b)
      BY <2>1, <2>2, <2>11 DEF IndexWell
    <3>2. Records \subseteq Records'
      BY <1>t, <2>3
    <3> QED BY <2>1, <2>3, <2>4, <3>1, <3>2
  <2>12. IndexWell'
    BY <2>1, <2>8, <2>9, <2>10, <2>11 DEF IndexWell
  <2> QED BY <2>1, <2>5, <2>6, <2>12 DEF PutWell
<1>f. CASE WriteHeight
  <2>1. /\ disk'.dat = disk.dat /\ disk'.idx = disk.idx /\ mem' = mem
        /\ put.at = "height" /\ put'.at = "meta" /\ put'.blk = put.blk
        /\ (Running' <=> Running) /\ lost' = lost
    BY <1>f, PutSteps DEF Running
  <2> QED BY <2>1 DEF WholeInv, Whole, IndexWell, PutWell
<1>g. CASE WriteMeta
  <2>1. /\ disk'.dat = disk.dat /\ disk'.idx = disk.idx
        /\ put.at = "meta" /\ put'.at = "sync" /\ put'.blk = put.blk /\ put.blk \in Block
        /\ Running /\ (Running' <=> Running) /\ lost' = lost
    BY <1>g, PutSteps DEF Running, CallsWell
  <2>2. mem'.index = [mem.index EXCEPT ![put.blk] = Last(disk.idx).at]
    BY <1>g DEF WriteMeta
  <2>3. SUFFICES ASSUME Whole, IndexWell, PutWell PROVE IndexWell' /\ PutWell'
    BY <2>1 DEF WholeInv, Whole
  <2>4. /\ Len(disk.idx) \in Records /\ disk.idx[Len(disk.idx)].key = put.blk
        /\ mem'.index[put.blk] = disk.idx[Len(disk.idx)].at
    BY <1>t, <2>1, <2>2, <2>3 DEF PutWell, Last
  <2>5. \A b \in Block \ {put.blk} : mem'.index[b] = mem.index[b]
    BY <1>t, <2>2
  <2>6. ASSUME NEW i \in Records PROVE mem'.index[disk.idx[i].key] = disk.idx[i].at
    <3>1. CASE disk.idx[i].key = put.blk
      <4>1. i = Len(disk.idx)
        BY <2>3, <2>4, <3>1 DEF IndexWell
      <4> QED BY <2>4, <4>1
    <3>2. CASE disk.idx[i].key # put.blk
      BY <2>1, <2>3, <2>5, <3>2 DEF IndexWell
    <3> QED BY <3>1, <3>2
  <2>7. ASSUME NEW b \in Block, mem'.index[b] # 0 PROVE Recorded(b)
    BY <2>1, <2>3, <2>4, <2>5, <2>7 DEF IndexWell
  <2>8. IndexWell'
    BY <2>1, <2>3, <2>6, <2>7 DEF IndexWell
  <2> QED BY <2>1, <2>3, <2>8 DEF PutWell
<1>h. CASE Sync
  <2>1. put.at = "sync" /\ put'.at = "none" /\ disk' = disk /\ mem' = mem
        /\ (Running' <=> Running) /\ lost' = lost
    BY <1>h, PutSteps DEF Running, NoPut
  <2> QED BY <2>1 DEF WholeInv, Whole, IndexWell, PutWell
<1>i. CASE Kill \/ PowerLoss
  <2>1. put'.at = "none" /\ ~ Running' /\ (~ lost' => ~ lost /\ disk' = disk)
    BY <1>i, LoadSteps
  <2>2. CASE disk' = disk
    BY <1>i, <2>1, <2>2, LoadSteps DEF WholeInv, Whole, IndexWell, PutWell
  <2>3. CASE disk' # disk /\ ~ Tears
    <3>1. PowerLoss
      BY <1>i, <2>3, LoadSteps
    <3>2. Begins(disk'.idx, disk.idx) /\ disk'.idx \in Seq(Record)
      <4>1. disk'.idx \in UNION {TornOff(s, disk.idx) : s \in Prefixes(flushed.idx, disk.idx)}
        BY <3>1 DEF PowerLoss
      <4>2. flushed.idx \in Seq(Record) /\ Torn \in Record
        BY TypeFacts DEF Record, Torn
      <4> QED BY <1>t, <2>3, <4>1, <4>2, IndexPrefixFacts
    <3>3. \A i \in Records' : i \in Records /\ disk'.idx[i] = disk.idx[i]
      BY <1>t, <3>2 DEF Begins
    <3>4. IndexWell
      BY <2>3 DEF WholeInv, Whole
    <3> QED BY <2>1, <3>3, <3>4 DEF WholeInv, Whole, IndexWell, PutWell
  <2> QED BY <2>1, <2>2, <2>3 DEF WholeInv, Whole
<1> QED BY <1>a, <1>b, <1>c, <1>d, <1>e, <1>f, <1>g, <1>h, <1>i DEF Next

-----------------------------------------------------------------------------
(* What was synced. *)

\* Files that begin with others hold what those hold.
LEMMA HoldsMore ==
  ASSUME NEW d1 \in Seq(Block), NEW d2 \in Seq(Block), NEW x1 \in Seq(Record), NEW x2 \in Seq(Record),
         Begins(d1, d2), Begins(x1, x2), NEW b, Holds(d1, x1, b)
  PROVE  Holds(d2, x2, b)
<1>1. PICK i \in 1..Len(x1) : x1[i].key = b /\ x1[i].at \in 1..Len(d1) /\ d1[x1[i].at] = b
  BY DEF Holds
<1>2. i \in 1..Len(x2) /\ x2[i] = x1[i] /\ \A k \in 1..Len(d1) : k \in 1..Len(d2) /\ d2[k] = d1[k]
  BY DEF Begins
<1> QED BY <1>1, <1>2 DEF Holds

\* A file begins with itself, and with what it was before a record was added.
LEMMA BeginsFacts ==
  ASSUME NEW S, NEW s \in Seq(S), NEW t \in Seq(S), Begins(s, t)
  PROVE  Begins(t, t) /\ \A e \in S : Begins(s, Append(t, e))
BY DEF Begins

\* A power loss leaves what was flushed at the beginning of each file.
LEMMA FlushedStays ==
  ASSUME NEW S, NEW s \in Seq(S), NEW t \in Seq(S), NEW p \in Seq(S),
         Begins(s, t), Len(s) <= Len(p), Begins(p, t)
  PROVE  Begins(s, p)
BY DEF Begins

\* Every step leaves what was synced where a power loss cannot take it.
LEMMA DurableStep ==
  TypeOK /\ CallsWell /\ WholeInv /\ DurableInv /\ [Next]_vars => DurableInv'
<1> SUFFICES ASSUME TypeOK, CallsWell, WholeInv, DurableInv, [Next]_vars, ~ Tears PROVE DurableInv'
  BY DEF DurableInv
<1>t. /\ disk.dat \in Seq(Block) /\ disk.idx \in Seq(Record)
      /\ flushed.dat \in Seq(Block) /\ flushed.idx \in Seq(Record)
      /\ Len(disk.dat) \in Nat /\ Len(disk.idx) \in Nat
      /\ disk'.dat \in Seq(Block) /\ disk'.idx \in Seq(Record)
      /\ mem.index \in [Block -> Nat]
  <2>1. TypeOK'
    BY TypeStep
  <2>2. disk' \in Disk
    BY <2>1 DEF TypeOK
  <2> QED BY <2>2, TypeFacts, DiskFacts DEF Record
<1>u. /\ Begins(flushed.dat, disk.dat) /\ Begins(flushed.idx, disk.idx)
      /\ (\A b \in durable : Holds(flushed.dat, flushed.idx, b))
      /\ (put.at # "none" => put.blk \notin durable)
      /\ IndexWell /\ PutWell
  BY DEF DurableInv, WholeInv, Whole
<1>v. \A b \in durable : Holds(disk.dat, disk.idx, b)
  BY <1>t, <1>u, HoldsMore
<1>w. Begins(disk.dat, disk.dat) /\ Begins(disk.idx, disk.idx)
  BY <1>t, <1>u, BeginsFacts
<1>a. CASE OpenOrCreate \/ CreateNext \/ LoadTip \/ UNCHANGED vars
           \/ \E t \in Writer : Compare(t) \/ MoveHeight(t) \/ MoveHash(t) \/ MoveWork(t) \/ Flush(t)
                                \/ \E b \in Block : UpdateBestChain(t, b)
  <2>1. Still
    BY <1>a, StillSteps
  <2>2. flushed' = flushed \/ flushed' = disk'
    BY <1>a DEF OpenOrCreate, CreateNext, LoadTip, Compare, MoveHeight, MoveHash, MoveWork, Flush,
                UpdateBestChain, vars, files
  <2> QED BY <1>u, <1>v, <1>w, <2>1, <2>2 DEF Still, DurableInv
<1>b. CASE Open
  <2>1. put' = put /\ disk' = disk /\ flushed' = flushed /\ durable' = durable
    BY <1>b, LoadSteps
  <2> QED BY <1>u, <2>1 DEF DurableInv
<1>c. CASE StoreGenesis \/ \E t \in Writer, b \in Block : Store(t, b)
  <2>1. /\ disk' = disk /\ flushed' = flushed /\ durable' = durable /\ Running /\ put.at = "none"
        /\ \/ put' = put
           \/ put'.blk \in Block /\ mem.index[put'.blk] = 0
    <3>1. CASE StoreGenesis
      BY <3>1, TreeFacts DEF StoreGenesis, Running, NoPut, files, history
    <3>2. ASSUME NEW t \in Writer, NEW b \in Block, Store(t, b)
          PROVE  /\ disk' = disk /\ flushed' = flushed /\ durable' = durable /\ Running
                 /\ put.at = "none"
                 /\ \/ put' = put
                    \/ put'.blk \in Block /\ mem.index[put'.blk] = 0
      BY <3>2 DEF Store, Running, CallsWell, NoPut, files
    <3> QED BY <1>c, <3>1, <3>2
  <2>2. ASSUME NEW b \in durable, mem.index[b] = 0 PROVE FALSE
    <3>1. PICK i \in 1..Len(disk.idx) : disk.idx[i].key = b
      BY <1>v DEF Holds
    <3>2. mem.index[b] = disk.idx[i].at /\ disk.idx[i].at # 0
      BY <1>u, <2>1, <3>1 DEF IndexWell, Records, Hidden
    <3> QED BY <2>2, <3>2
  <2> QED BY <1>u, <2>1, <2>2 DEF DurableInv
<1>d. CASE WriteData
  <2>1. /\ disk'.dat = Append(disk.dat, put.blk) /\ disk'.idx = disk.idx /\ put.blk \in Block
        /\ put.at = "data" /\ put'.blk = put.blk /\ durable' = durable /\ flushed' = flushed
    BY <1>d, PutSteps DEF CallsWell
  <2>2. Begins(flushed.dat, disk'.dat)
    BY <1>t, <1>u, <2>1, BeginsFacts
  <2> QED BY <1>u, <2>1, <2>2 DEF DurableInv
<1>e. CASE WriteIndex
  <2> DEFINE r == [key |-> put.blk, at |-> Len(disk.dat)]
  <2>1. /\ disk'.idx = Append(disk.idx, r) /\ disk'.dat = disk.dat /\ put.blk \in Block
        /\ put.at = "index" /\ put'.blk = put.blk /\ durable' = durable /\ flushed' = flushed
    BY <1>e, PutSteps DEF CallsWell
  <2>2. r \in Record
    BY <1>t, <2>1 DEF Record
  <2> HIDE DEF r
  <2>3. Begins(flushed.idx, disk'.idx)
    BY <1>t, <1>u, <2>1, <2>2, BeginsFacts
  <2> QED BY <1>u, <2>1, <2>3 DEF DurableInv
<1>f. CASE WriteHeight \/ WriteMeta
  <2>1. /\ disk'.dat = disk.dat /\ disk'.idx = disk.idx /\ put.at # "none" /\ put'.blk = put.blk
        /\ durable' = durable /\ flushed' = flushed
    BY <1>f, PutSteps
  <2> QED BY <1>u, <2>1 DEF DurableInv
<1>g. CASE Sync
  <2>1. /\ put.at = "sync" /\ put'.at = "none" /\ disk' = disk /\ flushed' = disk
        /\ durable' = durable \cup {put.blk}
    BY <1>g, PutSteps DEF Sync, NoPut
  <2>2. Holds(disk.dat, disk.idx, put.blk)
    <3>1. /\ Len(disk.dat) > 0 /\ Last(disk.dat) = put.blk
          /\ Len(disk.idx) > 0 /\ Last(disk.idx) = [key |-> put.blk, at |-> Len(disk.dat)]
      BY <1>u, <2>1 DEF PutWell
    <3>2. Len(disk.idx) \in 1..Len(disk.idx) /\ Len(disk.dat) \in 1..Len(disk.dat)
      BY <1>t, <3>1
    <3> QED BY <3>1, <3>2 DEF Holds, Last
  <2> QED BY <1>v, <1>w, <2>1, <2>2 DEF DurableInv
<1>h. CASE Kill
  <2>1. put'.at = "none" /\ disk' = disk /\ flushed' = flushed /\ durable' = durable
    BY <1>h, LoadSteps
  <2> QED BY <1>u, <2>1 DEF DurableInv
<1>i. CASE PowerLoss
  <2>1. put'.at = "none" /\ flushed' = disk' /\ durable' = durable
    BY <1>i, LoadSteps
  <2>2. disk'.dat \in Prefixes(flushed.dat, disk.dat)
        /\ disk'.idx \in UNION {TornOff(s, disk.idx) : s \in Prefixes(flushed.idx, disk.idx)}
    BY <1>i DEF PowerLoss
  <2>3. Len(flushed.dat) <= Len(disk'.dat) /\ Begins(disk'.dat, disk.dat)
    BY <1>t, <2>2, PrefixFacts
  <2>4. Torn \in Record
    BY DEF Torn, Record
  <2>5. Len(flushed.idx) <= Len(disk'.idx) /\ Begins(disk'.idx, disk.idx)
    BY <1>t, <2>2, <2>4, IndexPrefixFacts
  <2>6. Begins(flushed.dat, disk'.dat) /\ Begins(flushed.idx, disk'.idx)
    BY <1>t, <1>u, <2>3, <2>5, FlushedStays
  <2>7. Begins(disk'.dat, disk'.dat) /\ Begins(disk'.idx, disk'.idx)
    BY <1>t, <2>6, BeginsFacts
  <2>8. \A b \in durable : Holds(disk'.dat, disk'.idx, b)
    BY <1>t, <1>u, <2>6, HoldsMore
  <2> QED BY <2>1, <2>7, <2>8 DEF DurableInv
<1> QED BY <1>a, <1>b, <1>c, <1>d, <1>e, <1>f, <1>g, <1>h, <1>i DEF Next

-----------------------------------------------------------------------------
(* Until something is lost. *)

\* What the lemmas below start from.
Intact ==
  TypeOK /\ CallsWell /\ IndexWell /\ PutWell /\ FilesWell /\ MemoryWell /\ CallsBacked
  /\ (made = Created => status # "failed")

\* What is lost stays lost, and until then a failure leaves the files as they were.
LEMMA LostStays ==
  ASSUME TypeOK, CallsWell, [Next]_vars, ~ lost'
  PROVE  ~ lost /\ (Kill \/ PowerLoss => disk' = disk)
<1>1. CASE Kill \/ PowerLoss
  BY <1>1, LoadSteps
<1>2. CASE ~ (Kill \/ PowerLoss)
  <2>1. CASE OpenOrCreate \/ CreateNext \/ LoadTip \/ UNCHANGED vars
             \/ \E t \in Writer : Compare(t) \/ MoveHeight(t) \/ MoveHash(t) \/ MoveWork(t) \/ Flush(t)
                                  \/ \E b \in Block : UpdateBestChain(t, b)
    BY <1>2, <2>1, StillSteps DEF Still
  <2>2. CASE Open
    BY <1>2, <2>2, LoadSteps
  <2>3. CASE StoreGenesis \/ \E t \in Writer, b \in Block : Store(t, b)
    BY <1>2, <2>3 DEF StoreGenesis, Store, history
  <2>4. CASE WriteData \/ WriteIndex \/ WriteHeight \/ WriteMeta \/ Sync
    BY <1>2, <2>4, PutSteps
  <2> QED BY <1>2, <2>1, <2>2, <2>3, <2>4 DEF Next
<1> QED BY <1>1, <1>2

\* A put that begins is of a block without a record, whose parent is known.
LEMMA PutBegins ==
  ASSUME Intact, StoreGenesis \/ \E t \in Writer, b \in Block : Store(t, b)
  PROVE  /\ disk' = disk /\ mem' = mem /\ Running /\ Running' /\ put.at = "none"
         /\ made' = made /\ status' = status /\ best' = best
         /\ \/ put' = put /\ \E b \in Block : Known(b) /\ acked' = acked \cup {b}
            \/ /\ put'.blk \in Block /\ ~ Known(put'.blk) /\ acked' = acked
               /\ \A a \in Path[put'.blk] : a = put'.blk \/ Known(a)
<1>1. CASE StoreGenesis
  <2>1. Path[Genesis] = {Genesis}
    BY BlockTreeAssumption
  <2> QED BY <1>1, <2>1, TreeFacts DEF StoreGenesis, Running, Known, NoPut, files, history
<1>2. ASSUME NEW t \in Writer, NEW b \in Block, Store(t, b)
      PROVE  /\ disk' = disk /\ mem' = mem /\ Running /\ Running' /\ put.at = "none"
             /\ made' = made /\ status' = status /\ best' = best
             /\ \/ put' = put /\ Known(b) /\ acked' = acked \cup {b}
                \/ /\ put'.blk \in Block /\ ~ Known(put'.blk) /\ acked' = acked
                   /\ \A a \in Path[put'.blk] : a = put'.blk \/ Known(a)
  <2>1. disk' = disk /\ mem' = mem /\ Running /\ Running' /\ put.at = "none"
        /\ made' = made /\ status' = status /\ best' = best
    BY <1>2 DEF Store, Running, Intact, CallsWell, NoPut, files
  <2>2. CASE mem.index[b] # 0
    BY <1>2, <2>1, <2>2 DEF Store, Known
  <2>3. CASE mem.index[b] = 0
    <3>1. put'.blk = b /\ acked' = acked
      BY <1>2, <2>3 DEF Store
    <3>2. Parent[b] \in Block /\ Path[b] = Path[Parent[b]] \cup {b} /\ Known(Parent[b])
      BY <1>2, BlockTreeAssumption DEF Store, Known
    <3>3. \A a \in Path[Parent[b]] : Known(a)
      BY <2>1, <3>2 DEF Intact, MemoryWell, Backed
    <3> QED BY <2>1, <2>3, <3>1, <3>2, <3>3 DEF Known
  <2> QED BY <2>1, <2>2, <2>3
<1> QED BY <1>1, <1>2

\* Files that have not grown are in order as before.
LEMMA FilesKept ==
  ASSUME FilesWell, disk'.dat = disk.dat, disk'.idx = disk.idx, disk'.hgt = disk.hgt,
         acked' = acked, put'.blk = put.blk,
         put'.at \in {"meta", put.at, "sync"} /\ (put'.at # "none" => put.at # "none"),
         put'.at = "meta" => put.at = "meta",
         disk'.meta.height # 0 => \E i \in 1..Len(disk.hgt) : Height[disk.hgt[i]] = disk'.meta.height
  PROVE  FilesWell'
<1>1. Records' = Records /\ \A b : (\E k \in Records : disk'.idx[k].key = b) <=> Recorded(b)
  BY DEF Records, Recorded
<1>2. \A i \in Records : disk'.idx[i].at \in 1..Len(disk'.dat)
                         /\ disk'.dat[disk'.idx[i].at] = disk'.idx[i].key
  BY DEF FilesWell
<1>3. \A i \in Records : \A a \in Path[disk'.idx[i].key] : \E k \in Records : disk'.idx[k].key = a
  BY <1>1 DEF FilesWell
<1>4. /\ \A i \in 1..Len(disk'.hgt) : \E k \in Records : disk'.idx[k].key = disk'.hgt[i]
      /\ \A b \in acked' : \E k \in Records : disk'.idx[k].key = b
  BY <1>1 DEF FilesWell
<1>5. /\ put'.at = "meta" => \E i \in 1..Len(disk'.hgt) : disk'.hgt[i] = put'.blk
      /\ put'.at # "none" => put'.blk \notin acked'
  BY DEF FilesWell
<1> QED BY <1>1, <1>2, <1>3, <1>4, <1>5 DEF FilesWell, Recorded

\* The files stay in order.
LEMMA FilesStep == Intact /\ [Next]_vars /\ ~ lost' => FilesWell'
<1> SUFFICES ASSUME Intact, [Next]_vars, ~ lost' PROVE FilesWell'
  OBVIOUS
<1>t. /\ TypeOK /\ CallsWell /\ IndexWell /\ PutWell /\ FilesWell /\ MemoryWell
      /\ disk.dat \in Seq(Block) /\ disk.idx \in Seq(Record) /\ disk.hgt \in Seq(Block)
      /\ Len(disk.dat) \in Nat /\ Len(disk.idx) \in Nat /\ Len(disk.hgt) \in Nat
      /\ \A i \in Records : disk.idx[i].at \in Nat
  <2>1. TypeOK
    BY DEF Intact
  <2> QED BY <2>1, TypeFacts DEF Intact
<1> USE DEF Records, Recorded
<1>a. CASE OpenOrCreate \/ CreateNext \/ LoadTip \/ UNCHANGED vars
           \/ \E t \in Writer : Compare(t) \/ MoveHeight(t) \/ MoveHash(t) \/ MoveWork(t) \/ Flush(t)
                                \/ \E b \in Block : UpdateBestChain(t, b)
  <2>1. Still /\ acked' = acked
    BY <1>a, <1>t, StillSteps
  <2>2. disk'.meta = disk.meta
    <3>1. ASSUME NEW t \in Writer, Flush(t) PROVE disk'.meta = disk.meta
      <4>1. Running
        BY <1>t, <3>1 DEF Flush, CallsWell, Running
      <4>2. mem.meta = disk.meta
        BY <1>t, <4>1 DEF MemoryWell
      <4> QED BY <1>t, <3>1, <4>2 DEF Flush, TypeOK, Disk
    <3> QED BY <1>a, <3>1 DEF OpenOrCreate, CreateNext, LoadTip, Compare, MoveHeight, MoveHash,
                              MoveWork, UpdateBestChain, vars, files
  <2>3. disk'.meta.height # 0 =>
          \E i \in 1..Len(disk.hgt) : Height[disk.hgt[i]] = disk'.meta.height
    BY <1>t, <2>2 DEF FilesWell
  <2> QED BY <1>t, <2>1, <2>3, FilesKept DEF Still
<1>b. CASE Open
  <2>1. put' = put /\ disk' = disk /\ acked' = acked
    BY <1>b, <1>t, LoadSteps
  <2> QED BY <1>t, <2>1 DEF FilesWell
<1>c. CASE StoreGenesis \/ \E t \in Writer, b \in Block : Store(t, b)
  <2>1. /\ disk' = disk /\ Running /\ put.at = "none"
        /\ \/ put' = put /\ \E b \in Block : Known(b) /\ acked' = acked \cup {b}
           \/ put'.blk \in Block /\ ~ Known(put'.blk) /\ acked' = acked
    BY <1>c, PutBegins
  <2>2. \A b \in Block : Known(b) <=> Recorded(b)
    BY <1>t, <2>1 DEF IndexWell, Hidden, Known
  <2>3. put'.at # "meta"
    BY <1>c, <2>1 DEF StoreGenesis, Store
  <2>4. \A b \in acked' : Recorded(b)
    BY SMTT(30), <1>t, <2>1, <2>2 DEF FilesWell
  <2>5. put'.at # "none" => put'.blk \notin acked'
    BY <1>t, <2>1, <2>2 DEF FilesWell
  <2> QED BY <1>t, <2>1, <2>3, <2>4, <2>5 DEF FilesWell
<1>d. CASE WriteData
  <2>1. /\ disk'.dat = Append(disk.dat, put.blk) /\ disk'.idx = disk.idx /\ disk'.hgt = disk.hgt
        /\ disk'.meta = disk.meta /\ acked' = acked
        /\ put.at = "data" /\ put'.at = "index" /\ put'.blk = put.blk /\ put.blk \in Block
    BY <1>d, <1>t, PutSteps DEF CallsWell
  <2>2. \A k \in 1..Len(disk.dat) : k \in 1..Len(disk'.dat) /\ disk'.dat[k] = disk.dat[k]
    BY <1>t, <2>1
  <2> QED BY <1>t, <2>1, <2>2 DEF FilesWell
<1>e. CASE WriteIndex
  <2> DEFINE r == [key |-> put.blk, at |-> Len(disk.dat)]
  <2>1. /\ disk'.idx = Append(disk.idx, r) /\ disk'.dat = disk.dat /\ disk'.hgt = disk.hgt
        /\ disk'.meta = disk.meta /\ acked' = acked /\ Running
        /\ put.at = "index" /\ put'.at = "height" /\ put'.blk = put.blk /\ put.blk \in Block
    BY <1>e, <1>t, PutSteps DEF CallsWell
  <2>2. /\ Len(disk'.idx) = Len(disk.idx) + 1 /\ disk'.idx[Len(disk.idx) + 1] = r
        /\ \A i \in Records : disk'.idx[i] = disk.idx[i]
        /\ r.key = put.blk /\ r.at = Len(disk.dat)
    BY <1>t, <2>1
  <2>3. Len(disk.dat) \in 1..Len(disk.dat) /\ disk.dat[Len(disk.dat)] = put.blk
    BY <1>t, <2>1 DEF PutWell, Last
  <2> HIDE DEF r
  <2>4. \A i \in Records' : i \in Records \/ i = Len(disk.idx) + 1
    BY <1>t, <2>2
  <2> DEFINE Now(b) == \E k \in Records' : disk'.idx[k].key = b
  <2>5. \A b : Recorded(b) => Now(b)
    <3>1. Records \subseteq Records'
      BY <1>t, <2>2
    <3> QED BY <2>2, <3>1
  <2>6. Now(put.blk)
    <3>1. Len(disk.idx) + 1 \in Records'
      BY <1>t, <2>2
    <3> QED BY <2>2, <3>1
  <2>7. \A a \in Path[put.blk] : Now(a)
    <3>1. \A a \in Path[put.blk] : a = put.blk \/ Known(a)
      BY <1>t, <2>1 DEF MemoryWell
    <3>2. \A a \in Path[put.blk] : a = put.blk \/ Recorded(a)
      BY <1>t, <2>1, <3>1, PathEnds DEF IndexWell
    <3> HIDE DEF Now, Recorded
    <3> QED BY <2>5, <2>6, <3>2
  <2>8. \A i \in Records' : disk'.idx[i].at \in 1..Len(disk'.dat)
                            /\ disk'.dat[disk'.idx[i].at] = disk'.idx[i].key
    BY <1>t, <2>1, <2>2, <2>3, <2>4 DEF FilesWell
  <2>9. \A i \in Records' : \A a \in Path[disk'.idx[i].key] : Now(a)
    <3>1. \A i \in Records : \A a \in Path[disk.idx[i].key] : Recorded(a)
      BY <1>t DEF FilesWell
    <3> HIDE DEF Now, Recorded
    <3> QED BY <2>2, <2>4, <2>5, <2>7, <3>1
  <2>10. (\A i \in 1..Len(disk'.hgt) : Now(disk'.hgt[i])) /\ \A b \in acked' : Now(b)
    <3>1. (\A i \in 1..Len(disk.hgt) : Recorded(disk.hgt[i])) /\ \A b \in acked : Recorded(b)
      BY <1>t DEF FilesWell
    <3> HIDE DEF Now, Recorded
    <3> QED BY <2>1, <2>5, <3>1
  <2> QED BY <1>t, <2>1, <2>8, <2>9, <2>10 DEF FilesWell
<1>f. CASE WriteHeight
  <2>1. /\ disk'.hgt = Append(disk.hgt, put.blk) /\ disk'.dat = disk.dat /\ disk'.idx = disk.idx
        /\ disk'.meta = disk.meta /\ acked' = acked
        /\ put.at = "height" /\ put'.blk = put.blk /\ put.blk \in Block
    BY <1>f, <1>t, PutSteps DEF CallsWell
  <2>2. /\ Len(disk'.hgt) = Len(disk.hgt) + 1 /\ disk'.hgt[Len(disk.hgt) + 1] = put.blk
        /\ \A i \in 1..Len(disk.hgt) : disk'.hgt[i] = disk.hgt[i]
        /\ Len(disk.hgt) + 1 \in 1..Len(disk'.hgt)
        /\ \A i \in 1..Len(disk'.hgt) : i \in 1..Len(disk.hgt) \/ i = Len(disk.hgt) + 1
        /\ \A i \in 1..Len(disk.hgt) : i \in 1..Len(disk'.hgt)
    BY <1>t, <2>1
  <2>3. Recorded(put.blk)
    <3>1. Len(disk.idx) > 0 /\ Last(disk.idx) = [key |-> put.blk, at |-> Len(disk.dat)]
      BY <1>t, <2>1 DEF PutWell
    <3>2. Len(disk.idx) \in Records
      BY <1>t, <3>1
    <3> QED BY <3>1, <3>2 DEF Last
  <2>4. \A i \in 1..Len(disk'.hgt) : \E k \in Records : disk.idx[k].key = disk'.hgt[i]
    BY <1>t, <2>2, <2>3 DEF FilesWell
  <2>5. disk'.meta.height # 0 =>
          \E i \in 1..Len(disk'.hgt) : Height[disk'.hgt[i]] = disk'.meta.height
    BY <1>t, <2>1, <2>2 DEF FilesWell
  <2>6. \E i \in 1..Len(disk'.hgt) : disk'.hgt[i] = put'.blk
    BY <2>1, <2>2
  <2>7. /\ \A i \in Records' : disk'.idx[i].at \in 1..Len(disk'.dat)
                               /\ disk'.dat[disk'.idx[i].at] = disk'.idx[i].key
        /\ \A i \in Records' : \A a \in Path[disk'.idx[i].key] :
             \E k \in Records' : disk'.idx[k].key = a
        /\ \A b \in acked' : \E k \in Records' : disk'.idx[k].key = b
        /\ put'.at # "none" => put'.blk \notin acked'
    BY <1>t, <2>1 DEF FilesWell
  <2>8. \A i \in 1..Len(disk'.hgt) : \E k \in Records' : disk'.idx[k].key = disk'.hgt[i]
    BY <2>1, <2>4
  <2> QED BY <2>5, <2>6, <2>7, <2>8 DEF FilesWell
<1>g. CASE WriteMeta
  <2>1. /\ disk'.dat = disk.dat /\ disk'.idx = disk.idx /\ disk'.hgt = disk.hgt
        /\ disk'.meta = mem'.meta /\ acked' = acked /\ Running
        /\ put.at = "meta" /\ put'.at = "sync" /\ put'.blk = put.blk /\ put.blk \in Block
    BY <1>g, <1>t, PutSteps DEF CallsWell
  <2>2. mem'.meta = MetaWith(disk.meta, put.blk)
    BY <1>g, <1>t, <2>1 DEF WriteMeta, MemoryWell
  <2>3. disk'.meta.height # 0 =>
          \E i \in 1..Len(disk.hgt) : Height[disk.hgt[i]] = disk'.meta.height
    <3>1. \E i \in 1..Len(disk.hgt) : disk.hgt[i] = put.blk
      BY <1>t, <2>1 DEF FilesWell
    <3>2. disk'.meta = disk.meta \/ disk'.meta.height = Height[put.blk]
      BY <2>1, <2>2 DEF MetaWith
    <3> QED BY <1>t, <3>1, <3>2 DEF FilesWell
  <2> QED BY <1>t, <2>1, <2>3, FilesKept
<1>h. CASE Sync
  <2>1. put.at = "sync" /\ put'.at = "none" /\ disk' = disk /\ acked' = acked \cup {put.blk}
    BY <1>h, <1>t, PutSteps DEF Sync, NoPut
  <2>2. Recorded(put.blk)
    <3>1. Len(disk.idx) > 0 /\ Last(disk.idx) = [key |-> put.blk, at |-> Len(disk.dat)]
      BY <1>t, <2>1 DEF PutWell
    <3>2. Len(disk.idx) \in Records
      BY <1>t, <3>1
    <3> QED BY <3>1, <3>2 DEF Last
  <2> QED BY <1>t, <2>1, <2>2 DEF FilesWell
<1>i. CASE Kill \/ PowerLoss
  <2>1. put'.at = "none" /\ disk' = disk /\ acked' = acked
    BY <1>i, <1>t, LoadSteps, LostStays
  <2> QED BY <1>t, <2>1 DEF FilesWell
<1> QED BY <1>a, <1>b, <1>c, <1>d, <1>e, <1>f, <1>g, <1>h, <1>i DEF Next

\* What is in memory stays backed by the files and closed under parents.
LEMMA MemoryStep == Intact /\ [Next]_vars /\ ~ lost' => MemoryWell'
<1> SUFFICES ASSUME Intact, [Next]_vars, ~ lost' PROVE MemoryWell'
  OBVIOUS
<1>t. /\ TypeOK /\ CallsWell /\ IndexWell /\ PutWell /\ FilesWell /\ MemoryWell
      /\ disk.idx \in Seq(Record) /\ disk.hgt \in Seq(Block) /\ disk.meta \in Meta
      /\ Len(disk.dat) \in Nat /\ Len(disk.idx) \in Nat
      /\ mem.index \in [Block -> Nat] /\ mem.height \in [Heights -> Block \cup {NoBlock}]
  <2>1. TypeOK
    BY DEF Intact
  <2> QED BY <2>1, TypeFacts DEF Intact
<1>a. CASE OpenOrCreate \/ CreateNext \/ LoadTip \/ UNCHANGED vars
           \/ \E t \in Writer : Compare(t) \/ MoveHeight(t) \/ MoveHash(t) \/ MoveWork(t) \/ Flush(t)
                                \/ \E b \in Block : UpdateBestChain(t, b)
  <2>1. Still
    BY <1>a, <1>t, StillSteps
  <2>2. Running => disk'.meta = disk.meta
    <3>1. ASSUME NEW t \in Writer, Flush(t), Running PROVE disk'.meta = disk.meta
      <4>2. mem.meta = disk.meta
        BY <1>t, <3>1 DEF MemoryWell
      <4> QED BY <1>t, <3>1, <4>2 DEF Flush, TypeOK, Disk
    <3> QED BY <1>a, <3>1 DEF OpenOrCreate, CreateNext, LoadTip, Compare, MoveHeight, MoveHash,
                              MoveWork, UpdateBestChain, vars, files
  <2> QED BY <1>t, <2>1, <2>2 DEF Still, MemoryWell, Backed, Known
<1>b. CASE Open
  <2> DEFINE Now(b) == LoadIndex(disk.idx)[b] # 0
             High(h) == LoadHeights(disk.hgt)[h]
  <2>1. /\ put' = put /\ put.at = "none" /\ disk' = disk
        /\ mem' = [index |-> LoadIndex(disk.idx), height |-> LoadHeights(disk.hgt),
                   meta |-> disk.meta]
    BY <1>b, <1>t, LoadSteps DEF Open
  <2>2. \A b \in Block : Now(b) <=> Recorded(b)
    <3>1. \A i \in 1..Len(disk.idx) : disk.idx[i].key \in Block
      BY <1>t DEF IndexWell, Records
    <3>2. \A i, j \in 1..Len(disk.idx) : disk.idx[i].key = disk.idx[j].key => i = j
      BY <1>t DEF IndexWell, Records
    <3>3. disk.idx \in Seq([key : Block \cup {NoBlock}, at : Nat])
      BY <1>t DEF Record
    <3>4. /\ \A i \in 1..Len(disk.idx) : LoadIndex(disk.idx)[disk.idx[i].key] = disk.idx[i].at
          /\ \A b \in Block : LoadIndex(disk.idx)[b] # 0 =>
               \E i \in 1..Len(disk.idx) : disk.idx[i].key = b
      BY <3>1, <3>2, <3>3, LoadIndexFacts
    <3>5. \A i \in 1..Len(disk.idx) : disk.idx[i].at # 0
      BY <1>t DEF IndexWell, Records
    <3> QED BY <3>4, <3>5 DEF Recorded, Records
  <2>3. ASSUME NEW b \in Block, Now(b) PROVE \A a \in Path[b] : Now(a)
    <3>1. Recorded(b)
      BY <2>2, <2>3
    <3>2. \A a \in Path[b] : Recorded(a)
      BY <1>t, <3>1 DEF FilesWell, Recorded
    <3>3. \A a \in Path[b] : a \in Block
      BY PathEnds
    <3> HIDE DEF Now
    <3> QED BY <2>2, <3>2, <3>3
  <2>4. ASSUME NEW h \in Heights, High(h) # NoBlock
        PROVE  High(h) \in Block /\ Now(High(h)) /\ Height[High(h)] = h
    <3>1. PICK i \in 1..Len(disk.hgt) : High(h) = disk.hgt[i] /\ Height[disk.hgt[i]] = h
      BY <1>t, <2>4, LoadHeightsFacts
    <3>2. Recorded(disk.hgt[i]) /\ disk.hgt[i] \in Block
      BY <1>t DEF FilesWell
    <3> HIDE DEF Now
    <3> QED BY <2>2, <3>1, <3>2
  <2>5. disk.meta.height # 0 => High(disk.meta.height) # NoBlock
    <3>1. disk.meta.height \in Heights
      BY <1>t DEF Meta
    <3> QED BY <1>t, <3>1, LoadHeightsFacts DEF FilesWell
  <2>6. mem'.index = LoadIndex(disk.idx) /\ mem'.height = LoadHeights(disk.hgt)
        /\ mem'.meta = disk.meta
    BY <2>1
  <2> HIDE DEF High
  <2>7. \A b \in Block : Now(b) => b \in Block /\ \A a \in Path[b] : Now(a)
    BY <2>3
  <2>8. \A h \in Heights : High(h) # NoBlock => Now(High(h)) /\ Height[High(h)] = h
    BY <2>4
  <2> QED BY <2>1, <2>5, <2>6, <2>7, <2>8 DEF MemoryWell, Backed, Known, High
<1>c. CASE StoreGenesis \/ \E t \in Writer, b \in Block : Store(t, b)
  <2>1. /\ disk' = disk /\ mem' = mem /\ Running /\ put.at = "none"
        /\ put' = put \/ \A a \in Path[put'.blk] : a = put'.blk \/ Known(a)
    BY <1>c, PutBegins
  <2> QED BY <1>t, <2>1 DEF MemoryWell, Backed, Known
<1>d. CASE WriteData \/ WriteIndex \/ WriteHeight
  <2>1. /\ put'.blk = put.blk /\ mem' = mem /\ disk'.meta = disk.meta /\ put.at # "none"
        /\ (Running' <=> Running)
    BY <1>d, <1>t, PutSteps DEF Running
  <2> QED BY <1>t, <2>1 DEF MemoryWell, Backed, Known
<1>e. CASE WriteMeta
  <2>1. /\ disk'.meta = mem'.meta /\ disk'.idx = disk.idx /\ Running
        /\ put.at = "meta" /\ put'.at = "sync" /\ put'.blk = put.blk /\ put.blk \in Block
    BY <1>e, <1>t, PutSteps DEF CallsWell
  <2>2. /\ mem'.index = [mem.index EXCEPT ![put.blk] = Last(disk.idx).at]
        /\ mem'.height = [mem.height EXCEPT ![Height[put.blk]] = put.blk]
        /\ mem'.meta = MetaWith(mem.meta, put.blk)
    BY <1>e DEF WriteMeta
  <2>3. Last(disk.idx).at # 0
    <3>1. Len(disk.idx) \in Records
      BY <1>t, <2>1 DEF CallsWell, Records
    <3> QED BY <1>t, <3>1 DEF IndexWell, Last
  <2> DEFINE Now(b) == mem'.index[b] # 0
  <2>4. \A b \in Block : Now(b) <=> b = put.blk \/ Known(b)
    BY <1>t, <2>1, <2>2, <2>3 DEF Known
  <2>5. \A a \in Path[put.blk] : a \in Block /\ Now(a)
    <3>1. \A a \in Path[put.blk] : a = put.blk \/ Known(a)
      BY <1>t, <2>1 DEF MemoryWell
    <3> HIDE DEF Now
    <3> QED BY <2>1, <2>4, <3>1, PathEnds
  <2>6. ASSUME NEW b \in Block, Now(b) PROVE \A a \in Path[b] : Now(a)
    <3>1. CASE b = put.blk
      BY <2>5, <3>1
    <3>2. CASE b # put.blk
      <4>1. \A a \in Path[b] : Known(a) /\ a \in Block
        BY <1>t, <2>1, <2>4, <2>6, <3>2, PathEnds DEF MemoryWell, Backed
      <4> HIDE DEF Now
      <4> QED BY <2>4, <4>1
    <3> QED BY <3>1, <3>2
  <2>7. Height[put.blk] \in Heights
    BY <2>1, TreeFacts
  <2>8. ASSUME NEW h \in Heights, mem'.height[h] # NoBlock
        PROVE  Now(mem'.height[h]) /\ Height[mem'.height[h]] = h
    <3>1. CASE h = Height[put.blk]
      <4>1. mem'.height[h] = put.blk
        BY <1>t, <2>2, <2>7, <3>1
      <4> HIDE DEF Now
      <4> QED BY <2>1, <2>4, <3>1, <4>1
    <3>2. CASE h # Height[put.blk]
      <4>1. mem'.height[h] = mem.height[h]
        BY <1>t, <2>2, <2>7, <3>2
      <4>2. mem.height[h] \in Block /\ Known(mem.height[h]) /\ Height[mem.height[h]] = h
        BY <1>t, <2>1, <2>8, <4>1 DEF MemoryWell
      <4> HIDE DEF Now
      <4> QED BY <2>4, <4>1, <4>2
    <3> QED BY <3>1, <3>2
  <2>9. mem'.meta.height # 0 => mem'.height[mem'.meta.height] # NoBlock
    <3>1. mem.meta \in Meta /\ mem.meta.height \in Heights
      BY <1>t DEF TypeOK, Meta
    <3>2. CASE mem'.meta = mem.meta
      <4>1. mem.meta.height # 0 => mem.height[mem.meta.height] # NoBlock
        BY <1>t, <2>1 DEF MemoryWell
      <4> QED BY <1>t, <2>1, <2>2, <2>7, <3>1, <3>2, <4>1, TreeFacts
    <3>3. CASE mem'.meta # mem.meta
      <4>1. mem'.meta.height = Height[put.blk]
        BY <2>2, <3>3 DEF MetaWith
      <4> QED BY <1>t, <2>1, <2>2, <2>7, <4>1, TreeFacts
    <3> QED BY <3>2, <3>3
  <2>10. \A b \in Block : Now(b) => \A a \in Path[b] : Now(a)
    BY <2>6
  <2>11. \A h \in Heights : mem'.height[h] # NoBlock =>
           Now(mem'.height[h]) /\ Height[mem'.height[h]] = h
    BY <2>8
  <2> QED BY <2>1, <2>5, <2>9, <2>10, <2>11 DEF MemoryWell, Backed, Known
<1>f. CASE Sync
  <2>1. put'.at = "none" /\ disk' = disk /\ mem' = mem /\ (Running' <=> Running)
    BY <1>f, <1>t, PutSteps DEF NoPut, Running
  <2> QED BY <1>t, <2>1 DEF MemoryWell, Backed, Known
<1>g. CASE Kill \/ PowerLoss
  BY <1>g, <1>t, LoadSteps DEF MemoryWell
<1> QED BY <1>a, <1>b, <1>c, <1>d, <1>e, <1>f, <1>g DEF Next

\* Memory only ever learns of blocks while the process runs.
LEMMA KnownStays ==
  ASSUME Intact, [Next]_vars, status = "up", status' = "up"
  PROVE  \A b \in Block : Known(b) => Known(b)'
<1>t. TypeOK /\ CallsWell /\ mem.index \in [Block -> Nat]
  BY TypeFacts DEF Intact
<1>1. CASE WriteMeta
  <2>1. mem'.index = [mem.index EXCEPT ![put.blk] = Last(disk.idx).at] /\ put.at = "meta"
    BY <1>1 DEF WriteMeta
  <2>2. Last(disk.idx).at # 0
    <3>1. Len(disk.idx) \in Records
      BY <1>t, <2>1, TypeFacts DEF CallsWell, Records
    <3> QED BY <3>1 DEF Intact, IndexWell, Last
  <2> QED BY <1>t, <2>1, <2>2 DEF Known
<1>2. CASE ~ WriteMeta
  <2>1. mem' = mem
    <3>1. ~ Open /\ ~ Kill /\ ~ PowerLoss
      BY DEF Open, Kill, PowerLoss, Die
    <3> QED BY <1>2, <3>1 DEF Next, OpenOrCreate, CreateNext, StoreGenesis, LoadTip, WriteData,
              WriteIndex, WriteHeight, Sync, Store, UpdateBestChain, Compare, MoveHeight, MoveHash,
              MoveWork, Flush, vars
  <2> QED BY <2>1 DEF Known
<1> QED BY <1>1, <1>2

\* A branch in the index can be read: every record names its bytes.
LEMMA BackedReadable ==
  ASSUME Intact, Running
  PROVE  /\ \A b \in Block : Recorded(b) /\ ~ Hidden(b) => b \in Readable
         /\ \A b : Backed(b) => Linked(b, Readable) /\ CumulativeWork(b) = PathWork[b]
<1>1. ASSUME NEW b \in Block, Recorded(b), ~ Hidden(b) PROVE b \in Readable
  <2>1. PICK i \in Records : disk.idx[i].key = b
    BY <1>1 DEF Recorded
  <2>2. mem.index[b] = disk.idx[i].at
    BY <1>1, <2>1 DEF Intact, IndexWell
  <2>3. disk.idx[i].at \in 1..Len(disk.dat) /\ disk.dat[disk.idx[i].at] = b
    BY <2>1 DEF Intact, FilesWell
  <2> QED BY <2>2, <2>3 DEF Readable, Reads
<1>2. ASSUME NEW b, Backed(b) PROVE Path[b] \subseteq Readable
  <2>1. \A a \in Path[b] : a \in Block /\ Known(a)
    BY <1>2, PathEnds DEF Backed
  <2>2. \A a \in Path[b] : Recorded(a) /\ ~ Hidden(a)
    BY <2>1 DEF Intact, IndexWell
  <2> QED BY <1>1, <2>1, <2>2
<1> QED BY <1>1, <1>2 DEF Linked, CumulativeWork

\* The tip a process starts with: the genesis block, or what the height index
\* has, which is in the index.
LEMMA TipLoads ==
  ASSUME Intact, LoadTip
  PROVE  status' = "up" /\ best'.hash \in Block /\ Backed(best'.hash)
         /\ best'.work = CumulativeWork(best'.hash)
<1> DEFINE h == mem.meta.height
           tip == IF h > 0 THEN mem.height[h] ELSE Genesis
<1>t. /\ Running /\ MemoryWell /\ h \in Heights /\ h \in Nat
      /\ mem.height \in [Heights -> Block \cup {NoBlock}]
  <2>1. TypeOK /\ mem.meta \in Meta
    BY DEF Intact, TypeOK
  <2> QED BY <2>1, TypeFacts, TreeFacts DEF Intact, LoadTip, Running, Meta
<1>1. mem.height[0] \in {Genesis, NoBlock} /\ Known(Genesis)
  <2>1. mem.height[0] # NoBlock => Known(mem.height[0]) /\ Height[mem.height[0]] = 0
    BY <1>t, TreeFacts DEF MemoryWell
  <2>2. mem.height[0] # NoBlock => mem.height[0] = Genesis
    BY <1>t, <2>1, TreeFacts
  <2> QED BY <2>1, <2>2 DEF LoadTip, Known
<1>2. tip # NoBlock /\ tip \in Block /\ Known(tip)
  <2>1. CASE h > 0
    <3>1. mem.height[h] # NoBlock
      BY <1>t, <2>1 DEF MemoryWell
    <3> QED BY <1>t, <2>1, <3>1 DEF MemoryWell
  <2>2. CASE ~ (h > 0)
    BY <1>1, <2>2, TreeFacts
  <2> QED BY <2>1, <2>2
<1>3. status' = "up" /\ best' = [height |-> h, hash |-> tip, work |-> CumulativeWork(tip)]
  BY <1>1, <1>2 DEF LoadTip
<1>4. Backed(tip)
  BY <1>t, <1>2 DEF MemoryWell
<1> HIDE DEF tip
<1> QED BY <1>2, <1>3, <1>4

\* The tip and the blocks of the calls under way have their branches in the
\* index; the start-up does not fail.
LEMMA BackedStep ==
  Intact /\ [Next]_vars /\ ~ lost' => CallsBacked' /\ (made = Created => status # "failed")'
<1> SUFFICES ASSUME Intact, [Next]_vars, ~ lost'
             PROVE  CallsBacked' /\ (made' = Created => status' # "failed")
  OBVIOUS
<1>t. /\ TypeOK /\ CallsWell /\ CallsWell' /\ IndexWell /\ PutWell /\ MemoryWell /\ CallsBacked
      /\ (made = Created => status # "failed")
      /\ task \in [Writer -> [at : {"idle", "put", "compare", "height", "hash", "work",
                                    "to_height", "to_hash", "to_work", "flush"},
                              blk : Block \cup {NoBlock}]]
  BY CallsStep DEF Intact, TypeOK
<1>a. CASE OpenOrCreate \/ CreateNext
  <2>1. status = "down" \/ (status = "opening" /\ made # Created)
    BY <1>a, <1>t DEF OpenOrCreate, CreateNext, TypeOK, Created
  <2>2. /\ status' # "up" /\ (made' = Created => status' # "failed") /\ task' = task
    BY <1>a, <1>t DEF OpenOrCreate, CreateNext, TypeOK, Created
  <2>3. \A t \in Writer : task[t].at = "idle"
    BY <1>t, <2>1 DEF CallsWell
  <2> QED BY <2>2, <2>3 DEF CallsBacked
<1>b. CASE Open
  <2>1. status = "down" /\ status' = "opening" /\ task' = task
    BY <1>b DEF Open
  <2>2. \A t \in Writer : task[t].at = "idle"
    BY <1>t, <2>1 DEF CallsWell
  <2> QED BY <2>1, <2>2 DEF CallsBacked
<1>c. CASE StoreGenesis
  <2>1. mem' = mem /\ best' = best /\ task' = task /\ status' = status /\ made' = made
    BY <1>c DEF StoreGenesis, files
  <2> QED BY <1>t, <2>1 DEF CallsBacked, Backed, Known
<1>d. CASE LoadTip
  <2>1. status = "opening" /\ mem' = mem /\ task' = task /\ made' = made
    BY <1>d DEF LoadTip, files
  <2>2. status' = "up" /\ Backed(best'.hash)
    BY <1>d, TipLoads
  <2>3. \A t \in Writer : task[t].at = "idle"
    BY <1>t, <2>1 DEF CallsWell
  <2> QED BY <2>1, <2>2, <2>3 DEF CallsBacked, Backed, Known
<1>e. CASE WriteData \/ WriteIndex \/ WriteHeight
  <2>1. mem' = mem /\ best' = best /\ task' = task /\ status' = status /\ made' = made
    BY <1>e DEF WriteData, WriteIndex, WriteHeight
  <2> QED BY <1>t, <2>1 DEF CallsBacked, Backed, Known
<1>f. CASE WriteMeta
  <2>1. best' = best /\ task' = task /\ status' = status /\ made' = made
    BY <1>f DEF WriteMeta
  <2>2. \A t \in Writer : task[t].at # "idle" => status = "up"
    BY <1>t DEF CallsWell
  <2>3. /\ status' = "up" => Backed(best.hash)'
        /\ \A t \in Writer : task[t].at \notin {"idle", "put"} => Backed(task[t].blk)'
    <3>1. CASE status = "up"
      <4>1. /\ Backed(best.hash)
            /\ \A t \in Writer : task[t].at \notin {"idle", "put"} => Backed(task[t].blk)
        BY <1>t, <3>1 DEF CallsBacked
      <4>2. \A b \in Block : Known(b) => Known(b)'
        BY <2>1, <3>1, KnownStays
      <4> QED BY <2>1, <4>1, <4>2, PathEnds DEF Backed, Known
    <3>2. CASE status # "up"
      BY <2>1, <2>2, <3>2
    <3> QED BY <3>1, <3>2
  <2> QED BY <1>t, <2>1, <2>3 DEF CallsBacked
<1>g. CASE Sync
  <2>1. /\ put.at = "sync" /\ mem' = mem /\ best' = best /\ status' = status /\ made' = made
        /\ put.blk \in Block /\ Running
    BY <1>g, <1>t, PutSteps DEF Sync, CallsWell
  <2>2. Backed(put.blk)
    <3>1. Recorded(put.blk) /\ ~ Hidden(put.blk)
      <4>1. Len(disk.idx) > 0 /\ Last(disk.idx) = [key |-> put.blk, at |-> Len(disk.dat)]
        BY <1>t, <2>1 DEF PutWell
      <4>2. Len(disk.idx) \in Records
        BY <1>t, <4>1, TypeFacts DEF Records
      <4> QED BY <2>1, <4>1, <4>2 DEF Last, Recorded, Hidden
    <3>2. Known(put.blk)
      BY <1>t, <2>1, <3>1 DEF IndexWell, Recorded, Known
    <3> QED BY <1>t, <2>1, <3>2 DEF MemoryWell
  <2>3. \A t \in Writer : task'[t].blk = task[t].blk
        /\ (task'[t].at = task[t].at \/ (t = put.by /\ task[t].blk = put.blk))
    BY <1>g, <1>t, <2>1 DEF Sync, CallsWell
  <2> QED BY <1>t, <2>1, <2>2, <2>3 DEF CallsBacked, Backed, Known
<1>h. ASSUME NEW t \in Writer, NEW b \in Block, Store(t, b) \/ UpdateBestChain(t, b)
      PROVE  CallsBacked' /\ (made' = Created => status' # "failed")
  <2>1. mem' = mem /\ best' = best /\ status' = status /\ made' = made /\ Running
    BY <1>h, <1>t DEF Store, UpdateBestChain, files, Running, CallsWell
  <2>2. /\ \A u \in Writer : u # t => task'[u] = task[u]
        /\ task'[t].at \notin {"idle", "put"} => task'[t].blk = b /\ Backed(b)
    <3>1. CASE Store(t, b)
      BY <1>t, <2>1, <3>1 DEF Store, MemoryWell, Known
    <3>2. CASE UpdateBestChain(t, b)
      BY <1>t, <3>2 DEF UpdateBestChain, Backed, Known
    <3> QED BY <1>h, <3>1, <3>2
  <2> QED BY <1>t, <2>1, <2>2 DEF CallsBacked, Backed, Known
<1>i. ASSUME NEW t \in Writer,
             Compare(t) \/ MoveHeight(t) \/ MoveHash(t) \/ MoveWork(t) \/ Flush(t)
      PROVE  CallsBacked' /\ (made' = Created => status' # "failed")
  <2>1. /\ mem' = mem /\ status' = status /\ made' = made
        /\ best'.hash = best.hash \/ best'.hash = task[t].blk
        /\ task[t].at \notin {"idle", "put"}
    BY <1>i, <1>t DEF Compare, MoveHeight, MoveHash, MoveWork, Flush, files, TypeOK
  <2>2. /\ \A u \in Writer : u # t => task'[u] = task[u]
        /\ task'[t] = Idle \/ task'[t].blk = task[t].blk
    BY <1>i, <1>t DEF Compare, MoveHeight, MoveHash, MoveWork, Flush
  <2>3. Backed(task[t].blk)
    BY <1>t, <2>1 DEF CallsBacked
  <2> QED BY <1>t, <2>1, <2>2, <2>3 DEF CallsBacked, Backed, Known, Idle
<1>j. CASE Kill \/ PowerLoss
  BY <1>j, <1>t, LoadSteps DEF CallsBacked
<1>l. CASE UNCHANGED vars
  BY <1>l, <1>t DEF vars, files, CallsBacked, Backed, Known
<1> QED BY <1>a, <1>b, <1>c, <1>d, <1>e, <1>f, <1>g, <1>h, <1>i, <1>j, <1>l DEF Next

\* With one writer the work is that of the tip, or about to be.
LEMMA WorkStep == Intact /\ WorkInv /\ [Next]_vars /\ ~ lost' => WorkInv'
<1> SUFFICES ASSUME Intact, WorkInv, [Next]_vars, ~ lost', OneWriter, status' = "up"
             PROVE  /\ \A t \in Writer : task'[t].at \in {"work", "to_work"} =>
                                           best'.hash = task'[t].blk
                    /\ \/ best'.work = PathWork[best'.hash]
                       \/ \E t \in Writer : task'[t].at \in {"hash", "to_hash", "work", "to_work"}
  BY DEF WorkInv
<1>t. /\ TypeOK /\ CallsWell /\ CallsBacked /\ ~ lost
      /\ best \in [height : Heights, hash : Block \cup {NoBlock}, work : Nat]
      /\ task \in [Writer -> [at : {"idle", "put", "compare", "height", "hash", "work",
                                    "to_height", "to_hash", "to_work", "flush"},
                              blk : Block \cup {NoBlock}]]
  BY LostStays DEF Intact, TypeOK
<1>u. status = "up" =>
        /\ \A t \in Writer : task[t].at \in {"work", "to_work"} => best.hash = task[t].blk
        /\ \/ best.work = PathWork[best.hash]
           \/ \E t \in Writer : task[t].at \in {"hash", "to_hash", "work", "to_work"}
  BY <1>t DEF WorkInv
<1>a. CASE LoadTip
  <2>1. status = "opening" /\ task' = task
    BY <1>a DEF LoadTip
  <2>2. \A t \in Writer : task[t].at = "idle"
    BY <1>t, <2>1 DEF CallsWell
  <2>3. Running
    BY <1>a DEF LoadTip, Running
  <2>4. best'.work = PathWork[best'.hash]
    BY <1>a, <2>3, TipLoads, BackedReadable
  <2> QED BY <2>1, <2>2, <2>4
<1>b. CASE StoreGenesis \/ WriteData \/ WriteIndex \/ WriteHeight \/ WriteMeta \/ UNCHANGED vars
  <2>1. best' = best /\ task' = task /\ status' = status
    BY <1>b DEF StoreGenesis, WriteData, WriteIndex, WriteHeight, WriteMeta, vars
  <2> QED BY <1>u, <2>1
<1>c. CASE Sync
  <2>1. best' = best /\ status' = status
    BY <1>c DEF Sync
  <2>2. \A t \in Writer : task'[t] = task[t] \/ (task[t].at = "put" /\ task'[t].at = "compare")
    BY <1>c, <1>t DEF Sync, CallsWell
  <2> QED BY <1>u, <2>1, <2>2
<1>d. ASSUME NEW t \in Writer, NEW b \in Block, Store(t, b) \/ UpdateBestChain(t, b)
      PROVE  /\ \A u \in Writer : task'[u].at \in {"work", "to_work"} =>
                                    best'.hash = task'[u].blk
             /\ \/ best'.work = PathWork[best'.hash]
                \/ \E u \in Writer : task'[u].at \in {"hash", "to_hash", "work", "to_work"}
  <2>1. best' = best /\ status' = status /\ task[t].at = "idle"
        /\ task'[t].at \notin {"hash", "to_hash", "work", "to_work"}
    BY <1>d, <1>t DEF Store, UpdateBestChain
  <2>2. \A u \in Writer : u = t
    BY DEF OneWriter
  <2> QED BY <1>u, <2>1, <2>2
<1>e. ASSUME NEW t \in Writer, Compare(t) \/ MoveHeight(t) \/ Flush(t)
      PROVE  /\ \A u \in Writer : task'[u].at \in {"work", "to_work"} =>
                                    best'.hash = task'[u].blk
             /\ \/ best'.work = PathWork[best'.hash]
                \/ \E u \in Writer : task'[u].at \in {"hash", "to_hash", "work", "to_work"}
  <2>1. \A u \in Writer : u = t
    BY DEF OneWriter
  <2>2. CASE Compare(t) \/ Flush(t)
    <3>1. best' = best /\ status' = status
          /\ task[t].at \notin {"hash", "to_hash", "work", "to_work"}
          /\ task'[t].at \notin {"hash", "to_hash", "work", "to_work"}
      BY <1>t, <2>2 DEF Compare, Flush, Idle
    <3> QED BY <1>u, <2>1, <3>1
  <2>3. CASE MoveHeight(t)
    <3>1. task'[t].at \in {"hash", "to_hash"}
      BY <1>t, <2>3 DEF MoveHeight
    <3> QED BY <2>1, <3>1
  <2> QED BY <1>e, <2>2, <2>3
<1>f. ASSUME NEW t \in Writer, MoveHash(t)
      PROVE  /\ \A u \in Writer : task'[u].at \in {"work", "to_work"} =>
                                    best'.hash = task'[u].blk
             /\ \/ best'.work = PathWork[best'.hash]
                \/ \E u \in Writer : task'[u].at \in {"hash", "to_hash", "work", "to_work"}
  <2>1. \A u \in Writer : u = t
    BY DEF OneWriter
  <2>2. task'[t].at \in {"work", "to_work"} /\ task'[t].blk = task[t].blk
        /\ best'.hash = task[t].blk
    BY <1>f, <1>t DEF MoveHash
  <2> QED BY <2>1, <2>2
<1>g. ASSUME NEW t \in Writer, MoveWork(t)
      PROVE  /\ \A u \in Writer : task'[u].at \in {"work", "to_work"} =>
                                    best'.hash = task'[u].blk
             /\ \/ best'.work = PathWork[best'.hash]
                \/ \E u \in Writer : task'[u].at \in {"hash", "to_hash", "work", "to_work"}
  <2>1. \A u \in Writer : u = t
    BY DEF OneWriter
  <2>2. task[t].at \in {"work", "to_work"} /\ status = "up" /\ made = Created
    BY <1>g, <1>t DEF MoveWork, CallsWell
  <2>3. best.hash = task[t].blk /\ Backed(task[t].blk)
    BY <1>t, <1>u, <2>2 DEF CallsBacked
  <2>4. CumulativeWork(task[t].blk) = PathWork[task[t].blk]
    BY <2>2, <2>3, BackedReadable DEF Running
  <2>5. best'.work = PathWork[task[t].blk] /\ best'.hash = best.hash
    BY <1>g, <1>t, <2>4 DEF MoveWork
  <2>6. task'[t].at \in {"idle", "flush"}
    BY <1>g, <1>t DEF MoveWork, Idle
  <2> QED BY <2>1, <2>3, <2>5, <2>6
<1>h. CASE OpenOrCreate \/ CreateNext \/ Open \/ Kill \/ PowerLoss
  BY <1>h DEF OpenOrCreate, CreateNext, Open, Kill, PowerLoss, Die
<1> QED BY <1>a, <1>b, <1>c, <1>d, <1>e, <1>f, <1>g, <1>h DEF Next

-----------------------------------------------------------------------------
(* Theorems. *)

\* The parts of the invariant hold of an empty disk.
LEMMA AdzInit == Init => AdzInv
<1> SUFFICES ASSUME Init PROVE AdzInv
  OBVIOUS
<1>1. TypeOK /\ CallsWell
  BY TypeInit
<1>2. /\ Len(disk.dat) = 0 /\ Len(disk.idx) = 0 /\ Len(disk.hgt) = 0 /\ disk.meta.height = 0
      /\ Len(flushed.dat) = 0 /\ Len(flushed.idx) = 0
      /\ ~ Running /\ put.at = "none" /\ status = "down" /\ acked = {} /\ durable = {}
      /\ \A t \in Writer : task[t].at = "idle"
  BY DEF Init, EmptyDisk, NoMeta, NoPut, Idle, Running
<1>3. WholeInv
  BY <1>2 DEF WholeInv, IndexWell, PutWell, Records
<1>4. DurableInv
  BY <1>2 DEF DurableInv, Begins
<1>5. FilesWell
  BY <1>2 DEF FilesWell, Records
<1>6. IntactInv /\ WorkInv
  BY <1>2, <1>5 DEF IntactInv, MemoryWell, CallsBacked, WorkInv
<1> QED BY <1>1, <1>3, <1>4, <1>6 DEF AdzInv

\* Every step keeps the whole of it.
LEMMA AdzStep == AdzInv /\ [Next]_vars => AdzInv'
<1> SUFFICES ASSUME AdzInv, [Next]_vars PROVE AdzInv'
  OBVIOUS
<1>1. TypeOK' /\ CallsWell' /\ WholeInv' /\ DurableInv'
  BY TypeStep, CallsStep, WholeStep, DurableStep DEF AdzInv
<1>2. ~ lost' => Intact
  BY LostStays DEF AdzInv, IntactInv, WholeInv, Whole, Intact
<1>3. IntactInv'
  <2>1. ~ lost' => FilesWell' /\ MemoryWell' /\ CallsBacked' /\ (made = Created => status # "failed")'
    BY <1>2, FilesStep, MemoryStep, BackedStep
  <2> QED BY <2>1 DEF IntactInv
<1>4. WorkInv'
  <2>1. CASE ~ lost'
    BY <1>2, <2>1, WorkStep DEF AdzInv
  <2>2. CASE lost'
    BY <2>2 DEF WorkInv
  <2> QED BY <2>1, <2>2
<1> QED BY <1>1, <1>3, <1>4 DEF AdzInv

\* The invariant, for every tree of blocks and any number of writers, kills and
\* power losses, with and without torn records.
THEOREM AdzInvariant == Spec => []AdzInv
BY AdzInit, AdzStep, PTL DEF Spec

\* A block put has returned Ok for, written or already known, can be read after
\* any kills until a power loss takes something, torn records or not.
THEOREM AckedStaysReadable == Spec => []AckedReadable
<1>1. ASSUME AdzInv PROVE AckedReadable
  <2> SUFFICES ASSUME status = "up", ~ lost, NEW b \in acked PROVE b \in Readable
    BY DEF AckedReadable
  <2>1. Intact /\ Running
    BY <1>1 DEF AdzInv, IntactInv, WholeInv, Whole, Intact, CallsWell, Running
  <2>2. Recorded(b) /\ ~ Hidden(b) /\ b \in Block
    BY <2>1 DEF Intact, FilesWell, Hidden, TypeOK
  <2> QED BY <2>1, <2>2, BackedReadable
<1>2. AdzInv => AckedReadable
  BY <1>1
<1> QED BY <1>2, AdzInvariant, PTL

\* What put has promised, when a power loss does not cut index records in two: a
\* block it has written and synced can be read by every later process, whatever
\* later power losses take, and the above.
THEOREM PromisesHold == ~ Tears => (Spec => []PromisesKept)
<1>1. ASSUME ~ Tears, AdzInv PROVE TypeOK /\ SyncedReadable
  <2>1. status = "up" => Running
    BY <1>1 DEF AdzInv, CallsWell, Running
  <2>2. SyncedReadable
    <3> SUFFICES ASSUME status = "up", NEW b \in durable PROVE b \in Readable
      BY DEF SyncedReadable
    <3>1. IndexWell /\ DurableInv /\ TypeOK
      BY <1>1 DEF AdzInv, WholeInv, Whole
    <3>2. /\ disk.dat \in Seq(Block) /\ disk.idx \in Seq(Record)
          /\ flushed.dat \in Seq(Block) /\ flushed.idx \in Seq(Record)
      BY <3>1, TypeFacts
    <3>3. Holds(disk.dat, disk.idx, b) /\ (put.at # "none" => put.blk # b)
      BY <1>1, <3>1, <3>2, HoldsMore DEF DurableInv
    <3>4. PICK i \in 1..Len(disk.idx) :
            disk.idx[i].key = b /\ disk.idx[i].at \in 1..Len(disk.dat) /\ disk.dat[disk.idx[i].at] = b
      BY <3>3 DEF Holds
    <3>5. mem.index[b] = disk.idx[i].at /\ b \in Block
      BY <2>1, <3>1, <3>3, <3>4 DEF IndexWell, Records, Hidden
    <3> QED BY <3>4, <3>5 DEF Readable, Reads
  <2> QED BY <1>1, <2>2 DEF AdzInv
<1>2. ASSUME ~ Tears PROVE AdzInv => TypeOK /\ SyncedReadable
  BY <1>1, <1>2
<1>3. ASSUME ~ Tears PROVE Spec => []PromisesKept
  <2>1. AdzInv => TypeOK /\ SyncedReadable
    BY <1>2, <1>3
  <2>2. TypeOK /\ SyncedReadable /\ AckedReadable <=> PromisesKept
    BY DEF PromisesKept
  <2> QED BY <2>1, <2>2, AdzInvariant, AckedStaysReadable, PTL
<1> QED BY <1>3

\* Whatever kills interrupt, a process that is up has a tip whose branch can be
\* read down to the genesis block; if one task at most writes, best_cumulative_work is
\* that branch's work whenever no call is under way.
THEOREM TipIsBacked == OneWriter => (Spec => []TipBacked)
<1>1. ASSUME OneWriter, AdzInv PROVE TipBacked
  <2> SUFFICES ASSUME status = "up", ~ lost
               PROVE  /\ Linked(best.hash, Readable)
                      /\ (\A t \in Writer : task[t].at = "idle") => best.work = PathWork[best.hash]
    BY DEF TipBacked
  <2>1. Intact /\ Running
    BY <1>1 DEF AdzInv, IntactInv, WholeInv, Whole, Intact, CallsWell, Running
  <2>2. Backed(best.hash)
    BY <2>1 DEF Intact, CallsBacked
  <2>3. (\A t \in Writer : task[t].at = "idle") => best.work = PathWork[best.hash]
    BY <1>1 DEF AdzInv, WorkInv
  <2> QED BY <2>1, <2>2, <2>3, BackedReadable
<1>2. ASSUME OneWriter PROVE Spec => []TipBacked
  <2>1. AdzInv => TipBacked
    BY <1>1, <1>2
  <2> QED BY <2>1, AdzInvariant, PTL
<1> QED BY <1>2

\* A created database opens again after any kills, whoever wrote and however far
\* the put that was interrupted had come.
THEOREM DatabaseOpensAgain == Spec => []OpensAgain
<1>1. AdzInv => OpensAgain
  BY DEF AdzInv, IntactInv, OpensAgain
<1> QED BY <1>1, AdzInvariant, PTL
===============================================================================
