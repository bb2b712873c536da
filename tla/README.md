# A TLA+ model of COINjecture 2.0

COINjecture is a proof-of-useful-work blockchain node written in Rust. This
directory holds a formal model of its core: TLA+ modules translated from the
code, TLC configurations that check them on small instances, and theorems that
TLAPS proves for every instance. `PROJECT.json` lists the runs, the mutants, the
lines each definition models, the hazards and the findings. Paths below are
relative to `src/`.

## 1. Inventory

| Component | State | Operations | Hard part |
|---|---|---|---|
| Chain store, `node/src/chain.rs` | three redb tables (blocks, metadata, height index), the tip cached behind two locks | open, `store_block`, `update_best_chain`, walks over `prev_hash` | one call is up to six commits and lock accesses; several tasks call it; crashes |
| Reorganization, `node/src/service/fork.rs` | none of its own: chain, ledger, sync buffer | find a candidate, find the ancestor, unwind, validate, store and apply, switch | runs in spawned tasks, reads long before it writes |
| Block import and mining, `service/mod.rs`, `service/mining.rs` | sync buffer (one block per height) | receive, buffer, drain, store then apply; mine, store, apply | four sources of blocks and no lock around "store and apply" |
| Ledger, `service/block_processing.rs`, `state/src/*` | balances and nonces, and tables for time locks, escrows, channels, trust lines, pools, marketplace | apply and unwind one transaction of about twenty kinds | a failed transaction keeps its partial effects; unwinding is computed, not recorded; wall clock |
| Epoch coordinator, `consensus/src/coordinator` | epoch, phase, peers, commits, own solution | four timers, four commands | every node by its own clock; messages lost or late; restarts |
| Peer consensus and sync planning, `node/src/peer_consensus.rs`, `sync_canonical.rs`, `service/mod.rs` | table of peers' tips with quarantine, sync buffer, health | update, expire, `should_mine`, plan a batch, drain, recover | decisions on stale tips; statuses and batches that come late |
| Mempool, `mempool/src/pool.rs` | heap, hash map, seen set, counters | add with eviction, template, remove | containers that must agree at the limit; four tasks that remove |
| Validation, difficulty, miner | none, or a target | pure functions | floating point |
| CPP network, `network/src/cpp/network.rs` | `peers`, `router`, connection counts, each behind a lock | dial, accept, handshake, register, message loop, sweep, commands | tasks and event loop take the locks in different orders; duplicate connections |
| Mesh network, `network/src/mesh` | table of peers, write channels, connection tasks | dial, handshake, connect, disconnect, heartbeat, peer exchange, redial | events that outlive their connection; duplicates dropped by each end on its own |
| Trust lines, dimensional pools, `state/src/trustlines.rs`, `dimensional_pools.rs` | a row per line, one per pool | open, limit, freeze, close, evolve; swap; shares of the reward | freezing and closing look at no status; pools are filled by the miner of a block only |
| AdzDB, `adzdb/src/lib.rs`, `node/src/chain_adzdb.rs` | four files, two indices and metadata in memory, the tip | create, open with recovery, `put`, `set_latest`, `store_block`, `update_best_chain` | what a kill or a power loss leaves of which file |
| Order book, `api-server/src/matching` | price levels, index, channel, outbox | place, cancel, match, save trades | one task owns all books and can end; handlers ask engine and database in turn |
| Indexer, `api-server/src/indexer` | a position in memory and in a row, rows per height | poll, fetch, process a block, roll back, save, restart | the node reorganizes between two calls; every call can fail, with or without effect |
| Dataset export, `huggingface/src` | queue by height, buffers, files at the hub | push, confirm, buffer, upload, flush | spawned tasks in any order; uploads fail; nothing is on disk |
| Tokenomics, wallet, light client | their own | see `PROJECT.json` | separate from the node's core |

How they interact: networks, RPC and the mining loop hand blocks to the import
code, which asks the validator, stores the block in the chain store and applies
it to the ledger; a block that does not extend the tip goes to the sync buffer
and may start a reorganization, which drives chain store and ledger in the same
way from a task of its own. The coordinator gives the mining loop its epochs and
gets its solutions; commits travel over the mesh. All of it runs on one tokio
runtime with several worker threads (`node/src/main.rs`), and chain and ledger
are different databases without a transaction in common.

What makes each part correct:

* chain store: tip, work, index and cache tell the same story, on disk after any
  crash and in memory between calls;
* reorganization: the ledger is the one of the canonical chain; a switch gains
  work and stays above the anchor; the tip is always backed by stored blocks;
* ledger: nothing is created or overdrawn, what is locked is paid once and to
  the right party, unwinding reverses applying;
* coordinator: commits count for the epoch they were made for, a winner can
  build its block, nodes that see everything agree, epochs go on;
* mempool: its containers agree at the limits, templates are fair also to
  transfers without a fee, and what was executed leaves;
* peer consensus and sync: a node that is behind catches up, a node in sync may
  mine, a node alone may not;
* AdzDB: after any crash what is found is a prefix of what was written, and the
  tip is among it;
* order book: book and index agree, priority of price and time, answers tell what
  happened, every caller is answered;
* indexer: no height is missing or mixed of two blocks, and it is the node's chain;
* networks: the tables that say who is connected agree, slots come back, no task
  waits for ever, and nodes end up linked.

## 2. Modules

| Module | Models |
|---|---|
| `BlockTree` | the headers that exist: a finite tree with heights and work |
| `CanonicalChain` | abstract: known blocks, a durable tip that is extended by its successor or switched on request |
| `ChainStore` | `ChainState`, one action per commit or lock access |
| `Ledger` | the ledger as a record, one operator per transaction kind |
| `BlockLedger` | `apply_block_transactions`, `unwind_block_transactions` as folds |
| `Execution` | a node's ledger under any sequence of transactions, with a wall clock |
| `Reorg` | importers, miner and reorganization attempts over chain and ledger; composes `CanonicalChain`'s view of the store with `BlockLedger` |
| `EpochCoordinator` | the coordinators of several nodes and the commits between them |
| `Mempool` | the pool at its limits, templates, the tasks that execute and remove |
| `CppPeers` | connections of the CPP network as tasks on fair reader-writer locks, with event loop and sweep |
| `PeerSync` | a node that syncs from its peers: CPP requests and statuses, the events to the node service, the peer table, buffer, health; composes `network.rs`, `service/mod.rs` and `peer_consensus.rs` |
| `Mesh` | several mesh nodes, their connections and tables |
| `AdzDB` | the other chain store: files, their flushed part, memory, one action per write |
| `OrderBook` | matching engine, handlers and trade outbox of the API server |
| `Indexer` | the API server's copy of confirmed blocks in a database, one action per call |
| `BlockTreeProofs` | lemmas about branches of a tree, used by the four modules of theorems over one |
| `ChainStoreProofs`, `ReorgProofs`, `ExecutionProofs`, `AdzDBProofs` | theorems, each about the module it is named for |
| `ApiServerProofs` | theorems about `OrderBook` and `Indexer` |
| `MiningProofs` | theorems about `EpochCoordinator` and `Mempool` |
| `NetworkProofs` | theorems about `CppPeers` and `Mesh` |
| `MC*` | instances for TLC |

Where one module proves about two, one of the two gives its initial state, steps
and specification names of its own (`PoolInit`, `PoolNext`, `PoolSpec`; `BookInit`,
`BookNext`, `BookSpec`; `CppSpec`, `MeshSpec`).

Correspondence in short.

*ChainStore.* `stored`, `meta`, `index` are the tables; `best` the two locks;
`pc` and `reg` the program counter and locals of the call each task is in. Every
action ends where the code commits, takes a lock or returns. `Crash` may happen
between any two actions, keeps the tables and loses the rest; the open actions
are `ChainState::new`.

*Ledger.* The code's checks are the operators' conditions, in the code's order.
An operator returns the ledger with whatever had been written when the code
returned an error. Fees are debited and credited to nobody, as in the code. The
operations on a trust line share `WriteLine`: fee and nonce go first, then the row
if the checks allow it. A line's balance is always zero (`update_balance` has no
caller) and is not kept. The factors of the pools are natural numbers in place of
the doubles; the instance uses pools whose quotient is a power of two, for which
the code's product is exact too.

*Execution.* `Coinbase` includes what the mining loop adds to the pools before it
applies a block of its own (`FillPools`), or nothing for a block of another node.
Unlock schedules and yields only differ from it in the amount.

*Reorg.* The pools are left out (`Pool` is empty): the bodies of its blocks carry no
swap, and nothing else reads them. `task[t]` is where an importer or the miner is between its awaits,
`job[r]` what an attempt has read and what it has left to unwind and apply.
`store_block` and `update_best_chain` are one step each, which is what
`ChainStore` is shown to implement for one writer at a time. `Validate` follows
`Unwind` as in `reorganize_chain`; a failure leaves the ledger unwound. The
ledger and the chain survive `Crash`, each as it was.
`upsets` is a history variable: it counts the steps in which tasks get in each
other's way (`Undisturbed` says which), so that one module serves both for what
holds of a node whose tasks happen to take turns and for what holds always.

*EpochCoordinator.* Each node's timer expiry is one action, each command
another. `sent` keeps every commit ever broadcast, and `CommitReceived` may use
any of them any time or never: loss, delay, duplication and reordering in one.

*Mempool.* `pool` has the heap as a function from hashes to their arrival,
`byHash`, `seen` and the counters; `Added` is the admission with `Evict`,
`Templates` the set of templates the two sorts may give, `leaving[t]` what task `t`
has executed and is about to remove. `RemoveAll` is the loop around `remove` in
closed form. Executing a transaction is reduced to
whether its sender can pay (`CanPay`).

*CppPeers.* `lock[l]` is the queue of Tokio's fair lock `l`: a request is
granted when all before it are compatible. `pc[c]` is where the task of
connection `c` is, `pc[Net]` the event loop. The connection counts are
`security.rs`'s; `dead` is the set of connections whose other end fell silent.

*PeerSync.* Four layers with a queue between each: what was asked of peers, the
statuses and batches on their way, the events of the CPP network to the node
service, and the peer table with its timers. The chain is a height; whose blocks
they are is left to `Reorg`.

*Mesh.* `links` are the TCP connections with, for each end, whether its
handshake is due and its read and write tasks run; `writers`, `known` (the peers of
`PeerManager`) and `joined` the three views of who is connected; `events` what is on its way to an
event loop. A task that ends reports the peer, not the connection. There are at
least as many names of connections as first dials (`FirstDials`). The ends of a
connection are told apart by who dialled (`Side`), because a node can be at both.

*AdzDB.* `disk` is what the operating system has of the files and survives a
kill, `flushed` what survives a power loss, which may keep any part of the rest of
each file on its own. `put` is one action per file it writes (`WriteData`,
`WriteIndex`, `WriteHeight`, `WriteMeta`, `Sync`); `Open` reads the records back
as `load_hash_index` and `load_height_index` do (`LoadIndex`, `LoadHeights`).

*OrderBook.* A handler puts its request into `queue` and waits; `call[o]` is where
the handler of order `o` is and `answer[o]` what it was told. `Submit`, `TakeOut`
and `Panic` are the engine's turn with one request: the walk over the opposite
side (`Matched`, one trade per turn in `Meet`), what rests (`InsertResting`), what is
answered (`Result`) and reported. `index` is `order_index`, `outbox`
and `streamed` the trades that are still to be saved and those published. A panic
ends the engine (`up`), after which callers get their answer from the closed
channel.

*Indexer.* `rows` and `parts` are the tables by height, `sync` and `saved` the
position in memory and in its row, `at`, `next`, `end`, `blk` the loop. A call
that fails may have had its effect. `named`, chosen at the start, says whether
the JSON of a block names its hash: the node of this repository gives none, other
nodes the code allows for do. `left`, `wild` and `forgot` are history: what the
node's chain left, that it came back to it or fell below the batch, and that the
position was taken back without being saved, be it by a reset or by a start at
which the row could not be read.

## 3. Runs and bounds

| Run | Instance | Shows |
|---|---|---|
| `chain_store` | six blocks in two branches of length 2 and 3, one writer, 2 crashes | five properties, among them the refinement of `CanonicalChain` |
| `execution` | three accounts, one escrow, channel, problem and trust line, two pools, 30 transactions, 5 executed, 2 clock ticks | six properties of the ledger, among them that what is settled stays settled |
| `reorg` | seven blocks, three branches, one of them ending in an invalid block and one below the anchor; importer, miner, one attempt; one disturbance, one crash | undisturbed, the ledger follows the chain and the tip is extended or moved to more work, above the anchor; always, the tip is linked and the chain moves as `CanonicalChain` says |
| `reorg_poor` | accounts that own little | finding: unwinding order |
| `epochs` | two nodes, two epochs, a restart; scores such that a tie comes before a lead (`Reach`) | `CommitsSound`, agreement, and that epochs advance |
| `mempool` | six transactions, a pool for three, templates of two with one slot | `PoolSound`, executed transactions leave, and liveness for transfers without a fee |
| `network` | a peer that connects while it is dialled, and nobody else, so that the router may be empty | `TablesSound`, that nothing but crossed locks keeps the event loop from coming back, and that silent peers go |
| `sync` | a chain of three blocks, batches of two, a peer that has it and one a block behind; one connection lost; one request open at each peer and one event under way at a time, save the status that a disconnection overtakes | three liveness properties |
| `mesh` | three beginnings: three nodes, two with the third as seed, and a break; two nodes that dial each other, and a break; the same two, one of which dials itself too, and a late tick; six connection names | the views agree; the mesh forms unless a handshake fails |
| `adzdb` | four blocks in two branches, two kills and a power loss at any write | what was promised is read back; recovery finds the tip and its branch; every start succeeds |
| `orders` | three orders of ten kinds, cancellations, a channel for two, an engine that may end | the book is in order, serves by price and time, and answers truthfully and always |
| `indexer` | nine blocks in four branches, batches of two, two failed calls, two crashes; the node of this repository and one that names hashes | no gaps or halves behind the first, the node's own chain behind the second, and it catches up |

Eight modules have one invariant that is listed for the run and named for what it
says as a whole: `ChainSound` (`Reorg`), `CommitsSound` (`EpochCoordinator`),
`PoolSound` (`Mempool`), `TablesSound` (`CppPeers`), `ViewsSound` (`Mesh`),
`PromisesKept` (`AdzDB`), `BookSound` (`OrderBook`) and `IndexSound` (`Indexer`)
are each the type invariant with the safety properties named in their
definitions. The type invariants of `ChainStore` and `Execution` are proved
(section 5) and not run; `PeerSync`'s is part of no run's list and holds in
`sync` if it is added there.

Why the bounds are enough to be interesting: two branches with different lengths
and works contain every relation of heights, works and ancestors the code tests;
two crashes allow one in the recovery from another; five transactions suffice to
open, dispute and settle each kind of row and to contest it; the accounts own so
little that deposits also fail; two epochs suffice for everything late or early
to meet the wrong one. `MinAnchor` is 1 instead of 6 so that branches above and
below the anchor fit in a small tree. `LedgerFollowsTip` in `reorg` depends on
accounts that never run dry; `reorg_poor` shows why. What that means is stated as
`BranchesUnwind`, and `MCReorg` assumes (so TLC evaluates) that it tells the bodies
of the two runs apart (`BodiesDiffer`). The
indexer's lead of 10 blocks and its batches of 100 are 0 and 2, so that a tip two
blocks lower resets it, a batch ends in the middle of a branch, and a rollback
finds a fork above the genesis block only after a crash; the second crash brings back a
position that the first start could not read (section 6). A pool for three of six
transactions is full, evicts and refuses; with one slot and templates of two,
transfers without a fee compete with each other and with better paying ones. Two
connections of one peer and the event loop contain every duplicate and every
order of two lock requests with a third in between, the deadlock included
(`LocksCrossed` is reached); limits that turn a connection away are left to the
theorem `PeerTablesSound`. Batches of two over three
blocks make a batch end below, at and above a peer's height. In the mesh, names
of connections are used again only when nothing refers to them; six are enough
that a node can always dial, so that the run is not stuck for want of one. A
connection may break at any moment, in the middle of a handshake and between the
two ends as well. `Setups` bounds how many do, and how many of the ticks that
come every few seconds find a handshake or an event still under way. `MaxDrops`, `MaxEvents`, `MaxAsked` bound what is lost and
on its way in `sync`. `CHECK_DEADLOCK FALSE` is used everywhere because every
counter is bounded and an instance may run out, or, in the networks, come to
rest.

Every passing property is also run against a faulty variant of the code (the
operators commented "Faulty variant"), which must violate it.

## 4. Fairness

*EpochCoordinator*: weak fairness of each node's `Expire`. The coordinator's
loop is a `tokio::select!` over its command channel and a sleep until the end of
the phase, computed anew from the phase's start time on each turn, so commands
never postpone it. Nothing is assumed of commits, solutions, peers or restarts.
Restarts are bounded; a node restarted forever does not advance.

*Mempool*: a node that mines goes on finding blocks, and a task that executed a
received block gets the pool's lock, which is fair, to remove its transactions.
Nothing is assumed of what is received.

*CppPeers*: weak fairness of each connection's task and of the event loop once it
has taken something up: the runtime polls every task, a lock is granted to who is
first in its queue, and a read from a silent peer times out. Nothing makes peers
speak, dial or go, nor commands come. Where event loop and connections wait for
each other's locks no fairness helps: both liveness properties except that state
(`LocksCrossed`) and nothing else.

*PeerSync*: the node handles its events, tells the network its height and its
timers fire (weak fairness). A connected peer sends its status every ten seconds
and answers what it is asked; both are strongly fair, because the model's bound on
the queue disables them while it is full, which the unbounded channel never is.
Peers that come and leave are up to the environment; the properties are of the
form "if it stays so, then".

*OrderBook*: the engine's task serves what is in its channel, the outbox drains its
stream, a handler that found the channel closed goes on.

*Indexer*: its loop goes on while the process runs; failures and crashes are
bounded, the node's chain moves as it likes.

For both it is assumed that a request to Supabase returns in the end, with an
answer or an error. The client has no timeout of its own (`api-server/src/supabase.rs:70`),
so a request that hangs for good would stop the outbox or the indexer for good.

*Mesh*: event loops, connection tasks and timers run; breaks and late ticks are
bounded and not fair. A dial that fails is not repeated by anybody, and
`MeshForms` promises nothing once a handshake has failed (`failed`).

## 5. What is proved

Every theorem is for every value of the constants that meets its module's
assumption (`BlockTreeAssumption`, `ChainStoreAssumption`, `ReorgAssumption`,
`LedgerAssumption`, `ExecutionAssumption`, `EpochCoordinatorAssumption`,
`MempoolAssumption`, `AdzDBAssumption`, `CppPeersAssumption`, `MeshAssumption`, `OrderBookAssumption`,
`IndexerAssumption`). A hypothesis beyond
that is named below, with the reason it is needed. Each invariant is the
conjunction of named parts, and the proof of a step has one part per action.

| Theorem | Property | Inductive invariant |
|---|---|---|
| `TypeCorrect`, `DurableTipIsLinked` | `DurableTipLinked` | `DurableInv` |
| `WorkFollowsTip`, `CacheFollowsDisk`, `ImplementsCanonicalChain` | `WorkMatchesTip`, `CacheMatchesDisk`, `RefinesCanonicalChain` | `SerialInv` |
| `IndexFollowsTip` | `IndexMatchesTip` | `SerialInv`, `IndexInv` |
| `ReorgKeepsChain`, `ReorgRefinesChain` | `ChainSound`, `RefinesCanonicalChain` | `ChainInv` |
| `QuietTipMovesUp` | `TipMovesUp` | `ChainInv`, `QuietInv` |
| `QuietLedgerFollows` | `LedgerFollowsTip` | `ChainInv`, `QuietInv`, `LedgerInv` |
| `TypeCorrect`, `BountyPaidOnce`, `ChannelStaysBalanced`, `NoEarlyRefund`, `SettledStays`, `TransfersUnwind` | `BountyFollowsStatus`, `ChannelBalanced`, `RefundAfterTimeout`, `SettledForGood`, `TransferUnwinds` | `IInv` |
| `NoMoneyFromNothing` | `NoInflation` | `IInv`, `MoneyInv` |
| `CoordinatorsSound`, `CoordinatorsAgree` | `CommitsSound`, `UnanimousAgreement` | `EInv` |
| `PoolStaysSound`, `ExecutedLeavesPool` | `PoolSound`, `MinedLeaves` | `PoolInv` |
| `AckedStaysReadable`, `PromisesHold`, `TipIsBacked`, `DatabaseOpensAgain` | `PromisesKept`, `TipBacked`, `OpensAgain` | `AdzInv` |
| `PeerTablesSound` | `TablesSound` | `PeersInv` |
| `ViewsNeverPart` | `ViewsSound` | `MeshInv` |
| `BookStaysSound`, `AnswersStayTrue`, `ServedInOrder`, `CancelledIsOver` | `BookSound`, `AnswersTrue`, `PriceTime`, `CancelledStops` | `BookInv` |
| `NothingMissing`, `IndexIsChain` | `IndexSound`, `IndexedBelow` | `IndexInv` |

*Branches.* `BlockTree` gives a branch as a set of blocks with its properties, and
`BlockTreeProofs` derives what the others need: a branch has one block per height
(`BlockAtHeight`), every block of it has its parent on it down to genesis
(`PathBelow`, `PathChain`, `PathFull`), and two branches share what lies at or
below their last common block (`CommonBranch`).

*Induction over data.* The library's induction theorems take an operator as
parameter, which the provers cannot instantiate. Where a proof needs one it takes
the smallest counterexample instead: the set of the numbers at which the claim
fails has a least element by well-foundedness (`LeastExists`, `TreeInduction`),
and the case below it contradicts that. This is how `BlockTreeProofs` walks a
branch, how `MiningProofs` shows that a recursive definition over a sequence has the
value its equations say (`RecursionExists`, `RecursionKeeps`), how `ReorgProofs` does
it for recursions over a branch (`ReplayStep`, `UnwoundStep`), how `ApiServerProofs`
goes through the trades of an order and the turns of the matching loop (`AmountAdds`,
`MatchedOK`), how `ExecutionProofs` shows that a fold over a finite set changes by what
one element changes (`SumExists`, `TotalChange`, `TotalMore`), and how `NetworkProofs`
numbers the first dials of the mesh.

*Chain store, any tree, any number of tasks and crashes.* `TypeCorrect`, and
`DurableTipIsLinked`. The latter is not inductive: a call in progress must be
known to hold a linked block, which `CallLinked` adds.

*Chain store, one writer (`SingleWriter`).* `SerialInv` says for each value of
`pc` what the call has already moved and what it has read. The assumption is
needed: with two writers, one reads the work, the other switches branches, and
the first writes a sum that is of neither branch. `IndexInv` adds how far the
walk of a switch has brought the height index: the new branch above its cursor is
in place, and the cursor goes down to genesis. Before the first crash only: a
crash in the walk leaves entries of the old branch, which no start repairs.
The refinement maps `known`, `tip`, `asked` to `stored`, `meta.hash` and the
targets of switches not yet committed.

*Reorganization, any number of tasks.* `ChainInv` needs of an attempt that what
it will not store any more is stored (`NewCovered`), and that it has something
new (`SomeNew`); then whatever it switches to is linked, and `ReorgRefinesChain`
is a case per action. `TipMovesUp` is about tasks that take turns, and rests on
`QuietInv`: as long as nobody was disturbed at most one task is in the middle of
something, what an attempt has read is still so (`AsRead`), and its target is a
heavier branch, or lies ahead of a tip that follows the blocks being stored
(`Justified`). The second half was found by the proof: storing the blocks of such
an attempt extends the tip by blocks of any weight, so the property says
"extended, or moved to more work".

*The ledger of a node at rest (`BranchesUnwind`).* A switch adds up only if
unwinding a branch, lowest block first, gives back the ledger of the fork. For all
bodies it does not, which is the finding of `reorg_poor`; so this is a hypothesis,
about `BlockLedger` and the bodies alone, without tasks, tips or attempts: from the
ledger of a branch, `UnwindBody` block after block leads to the ledger of any block
of it at or above `MinAnchor`. `QuietLedgerFollows` shows that nothing else is
needed. `LedgerInv` says what the ledger is at every point in between: of a tip
stored and not yet applied, its parent's (`ToApply`); of an attempt, the old branch
unwound up to a block (`HalfUnwound`), later the new one replayed up to a block
(`HalfApplied`). It rests on `QuietInv`: the old branch is computed from a tip and a
buffer read before, and that these are still as read is also why an attempt nobody
disturbs never takes the way from genesis, which would unwind in the other order.

*Ledger, any accounts, transactions and keys.* `Invariance` shows `IInv`, the
ledger's type with three facts about its rows, preserved by every kind of
transaction; `TypeCorrect`, `BountyPaidOnce`, `ChannelStaysBalanced` and
`NoEarlyRefund` follow from it. Three theorems are about steps or sums.
`TransfersUnwind`: `UnwindTransfer` and `UnwindTimeLock` reverse an executed
transfer or lock, also when sender and recipient are the same account.
`SettledStays`: no transaction changes what is settled; one lemma per operation
says which table it writes and that the row it writes was not settled
(`OneTableSettles`), and only the resolution of an escrow also needs the
accounts, because its amount must go to the party the new status names and to
nobody else. `NoMoneyFromNothing`: a lemma per kind of transaction shows it
`Thrifty`, that is, the sum of balances, time locks, escrows and bounties does not
grow, also when it fails half way. The sum is over finite sets, which the
assumption asks for.

*Epoch coordinator, any number of nodes and epochs.* A collector's commits are
genuine because it is emptied with the epoch. `KeptSolution` is what makes
`WinnerBuilds` inductive. For agreement, `EInv` counts: as long as nobody
restarted a node commits to an epoch once (`OneCommit`, with `NoneAhead` and
`OwedOnce`), and a quorum of a mesh of up to three nodes is all of it, so that
all who counted it chose the best commit there is (`CountedAll`).

*Mempool, any transactions, fees, limits and blocks of peers.* The parts of
the pool keep agreeing (`PoolOK`) because eviction and removal take the same
transaction out of all of them, and admission adds only when there was room or
after one eviction (`AddedOK`). `PoolInv` adds that a miner with a template owes the
pool nothing, so that what its block executed is not overwritten in `leaving`
before it was removed, and that only signed transactions are about. That a
template is fair is no invariant but a fact about the operator (`TemplateIsFair`),
for any contents of the pool: a template is three lists one behind the other, each
the first places of a sort of what the lists before left over (`TemplateParts`), so
what is left out comes behind everything taken in at least one full list
(`TakenTwice`). The attempt to prove it showed that it needs `Slots <= MaxTotal`,
true of the code's constants (10 and 100) and now assumed: with more slots than
places the zero-fee transfers could not fill them. `ExecutedLeavesPool` says of
every transaction that was executed who still has to remove it; it rests on
`leaving` being taken from the same fold `Run` that counted the execution
(`ExecuteOK`).

*AdzDB, any number of kills, power losses and callers.* `AdzInv` says what holds
as long as records are whole (`WholeInv`), of what was synced in every case but
torn index records (`DurableInv`), and until a power loss (`IntactInv`, which
relates the four files, memory and the position within a `put`). `PromisesHold`
is for `~ Tears`; with torn records the promise is broken (section 6). `TipIsBacked`
is for one writer: with two, the tip's hash and its work may be of different
blocks (`WorkInv`). The node does not keep to that, since the store is handed to
the same tasks as the other one (`service/mod.rs:12`); `AdzInvariant`,
`AckedStaysReadable`, `PromisesHold` and `DatabaseOpensAgain` are for any number
of writers.

*CPP network, any number of connections, peers, addresses and limits.*
`TablesSound` needs to know who has which lock. `LockInv` says that a task is in
the queues of exactly the locks its place uses, and has been granted those it has
kept from its last place (`Retains`: four places ask for a lock with another in
hand); `Exclusive` that who is granted a write is alone. So between the two halves of a
registration or a removal nobody changes the table of peers, and table and router
come together again (`Routed`). `Slots` counts an outbound connection in its subnet
only from the message loop on, since it is not counted before and gives back one
slot when it ends; `Entries` bounds the timeouts of an entry by the connections that
are about to remove it. Nothing is said of progress: the same locks, taken in two
orders, can stop everyone (section 6).

*Mesh, any number of nodes, connections and late ticks, any seeds.* `ViewsAgree` is
close to inductive; what it needs is that events are about nodes, and that the
node itself, which `register_peer` refuses, is left out of the comparison with the
table. Most of the proof is about the initial dials and the names they get.

*Order book, any orders and terms, any capacity of the channel.* `BookInv` keeps
more than `BookSound`: the orders of a level come in the order of their ids, and
none has traded more than its `filled` says (`LevelOK`; less is possible, after a
fill-or-kill order that was not filled). The channel is part of it: an order still to
be submitted is younger than everything that rests (`QueueOK`), so that appending it
keeps the order of time, and has no trade and no answer yet (`CallsOK`). The
matching is a walk of turns, each of which keeps `WalkOK`: the book is in order when
the trades so far are counted (`WalkBook`), both orders allow every trade
(`WalkTrades`), the amounts add up (`WalkAmounts`), and what is ahead of an order
with a trade is gone and has traded (`WalkOrder`). A turn trades at least 1, so
after as many turns as the order asks for nothing is left of it or nothing it would
take (`MatchedOK`); that the rest does not cross the other side, and that the answer
is true for each of the four kinds, follow from there. `ServedInOrder` is `WalkOrder`
at the end of the walk. `CancelledIsOver` holds because an order called cancelled is
neither in the index nor being placed.

*Indexer, any chain, any number of failures and crashes.* `Nameless` is the
invariant behind this repository's node, `Named` and `Tame` behind one that names
hashes. The attempt to prove the first found it wrong: a start at which the row of
`sync_state` cannot be read makes the loop begin at genesis, and a crash before
it has caught up brings back the higher position above blocks written by halves.
Two crashes are needed, and the run had one; it now has two, and the property
excepts such a start (`forgot`), as it does a reset that was not saved.

Only model-checked:

* that given bodies satisfy `BranchesUnwind`: a fold over blocks and transactions,
  evaluated for the bodies of `reorg`;
* everything about `PeerSync`, and all liveness, which with `ENABLED` and fairness
  is out of the prover's reach.

## 6. Findings

One run, `reorg_poor`, shows the code departing from what it says of itself;
`PROJECT.json` quotes it. Blocks are unwound oldest first because a list is
reversed twice, and where a later block spends what an earlier one paid the
ledger does not come back.

### Observations

Met while modelling and not given a run of their own. Where a property is named
it is defined in the module and does not hold; listing it in the run's `.cfg`
(with what is said in brackets) gives the behaviour.

* coordinator, `SameViewAgreement` [three nodes, `Reach <- MCAny`, one score, one
  epoch, no restart]: `commit.rs:11` says of the tie-break "This ensures all
  honest nodes agree on the same winner", but a commit from outside the peer set
  counts for the quorum (`commit.rs:184`) and may have reached only one of two
  nodes that count the same peers;
* mempool, `ExecutedOnce`: `SECURITY.md:75` says "Per-account nonces prevent
  transaction replay"; a transaction delivered again after its block is executed
  again, since no nonce is compared (`block_processing.rs:823`);
* CPP network, `EventLoopReturns`: `network.rs:1332` speaks of "without blocking
  the CPP event loop". A task that registers a peer holds `peers` while it waits for `router`
  (`network.rs:779`), the event loop with no peer in the router the other way
  round (`network.rs:1889`); with a writer queued in between neither gets on.
  `OnlyCrossedLocksBlock` says that this is all that keeps it;
* ledger, `ExpiredRefunded`: `docs/ARCHITECTURE.md:129` says "OPEN → EXPIRED
  (expiration deadline → bounty refunded)" and `README.md:167` the same. A
  solution that comes too late marks its problem expired and fails
  (`marketplace.rs:212`); nothing else does, nothing refunds, and what is expired
  stays as it is. `BountyFollowsStatus` leaves expired problems out;
* mesh, `Reconnected`: `mesh/connection.rs:32` says of the state `Dead` "Connection
  lost, scheduled for reconnection". Only the lower of two ids dials again, and only
  a peer its own table says is `Dead` (`peer_manager.rs:155`). A dial that fails
  tells nobody (`mesh/mod.rs:275`, `:305`): after a first dial there is no entry,
  after a redial it stays `Connecting` (`:599`);
* mesh, `NoSelfConnection`: `peer_manager.rs:43` keeps the node's own id "to avoid
  self-connections". A node with its own address among its seeds is connected to
  itself: the table refuses the entry (`:91`), the channel is kept
  (`mesh/mod.rs:422`) and the coordinator told of a peer;
* AdzDB, `HeightReached`: `docs/db/WAL_AND_RECOVERY.md:62` says a partial write
  "triggers a re-sync of that block". A put killed after the index record leaves
  the block known by its hash; putting it again writes nothing (`lib.rs:532`), so
  every restart comes up below it;
* AdzDB, `SyncedReadable` [`Tears = TRUE`]: `WAL_AND_RECOVERY.md:42` says a
  partial record at the end "is ignored". `put` appends behind it and
  `load_hash_index` reads all later records out of step (`lib.rs:487`);
* order book, `GoneIsTraded`: a fill-or-kill order that cannot be filled, which
  `test_fok_rejects_partial` (`order_book.rs:481`) expects to leave no trace, has
  filled and removed resting orders before it is refused (`order_book.rs:88`);
* order book, `RestingPriced`: `place_order` accepts a limit order without a
  price; it rests, and the `expect` in `order_book.rs:235` ends the task that owns
  every book;
* indexer, `RowsLinked`: a reorganization is noticed by the hash of the last block
  indexed, which the JSON of this repository's node does not name
  (`rpc/src/server.rs:989`, `wallet_activity.rs:60`), so it goes on with the other
  branch above blocks of the abandoned one (`service.rs:98`);
* indexer: when the row of `sync_state` cannot be read at a start, the error is
  logged and indexing begins at genesis, with the higher position still in the
  row (`service.rs:48`); a crash within that leaves the row's position above a
  block whose details were deleted and not written again. `Complete` excepts it;
* indexer, `RollbackKeeps`: behind a node that names hashes the fork is looked up
  by the parent of a block on the new branch, of which the index has no row, and
  everything is rolled back (`event_processor.rs:168`), against "will resume from
  fork point" (`service.rs:127`);
* dataset export (a study that is not part of this directory): confirmations are
  counted by height on any branch, so an abandoned block is exported
  (`huggingface/src/lib.rs:240`); tasks spawned per block fill a queue that is
  read as if sorted (`lib.rs:246`); files are named by the second, so that two
  uploads in one second are one file (`client.rs:457`);
* chain store: two writers at once corrupt `cum_work` (`chain.rs:475`); a crash
  in the first start leaves a database without its genesis block for good
  (`chain.rs:121`);
* ledger: unwinding a submitted problem pays the bounty back and keeps its row
  (`block_processing.rs:771`); deposits are lost
  or paid although a transaction fails (`block_processing.rs:888`, `:1054`);
* pools: a swap takes an amount out of both pools and pays nobody
  (`dimensional_pools.rs:310`); a block's shares and yields are added by the node
  that mined it and by no other (`mining.rs:395`), so the pools are not a function
  of the chain;
* trust lines: a closed line can be frozen and its phase moved
  (`trustlines.rs:349`, `:292`);
* RPC: the marketplace handlers read a balance, write to the marketplace and then
  set the balance from the first reading (`server.rs:1318`); a block applied in
  between has its change to that account overwritten;
* reorganization: validation after unwinding (`fork.rs:1159`), the anchor as an
  absolute height (`fork.rs:849`), the mining loop ignoring `is_new_best`
  (`mining.rs:306`);
* coordinator: a stall counter that `start_epoch` resets before it can reach its
  limit (`coordinator/mod.rs:319`), blocks that are broadcast without being
  stored (`service/mod.rs:2296`);
* mempool: the peek at the heap's end is of its best entry, not its worst
  (`pool.rs:175`); transactions a block skipped are removed with the others
  (`service/mod.rs:1376`); a reorganization puts none back;
* CPP network: `chain_state` is read-locked across a handshake
  (`network.rs:705`), so a slow peer stalls the update of the node's own tip; the
  sweep and the message loop may both give a slot back (`network.rs:2048`);
  duplicate connections report a peer connected that is never reported gone;
* sync: an honest peer is quarantined in a long sync, because the first block of
  a batch is compared with the node's own database (`sync_canonical.rs:140`);
* mesh: a discovered peer whose one dial fails, and a seed, are
  not dialled again by anyone with a higher id; each end drops a duplicate
  connection on its own, so that one may be left that is read and never written
  (`mesh/mod.rs:416`); the read task starts before the event loop is told
  of the connection, so that `Disconnected` may come before `Connected`
  (`mesh/connection.rs:392`).

## 7. Not modelled

Every component left out is listed in `PROJECT.json` with its reason. Within the
modelled parts: private problems; locked and unlocked shares of a pool, consensus metrics and
Viviani figures; `total_minted_rewards`;
salt and leader; signatures and the validity of blocks and solutions, which are
constants of the instance (`Valid`, `good`, `from`); integer widths of balances
(u128, far above the total supply). The crash between the databases a single
transaction writes is not opened up: one transaction is one step. Of the
networks, what messages contain, bans, scores, rate limits and encryption. Of
the mesh, restarts, and dials that fail although the connection is whole, by a
refused connection or a timeout, whose effect is that of `HandshakeFails`.

## 8. Plan

1. `Ledger` extended by private problems, a transaction split at the databases it
   writes, and beside it the marketplace handlers of the RPC server
   (`rpc/src/server.rs`), which read and write balances one at a time.
2. `MeshGossip` and `FlowControl`: deduplication, windows.
3. The dataset exporter: tasks, queue of confirmations, buffers and uploads.
4. AdzDB's account store, staking and governance, WebSocket RPC.

Abstract specifications worth adding: a ledger of claims that `Execution`
implements (`SettledForGood` is its step), and agreement per epoch (for `EpochCoordinator`, for what
does hold of it).
