------------------------------ MODULE Mempool --------------------------------
(***************************************************************************)
(* The transaction pool (mempool/src/pool.rs) and the tasks of a node that *)
(* use it.  Transactions come from RPC, WebSocket, the CPP and the mesh    *)
(* network; the mining loop takes block templates; blocks, mined here or   *)
(* received, execute their transactions, and only later, under the pool's  *)
(* lock, are these removed.                                                *)
(*                                                                         *)
(* Of the ledger this module keeps the balances: a transaction executes if *)
(* its sender can pay for it and is skipped otherwise; nonces are written, *)
(* never compared (module Ledger has the rest).  Every transaction has the *)
(* same size: pool.rs takes size_of the enum.  Left out: block rewards,    *)
(* the counters of PoolStats that nothing reads, and a clock that runs     *)
(* backwards.                                                              *)
(***************************************************************************)
EXTENDS Integers, Sequences, FiniteSets, SequencesExt

CONSTANTS
  Tx,          \* transactions, identified with their hashes
  Account,
  From, To,    \* the sender, and the receiver of the amount
  Amount, Fee,
  Funds,       \* what every account has at the start
  Transfer,    \* the simple transfers among them
  Charged,     \* those for which required_minimum_fee asks the pool's minimum
  Signed,      \* those whose signature verifies
  Resent,      \* those that may be sent again after they were executed
  PeerBody,    \* what the blocks of peers may contain
  MinFee,      \* PoolConfig: min_fee,
  MaxTxs,      \*   max_transactions,
  MaxSize,     \*   max_size_bytes, in sizes of a transaction
  MaxTotal,    \* BLOCK_TEMPLATE_MAX_TRANSACTIONS
  Slots        \* BLOCK_TEMPLATE_ZERO_FEE_TRANSFER_SLOTS

ASSUME MempoolAssumption ==
  /\ IsFiniteSet(Tx)
  /\ From \in [Tx -> Account] /\ To \in [Tx -> Account]
  /\ Amount \in [Tx -> Nat] /\ Fee \in [Tx -> Nat] /\ Funds \in [Account -> Nat]
  /\ Transfer \subseteq Tx /\ Charged \subseteq Tx \ Transfer
  /\ Signed \subseteq Tx /\ Resent \subseteq Tx
  /\ PeerBody \subseteq Seq(Signed)
  /\ MinFee \in Nat /\ MaxTotal \in Nat /\ Slots \in 0..MaxTotal
  /\ MaxTxs \in Nat \ {0} /\ MaxSize \in Nat \ {0}

VARIABLES
  pool,      \* TransactionPool, see Pools
  clock,     \* the present second
  bal,       \* the ledger
  runs,      \* history: how often a transaction was executed, 2 for more
  template,  \* what the miner is working on, or <<>>
  leaving    \* leaving[task]: executed by the task, yet to be removed

poolVars == <<pool, clock, bal, runs, template, leaving>>

\* The heap is a function from its transactions to received_at; by_hash and
\* seen are their keys; count is stats.total_transactions.
NewPool == [queue |-> <<>>, byHash |-> {}, seen |-> {}, count |-> 0, size |-> 0]

Task == {"miner", "importer"}

-----------------------------------------------------------------------------
(* TransactionPool *)

\* Ord: the higher fee first, among equals the one received earlier.
Before(q, t, u) == Fee[t] > Fee[u] \/ (Fee[t] = Fee[u] /\ q[t] < q[u])
Lowest(q) == {t \in DOMAIN q : \A u \in DOMAIN q : ~Before(q, t, u)}

Without(q, t) == [u \in DOMAIN q \ {t} |-> q[u]]
Monus(a, b) == IF a > b THEN a - b ELSE 0

\* Faulty variant: the evicted transaction is still seen.
EvictSeen(p, t) ==
  [queue |-> Without(p.queue, t), byHash |-> p.byHash \ {t}, seen |-> p.seen,
   count |-> Cardinality(DOMAIN p.queue \ {t}), size |-> Monus(p.size, 1)]

\* evict_lowest, where t is the end of the order.
Evict(p, t) ==
  [queue |-> Without(p.queue, t), byHash |-> p.byHash \ {t}, seen |-> p.seen \ {t},
   count |-> Cardinality(DOMAIN p.queue \ {t}), size |-> Monus(p.size, 1)]

\* remove_batch, and the loops in the node, around remove: what is not in the
\* map is passed over.
RemoveAll(p, T) ==
  LET gone == T \cap p.byHash
      kept == DOMAIN p.queue \ gone
  IN [queue |-> [u \in kept |-> p.queue[u]], byHash |-> p.byHash \ gone,
      seen |-> p.seen \ gone,
      count |-> IF gone = {} THEN p.count ELSE Cardinality(kept),
      size |-> Monus(p.size, Cardinality(gone))]

Insert(p, t, now) ==
  [queue |-> [u \in DOMAIN p.queue \cup {t} |-> IF u = t THEN now ELSE p.queue[u]],
   byHash |-> p.byHash \cup {t}, seen |-> p.seen \cup {t},
   count |-> Cardinality(DOMAIN p.queue \cup {t}), size |-> p.size + 1]

Acceptable(p, t) ==
  /\ t \notin p.seen
  /\ t \in Charged => Fee[t] >= MinFee
  /\ t \in Signed
HasRoom(p) == p.count < MaxTxs /\ p.size + 1 <= MaxSize

\* The queue is a max-heap, so peek finds the highest fee, not the lowest.
PaysMore(p, t) == DOMAIN p.queue # {} /\ \A u \in DOMAIN p.queue : Fee[t] > Fee[u]

\* add: the pools it may leave, p itself among them if it refuses.
Added(p, t, now) ==
  IF ~Acceptable(p, t) THEN {p}
  ELSE IF HasRoom(p) THEN {Insert(p, t, now)}
  ELSE IF PaysMore(p, t) THEN {Insert(Evict(p, u), t, now) : u \in Lowest(p.queue)}
  ELSE {p}

\* The sequences of T that the two sorts may produce.  Both are stable, and
\* the heap's own order among equals is arbitrary.
ByFee(q, T) ==
  {s \in SetToSeqs(T) : \A i, j \in DOMAIN s : i < j => ~Before(q, s[j], s[i])}
ByAge(q, T) ==
  {s \in SetToSeqs(T) : \A i, j \in DOMAIN s : i < j => q[s[i]] <= q[s[j]]}

Take(s, n) == SubSeq(s, 1, IF n < Len(s) THEN n ELSE Len(s))
ZeroFee(T) == {t \in T \cap Transfer : Fee[t] = 0}

\* get_top_n
TopN(q, n) == {Take(s, n) : s \in ByFee(q, DOMAIN q)}

\* Faulty variant: by fee alone.
TemplatesByFee(q) == TopN(q, MaxTotal)

\* get_block_template_transactions: the best by fee, then the oldest transfers
\* without a fee in the slots kept for them, then the best of the rest.
WithZeros(q, f) ==
  {f \o Take(Take(z, Slots), Monus(MaxTotal, Len(f))) :
     z \in ByAge(q, ZeroFee(DOMAIN q \ ToSet(f)))}
WithRest(q, f) ==
  {f \o Take(s, Monus(MaxTotal, Len(f))) : s \in ByFee(q, DOMAIN q \ ToSet(f))}
Templates(q) ==
  LET best == TopN(q, Monus(MaxTotal, Slots)) IN
  UNION {WithRest(q, h) : h \in UNION {WithZeros(q, g) : g \in best}}

-----------------------------------------------------------------------------
(* The node *)

CanPay(b, t) == b[From[t]] >= Amount[t] + Fee[t]

\* The balances after t, which it leaves alone if it is skipped.
Pay(b, t) ==
  LET debited == [b EXCEPT ![From[t]] = @ - Amount[t] - Fee[t]]
  IN IF CanPay(b, t) THEN [debited EXCEPT ![To[t]] = @ + Amount[t]] ELSE b

\* apply_block_transactions: the balances, and the transactions applied.
Run(s) ==
  LET upTo[i \in 0..Len(s)] ==
        IF i = 0 THEN [bal |-> bal, applied |-> {}]
        ELSE LET r == upTo[i - 1] IN
             [bal |-> Pay(r.bal, s[i]),
              applied |-> IF CanPay(r.bal, s[i]) THEN r.applied \cup {s[i]} ELSE r.applied]
  IN upTo[Len(s)]

Execute(r) ==
  /\ bal' = r.bal
  /\ runs' = [t \in Tx |-> IF t \in r.applied /\ runs[t] < 2 THEN runs[t] + 1 ELSE runs[t]]

PoolInit ==
  /\ pool = NewPool /\ clock = 0 /\ bal = Funds /\ runs = [t \in Tx |-> 0]
  /\ template = <<>> /\ leaving = [k \in Task |-> {}]

\* RPC, WebSocket, TransactionReceived of the CPP network or of the mesh.
Submit(t) ==
  /\ runs[t] > 0 => t \in Resent
  /\ pool' \in Added(pool, t, clock)
  /\ UNCHANGED <<clock, bal, runs, template, leaving>>

\* A second passes.  Only the order of seconds counts, so they are renumbered
\* without gaps, and seconds in which nothing was received are left out.
Tick ==
  LET stamps == Range(pool.queue)
      rank(n) == Cardinality({m \in stamps : m < n})
  IN /\ clock \in stamps
     /\ pool' = [pool EXCEPT !.queue = [t \in DOMAIN @ |-> rank(@[t])]]
     /\ clock' = Cardinality(stamps)
     /\ UNCHANGED <<bal, runs, template, leaving>>

\* The mining loop takes a template under the read lock, and then mines.
TakeTemplate ==
  /\ template = <<>> /\ leaving["miner"] = {} /\ DOMAIN pool.queue # {}
  /\ UNCHANGED <<pool, clock, bal, runs, leaving>>
  /\ template' \in Templates(pool.queue)

\* The block is found and applied, whatever happened since.
MineBlock ==
  LET r == Run(template)
  IN /\ template # <<>> /\ template' = <<>>
     /\ UNCHANGED <<pool, clock>>
     /\ leaving' = [leaving EXCEPT !["miner"] = r.applied]
     /\ Execute(r)

\* Faulty variant: the transactions of a peer's block stay in the pool.
PeerBlockKeeps(s, all) ==
  /\ leaving["importer"] = {}
  /\ \A t \in ToSet(s) : runs[t] > 0 => t \in Resent
  /\ Execute(Run(s))
  /\ UNCHANGED <<pool, clock, template, leaving>>

\* A block of a peer.  Extending the tip at once, it takes all its
\* transactions out of the pool, the skipped ones too; out of the buffer, only
\* those that were applied.
PeerBlock(s, all) ==
  LET r == Run(s)
  IN /\ leaving["importer"] = {}
     /\ \A t \in ToSet(s) : runs[t] > 0 => t \in Resent
     /\ Execute(r)
     /\ leaving' = [leaving EXCEPT !["importer"] = IF all THEN ToSet(s) ELSE r.applied]
     /\ UNCHANGED <<pool, clock, template>>

\* The task got the pool's write lock.
RemoveApplied(k) ==
  /\ leaving[k] # {} /\ leaving' = [leaving EXCEPT ![k] = {}]
  /\ UNCHANGED <<clock, bal, runs, template>>
  /\ pool' = RemoveAll(pool, leaving[k])

\* The mining loop is one task.
Mine == TakeTemplate \/ MineBlock \/ RemoveApplied("miner")

PoolNext ==
  \/ \E t \in Tx : Submit(t)
  \/ Tick
  \/ Mine
  \/ \E s \in PeerBody, all \in BOOLEAN : PeerBlock(s, all)
  \/ RemoveApplied("importer")

\* A node that mines goes on finding blocks, and the pool's lock is fair.
PoolFairness == WF_poolVars(Mine) /\ WF_poolVars(RemoveApplied("importer"))

PoolSpec == PoolInit /\ [][PoolNext]_poolVars /\ PoolFairness

-----------------------------------------------------------------------------
(* Properties *)

\* The heap, the map, the set of seen hashes and the two counters admission
\* is decided by agree, through evictions and removals by several tasks, and
\* neither limit is ever exceeded (pool.rs add, remove, evict_lowest).
PoolTypeOK ==
  /\ pool.queue \in [pool.byHash -> 0..clock]
  /\ pool.byHash \subseteq Tx /\ pool.seen = pool.byHash
  /\ pool.count = Cardinality(pool.byHash) /\ pool.size = pool.count
  /\ pool.count <= MaxTxs /\ pool.size <= MaxSize
  /\ clock \in 0..Cardinality(Tx)
  /\ bal \in [Account -> Nat] /\ runs \in [Tx -> 0..2]
  /\ template \in Seq(Signed) /\ leaving \in [Task -> SUBSET Signed]

\* Whatever the pool holds, a template is as long as it can be, and never the
\* same transaction twice.  A transaction is left out only for others that pay
\* no less; if it is a transfer without a fee, also for older ones of its kind
\* that fill the slots (get_block_template_transactions).
TemplateFair ==
  \A s \in Templates(pool.queue) :
    LET out == DOMAIN pool.queue \ ToSet(s)
        best(t) == {u \in ToSet(s) : ~Before(pool.queue, t, u)}
        older(t) == {u \in ZeroFee(ToSet(s)) : pool.queue[u] <= pool.queue[t]}
    IN /\ IsInjective(s)
       /\ Len(s) = IF pool.count < MaxTotal THEN pool.count ELSE MaxTotal
       /\ \A t \in out : Cardinality(best(t)) >= MaxTotal - Slots
       /\ \A t \in ZeroFee(out) : Cardinality(older(t)) >= Slots

\* A pool whose parts agree, and fair templates from whatever it holds.
PoolSound == PoolTypeOK /\ TemplateFair

\* A transaction that was executed is in the pool only until the task that
\* executed it gets the lock, or because it was sent again afterwards
\* (the removals after apply_block_transactions).
MinedLeaves ==
  \A t \in pool.byHash : runs[t] > 0 => t \in Resent \cup UNION Range(leaving)

\* "so they are not permanently starved" (pool.rs:118): a transfer without a
\* fee whose sender can pay does not stay in the pool while others are mined,
\* unless older transfers without a fee that cannot execute hold all the slots.
Stuck(t) ==
  Cardinality({u \in ZeroFee(pool.byHash \ {t}) :
                 ~CanPay(bal, u) /\ pool.queue[u] <= pool.queue[t]}) >= Slots
ZeroFeeServed ==
  \A t \in ZeroFee(Tx) :
    t \in pool.byHash /\ CanPay(bal, t) ~>
      t \notin pool.byHash \/ ~CanPay(bal, t) \/ Stuck(t)

\* "Per-account nonces prevent transaction replay" (SECURITY.md:75): however
\* often a transaction is delivered, it is executed once.  Not so: one sent again
\* after its block is admitted and executed again.
ExecutedOnce == \A t \in Tx : runs[t] <= 1
==============================================================================
