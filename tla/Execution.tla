------------------------------ MODULE Execution --------------------------------
(***************************************************************************)
(* A node's ledger while blocks are applied to it one transaction after    *)
(* the other: the loop of apply_block_transactions in                      *)
(* node/src/service/block_processing.rs.  Anybody may have had any         *)
(* transaction included, in any order and more than once; one that fails   *)
(* is skipped.  The wall clock, which escrow refunds and problem deadlines *)
(* read, moves on by itself.                                               *)
(***************************************************************************)
EXTENDS BlockLedger

CONSTANTS
  GenesisLedger,  \* the ledger start-up leaves (service/mod.rs:486)
  Reward,         \* the coinbase
  Shares,         \* what the node may add to its pools with a block: nothing, if
                  \* another node mined it
  MaxTxs,         \* bound: transactions and coinbases executed
  MaxTime         \* bound: ticks of the wall clock

ASSUME ExecutionAssumption ==
  /\ IsFiniteSet(Account) /\ IsFiniteSet(EscrowId) /\ IsFiniteSet(ProblemId)
  /\ GenesisLedger \in LedgerType
  /\ IsFiniteSet(GenesisLedger.locks) /\ GenesisLedger.locks \subseteq TimeLockTx
  /\ \A id \in EscrowId : GenesisLedger.escrow[id].status = "none"
  /\ \A c \in ChannelId : GenesisLedger.channel[c].status = "none"
  /\ \A id \in ProblemId :
       GenesisLedger.problem[id].status = "none" /\ ~GenesisLedger.problem[id].held
  /\ \A id \in LineId : GenesisLedger.line[id].status = "none"
  /\ Shares \subseteq [Pool -> Nat]
  /\ Reward \in Nat /\ MaxTxs \in Nat /\ MaxTime \in Nat

VARIABLES
  ledger,    \* the account state and the tables beside it
  now,       \* the wall clock
  executed,  \* history: transactions and coinbases so far
  minted     \* history: what the coinbases put into circulation

vars == <<ledger, now, executed, minted>>

\* The sum of a function over its domain.
Total(f) == MapThenSumSet(LAMBDA x : f[x], DOMAIN f)

\* What an escrow and a problem hold for somebody.
InEscrow(e) == IF e.status = "active" THEN e.amount ELSE 0
SetAside(p) == IF p.held THEN p.bounty ELSE 0

\* Everything somebody owns or is owed outside payment channels.
Worth(L) ==
  Total(L.bal) + Total([tx \in L.locks |-> tx.amount])
    + Total([id \in EscrowId |-> InEscrow(L.escrow[id])])
    + Total([id \in ProblemId |-> SetAside(L.problem[id])])

\* One type invariant: in particular no balance is ever negative.
TypeOK ==
  /\ ledger \in LedgerType
  /\ now \in 0..MaxTime
  /\ executed \in 0..MaxTxs
  /\ minted \in Nat

Init ==
  /\ ledger = GenesisLedger
  /\ now = 0
  /\ executed = 0
  /\ minted = 0

\* apply_single_transaction
Execute(tx) ==
  /\ executed < MaxTxs
  /\ ledger' = ApplyTx(ledger, tx, now)
  /\ executed' = executed + 1
  /\ UNCHANGED <<now, minted>>

\* The coinbase of the next block, after the pools got their share of it.
Coinbase(miner, share) ==
  /\ executed < MaxTxs
  /\ ledger' = Credit(FillPools(ledger, share), miner, Reward)
  /\ executed' = executed + 1
  /\ minted' = minted + Reward
  /\ UNCHANGED now

\* chrono::Utc::now
Tick ==
  /\ now < MaxTime
  /\ now' = now + 1
  /\ UNCHANGED <<ledger, executed, minted>>

Next ==
  \/ \E tx \in Tx : Execute(tx)
  \/ \E a \in Account, share \in Shares : Coinbase(a, share)
  \/ Tick

Spec == Init /\ [][Next]_vars

-----------------------------------------------------------------------------
(* Properties *)

\* As long as nobody has opened a payment channel, no sequence of transfers,
\* locks, escrows and problems, skipped ones with their partial effects
\* included, creates money: fees and lost deposits only make it less.
NoInflation ==
  (\A c \in ChannelId : ledger.channel[c].status = "none")
    => Worth(ledger) <= Worth(GenesisLedger) + minted

\* An escrow's terms never change, it is settled at most once, and the step
\* that settles it pays its amount to the one party the new status names and
\* touches no other account.
Payee(e) == IF e.status = "released" THEN e.to ELSE e.sender
EscrowSettles(id) ==
  LET e == ledger.escrow[id]
      f == ledger'.escrow[id]
  IN e.status # "none" /\ f # e =>
       /\ e.status = "active"
       /\ f \in {[e EXCEPT !.status = s] : s \in {"released", "refunded"}}
       /\ ledger'.bal = [ledger.bal EXCEPT ![Payee(f)] = @ + e.amount]

\* A frozen or closed line keeps its limits and is never active again.
LineSettles(id) ==
  LET l == ledger.line[id]
      m == ledger'.line[id]
  IN l.status \in {"frozen", "closed"} =>
       /\ m.status \in {"frozen", "closed"}
       /\ m.limitAB = l.limitAB /\ m.limitBA = l.limitBA

\* What is settled stays settled, whoever comes later with whatever: escrows,
\* trust lines, channels in dispute or closed, and problems no longer open
\* (update_status of escrows.rs; the status tests of channels.rs,
\* marketplace.rs and trustlines.rs).
SettledForGood ==
  [][/\ \A id \in EscrowId : EscrowSettles(id)
     /\ \A id \in LineId : LineSettles(id)
     /\ \A id \in ChannelId :
          ledger.channel[id].status \in {"dispute", "closed"}
            => ledger'.channel[id] = ledger.channel[id]
     /\ \A id \in ProblemId :
          ledger.problem[id].status \notin {"none", "open"}
            => ledger'.problem[id] = ledger.problem[id]]_vars

\* Without its arbiter an escrow goes back to its sender only once it timed
\* out, whoever executes what in between (escrows.rs can_refund).
RefundAfterTimeout ==
  \A id \in EscrowId :
    LET e == ledger.escrow[id]
    IN e.status = "refunded" /\ e.arbiter = NoArbiter => e.timeout <= now

\* The bounty of a problem that has not expired is set aside exactly while the
\* problem waits for its solution: a solved or cancelled problem was paid in the
\* same transaction, so a later ClaimBounty never finds one to pay again
\* (README.md:83).
BountyFollowsStatus ==
  \A id \in ProblemId :
    LET p == ledger.problem[id]
    IN p.status # "expired" => (p.held <=> p.status = "open")

\* "OPEN -> EXPIRED (expiration deadline -> bounty refunded)"
\* (docs/ARCHITECTURE.md:129).  ExpiredRefunded does not hold: a late solution
\* marks its problem expired and fails, and nothing refunds the bounty.
ExpiredRefunded ==
  \A id \in ProblemId : ledger.problem[id].status = "expired" => ~ledger.problem[id].held

\* The two sides of a channel always add up to its capacity, through updates,
\* disputes and closings refused or accepted (channels.rs).
ChannelBalanced ==
  \A c \in ChannelId :
    LET row == ledger.channel[c]
    IN row.status # "none" => row.balA + row.balB = row.capacity

\* The step executed tx at the nonce its account was at, and not in vain.
Executed(tx) ==
  /\ tx.kind \in {"transfer", "timelock", "createEscrow", "submitProblem"}
  /\ tx.nonce = ledger.nonce[tx.from]
  /\ ledger' # ledger /\ ledger' = ApplyTx(ledger, tx, now)
Reverses(tx) == UnwindTx(ledger', tx) = ledger

\* In every ledger that can be reached, unwinding a transfer or a time lock
\* that was just executed restores the ledger exactly, unless the lock was
\* there before.
TransferUnwinds ==
  [][\A tx \in Tx :
       Executed(tx) /\ tx.kind \in {"transfer", "timelock"} /\ tx \notin ledger.locks
         => Reverses(tx)]_vars
==============================================================================
