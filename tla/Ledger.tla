------------------------------- MODULE Ledger --------------------------------
(***************************************************************************)
(* The account state of a node and what one transaction does to it:        *)
(* apply_single_transaction of node/src/service/block_processing.rs with   *)
(* the state managers of state/src that it calls.                          *)
(*                                                                         *)
(* A ledger is one record; an operation is an operator from ledger to      *)
(* ledger.  A transaction the code skips with an error may nevertheless    *)
(* have changed the ledger before it failed: nothing is rolled back, and   *)
(* the operators keep those partial effects.                               *)
(*                                                                         *)
(* Left out: private problems and their reveal, which blocks do not carry; *)
(* heights, timestamps and figures a table row only records.  Fees are     *)
(* paid to nobody: the code debits them and credits no account.            *)
(***************************************************************************)
EXTENDS Integers

CONSTANTS
  Account,    \* addresses
  EscrowId, ChannelId, ProblemId, LineId,   \* keys of the four tables
  Pool,       \* the dimensional pools
  Factor,     \* a pool's dimensional factor, in thousandths
  Tx,         \* the transactions of the instance
  NoArbiter,  \* an escrow without arbiter
  Keep        \* a limit that an update does not name

TransferTx == [kind : {"transfer"}, from : Account, nonce : Nat, fee : Nat,
               to : Account, amount : Nat]
TimeLockTx == [kind : {"timelock"}, from : Account, nonce : Nat, fee : Nat, amount : Nat]
CreateTx   == [kind : {"createEscrow"}, from : Account, nonce : Nat, fee : Nat,
               id : EscrowId, to : Account, arbiter : Account \cup {NoArbiter},
               amount : Nat, timeout : Nat]
ResolveTx  == [kind : {"releaseEscrow", "refundEscrow"}, from : Account, fee : Nat,
               id : EscrowId]
OpenTx     == [kind : {"openChannel"}, from : Account, nonce : Nat, fee : Nat,
               id : ChannelId, a : Account, b : Account, depositA : Nat, depositB : Nat]
BalanceTx  == [kind : {"updateChannel", "disputeChannel", "closeChannel"},
               from : Account, id : ChannelId, seq : Nat, balA : Nat, balB : Nat]
SubmitTx   == [kind : {"submitProblem"}, from : Account, nonce : Nat, fee : Nat,
               id : ProblemId, bounty : Nat, lifetime : Nat]
SolveTx    == [kind : {"solveProblem"}, from : Account, nonce : Nat, fee : Nat,
               id : ProblemId, good : BOOLEAN]
BountyTx   == [kind : {"claimBounty", "cancelProblem"}, from : Account, nonce : Nat,
               fee : Nat, id : ProblemId]
\* `good`: scale and qualities are in range.
TrustTx    == [kind : {"createLine"}, from : Account, nonce : Nat, fee : Nat,
               id : LineId, to : Account, limitAB : Nat, limitBA : Nat, good : BOOLEAN]
LimitsTx   == [kind : {"updateLimits"}, from : Account, nonce : Nat, fee : Nat,
               id : LineId, limitAB : Nat \cup {Keep}, limitBA : Nat \cup {Keep}]
LineTx     == [kind : {"freezeLine", "closeLine"}, from : Account, nonce : Nat,
               fee : Nat, id : LineId]
EvolveTx   == [kind : {"evolveLine"}, from : Account, nonce : Nat, fee : Nat,
               id : LineId, delta : Int]
SwapTx     == [kind : {"swap"}, from : Account, nonce : Nat, fee : Nat, poolFrom : Pool,
               poolTo : Pool, amountIn : Nat, minOut : Nat]

ASSUME LedgerAssumption ==
  /\ NoArbiter \notin Account
  /\ Factor \in [Pool -> Nat \ {0}]
  /\ Tx \subseteq TransferTx \cup TimeLockTx \cup CreateTx \cup ResolveTx \cup OpenTx
                  \cup BalanceTx \cup SubmitTx \cup SolveTx \cup BountyTx
                  \cup TrustTx \cup LimitsTx \cup LineTx \cup EvolveTx \cup SwapTx

Escrow == [status : {"none", "active", "released", "refunded"},
           sender : Account, to : Account, arbiter : Account \cup {NoArbiter},
           amount : Nat, timeout : Nat]
Channel == [status : {"none", "open", "dispute", "closed"}, a : Account, b : Account,
            capacity : Nat, balA : Nat, balB : Nat, seq : Nat]
\* `held`: the row of ESCROW_TABLE is present.
Problem == [status : {"none", "open", "solved", "expired", "cancelled"},
            submitter : Account, solver : Account, bounty : Nat, expires : Nat,
            held : BOOLEAN]
\* No payment goes through a line (update_balance has no caller): its balance
\* stays zero, and every test of it passes.
Line == [status : {"none", "active", "frozen", "closed"}, a : Account, b : Account,
         limitAB : Nat, limitBA : Nat, tau : Int]

LedgerType ==
  [bal : [Account -> Nat], nonce : [Account -> Nat], locks : SUBSET Tx,
   escrow : [EscrowId -> Escrow], channel : [ChannelId -> Channel],
   problem : [ProblemId -> Problem], line : [LineId -> Line], pool : [Pool -> Nat]]

-----------------------------------------------------------------------------
(* AccountState *)

Credit(L, a, x) == [L EXCEPT !.bal[a] = @ + x]
Debit(L, a, x) == [L EXCEPT !.bal[a] = @ - x]
Affords(L, a, x) == L.bal[a] >= x

\* Debits the sender and moves its nonce past the transaction's, whatever the
\* nonce was: nothing compares the two.
SetNonce(L, tx) == [L EXCEPT !.nonce[tx.from] = tx.nonce + 1]
Charge(L, tx, x) == SetNonce(Debit(L, tx.from, x), tx)

ApplyTransfer(L, tx) ==
  IF Affords(L, tx.from, tx.amount + tx.fee)
    THEN Credit(Charge(L, tx, tx.amount + tx.fee), tx.to, tx.amount)
    ELSE L

\* The row's key is the transaction hash: a second insertion overwrites.
ApplyTimeLock(L, tx) ==
  IF Affords(L, tx.from, tx.amount + tx.fee)
    THEN [Charge(L, tx, tx.amount + tx.fee) EXCEPT !.locks = @ \cup {tx}]
    ELSE L

-----------------------------------------------------------------------------
(* EscrowState *)

\* The debit comes before create_escrow, which refuses an id already there.
CreateEscrow(L, tx) ==
  IF ~Affords(L, tx.from, tx.amount + tx.fee) THEN L
  ELSE LET P == Charge(L, tx, tx.amount + tx.fee)
       IN IF L.escrow[tx.id].status # "none" THEN P
          ELSE [P EXCEPT !.escrow[tx.id] =
                  [status |-> "active", sender |-> tx.from, to |-> tx.to,
                   arbiter |-> tx.arbiter, amount |-> tx.amount, timeout |-> tx.timeout]]

\* Faulty variant: the status is not looked at.
CanReleaseTwice(L, tx) ==
  LET e == L.escrow[tx.id] IN e.status # "none" /\ tx.from \in {e.arbiter, e.to}

CanRelease(L, tx) ==
  LET e == L.escrow[tx.id] IN e.status = "active" /\ tx.from \in {e.arbiter, e.to}

\* Faulty variant: the sender need not wait.
CanRefundEarly(L, tx, now) ==
  LET e == L.escrow[tx.id] IN e.status = "active" /\ tx.from \in {e.arbiter, e.sender}

\* The timeout is compared with the node's own clock.
CanRefund(L, tx, now) ==
  LET e == L.escrow[tx.id]
  IN /\ e.status = "active"
     /\ tx.from = e.arbiter \/ (tx.from = e.sender /\ e.timeout <= now)

\* Faulty variant: pays, but leaves the escrow active.
ReleaseEscrowOpen(L, tx) ==
  IF CanRelease(L, tx) THEN Credit(L, L.escrow[tx.id].to, L.escrow[tx.id].amount) ELSE L

ReleaseEscrow(L, tx) ==
  IF CanRelease(L, tx)
    THEN [Credit(L, L.escrow[tx.id].to, L.escrow[tx.id].amount)
            EXCEPT !.escrow[tx.id].status = "released"]
    ELSE L

RefundEscrow(L, tx, now) ==
  IF CanRefund(L, tx, now)
    THEN [Credit(L, L.escrow[tx.id].sender, L.escrow[tx.id].amount)
            EXCEPT !.escrow[tx.id].status = "refunded"]
    ELSE L

-----------------------------------------------------------------------------
(* ChannelState *)

\* Only the sender's own deposit is debited, before open_channel may refuse.
SenderDeposit(tx) == IF tx.from = tx.a THEN tx.depositA ELSE tx.depositB

OpenChannel(L, tx) ==
  IF ~Affords(L, tx.from, SenderDeposit(tx) + tx.fee) THEN L
  ELSE LET P == Charge(L, tx, SenderDeposit(tx) + tx.fee)
       IN IF L.channel[tx.id].status # "none" THEN P
          ELSE [P EXCEPT !.channel[tx.id] =
                  [status |-> "open", a |-> tx.a, b |-> tx.b,
                   capacity |-> tx.depositA + tx.depositB,
                   balA |-> tx.depositA, balB |-> tx.depositB, seq |-> 0]]

\* Faulty variant: the balances are taken on trust.
AdmitsAny(L, tx) == L.channel[tx.id].status = "open"

\* The test update_channel_state, close_cooperative and start_dispute share.
Admits(L, tx) ==
  LET c == L.channel[tx.id] IN c.status = "open" /\ tx.balA + tx.balB = c.capacity

Rebalanced(c, tx) == [c EXCEPT !.balA = tx.balA, !.balB = tx.balB]

UpdateChannel(L, tx) ==
  IF Admits(L, tx) /\ tx.seq > L.channel[tx.id].seq
    THEN [L EXCEPT !.channel[tx.id] = [Rebalanced(@, tx) EXCEPT !.seq = tx.seq]]
    ELSE L

\* start_dispute takes the sequence number it is given.
DisputeChannel(L, tx) ==
  IF Admits(L, tx)
    THEN [L EXCEPT !.channel[tx.id] =
            [Rebalanced(@, tx) EXCEPT !.seq = tx.seq, !.status = "dispute"]]
    ELSE L

\* Both participants are credited before close_cooperative may refuse.
CloseChannel(L, tx) ==
  LET c == L.channel[tx.id]
      P == Credit(Credit(L, c.a, tx.balA), c.b, tx.balB)
  IN IF c.status = "none" THEN L
     ELSE IF Admits(L, tx)
            THEN [P EXCEPT !.channel[tx.id] = [Rebalanced(@, tx) EXCEPT !.status = "closed"]]
            ELSE P

-----------------------------------------------------------------------------
(* MarketplaceState *)

\* Fee and bounty go first; the nonce moves only if the operation succeeds.
SubmitProblem(L, tx, now) ==
  IF ~Affords(L, tx.from, tx.fee + tx.bounty) THEN L
  ELSE LET P == Debit(L, tx.from, tx.fee + tx.bounty)
       IN IF L.problem[tx.id].status # "none" THEN P
          ELSE [SetNonce(P, tx) EXCEPT !.problem[tx.id] =
                  [status |-> "open", submitter |-> tx.from, solver |-> tx.from,
                   bounty |-> tx.bounty, expires |-> now + tx.lifetime, held |-> TRUE]]

\* Faulty variant: the row stays in ESCROW_TABLE.
PayBountyKept(L, id, a) == Credit(L, a, L.problem[id].bounty)

\* Takes the row out of ESCROW_TABLE and credits account a.
PayBounty(L, id, a) ==
  [Credit(L, a, L.problem[id].bounty) EXCEPT !.problem[id].held = FALSE]

\* claim_bounty, then the credit and the nonce.
Claim(L, tx) ==
  LET p == L.problem[tx.id]
  IN IF p.status = "solved" /\ p.held
       THEN SetNonce(PayBounty(L, tx.id, p.solver), tx)
       ELSE L

ClaimBounty(L, tx) ==
  IF Affords(L, tx.from, tx.fee) THEN Claim(Debit(L, tx.from, tx.fee), tx) ELSE L

\* submit_solution marks the problem; the claim follows in the same transaction.
\* A late solution only marks it expired; the bounty stays where it is.
SolveProblem(L, tx, now) ==
  LET p == L.problem[tx.id]
      P == Debit(L, tx.from, tx.fee)
  IN IF ~Affords(L, tx.from, tx.fee) THEN L
     ELSE IF p.status # "open" THEN P
     ELSE IF now > p.expires THEN [P EXCEPT !.problem[tx.id].status = "expired"]
     ELSE IF ~tx.good THEN P
     ELSE Claim([P EXCEPT !.problem[tx.id] =
                   [@ EXCEPT !.status = "solved", !.solver = tx.from]], tx)

CancelProblem(L, tx) ==
  LET p == L.problem[tx.id]
      P == Debit(L, tx.from, tx.fee)
  IN IF ~Affords(L, tx.from, tx.fee) THEN L
     ELSE IF p.status = "open" /\ p.submitter = tx.from /\ p.held
            THEN [SetNonce(PayBounty(P, tx.id, tx.from), tx)
                    EXCEPT !.problem[tx.id].status = "cancelled"]
            ELSE P

-----------------------------------------------------------------------------
(* TrustLineState *)

\* Fee and nonce go first, whether the row may be written or not.
WriteLine(L, tx, allowed, row) ==
  IF ~Affords(L, tx.from, tx.fee) THEN L
  ELSE LET P == Charge(L, tx, tx.fee)
       IN IF allowed THEN [P EXCEPT !.line[tx.id] = row] ELSE P

CreateLine(L, tx) ==
  WriteLine(L, tx, L.line[tx.id].status = "none" /\ tx.good,
            [status |-> "active", a |-> tx.from, b |-> tx.to,
             limitAB |-> tx.limitAB, limitBA |-> tx.limitBA, tau |-> 0])

Participates(L, tx) ==
  LET l == L.line[tx.id] IN l.status # "none" /\ tx.from \in {l.a, l.b}

\* Faulty variant: a frozen or closed line still takes new limits.
UpdateLimitsAnytime(L, tx) ==
  LET l == L.line[tx.id]
      Limit(new, old) == IF new = Keep THEN old ELSE new
  IN WriteLine(L, tx, Participates(L, tx),
               [l EXCEPT !.limitAB = Limit(tx.limitAB, @), !.limitBA = Limit(tx.limitBA, @)])

UpdateLimits(L, tx) ==
  LET l == L.line[tx.id]
      Limit(new, old) == IF new = Keep THEN old ELSE new
  IN WriteLine(L, tx, Participates(L, tx) /\ l.status = "active",
               [l EXCEPT !.limitAB = Limit(tx.limitAB, @), !.limitBA = Limit(tx.limitBA, @)])

\* Freezing and closing look at no status: a closed line can be frozen and a
\* frozen one closed.
FreezeLine(L, tx) ==
  WriteLine(L, tx, Participates(L, tx), [L.line[tx.id] EXCEPT !.status = "frozen"])

CloseLine(L, tx) ==
  WriteLine(L, tx, Participates(L, tx), [L.line[tx.id] EXCEPT !.status = "closed"])

\* Nor does the phase, which moves in either direction.
EvolveLine(L, tx) ==
  WriteLine(L, tx, Participates(L, tx), [L.line[tx.id] EXCEPT !.tau = @ + tx.delta])

-----------------------------------------------------------------------------
(* DimensionalPoolState *)

\* The quotient of the factors is a double in the code; here it is exact.
AmountOut(tx) == (tx.amountIn * Factor[tx.poolFrom]) \div Factor[tx.poolTo]

\* Both pools shrink, and neither amount leaves or reaches an account.  The
\* destination is saved last, from what was read before: of a swap within
\* one pool only that half remains.
SwapPools(L, tx) ==
  IF ~Affords(L, tx.from, tx.fee) THEN L
  ELSE LET P == Charge(L, tx, tx.fee)
           out == AmountOut(tx)
       IN IF L.pool[tx.poolFrom] >= tx.amountIn /\ out >= tx.minOut /\ L.pool[tx.poolTo] >= out
            THEN [P EXCEPT !.pool = [L.pool EXCEPT ![tx.poolFrom] = @ - tx.amountIn,
                                                   ![tx.poolTo] = L.pool[tx.poolTo] - out]]
            ELSE P

\* What the mining loop adds to the pools for a block of its own: a share of
\* the reward each, and yields at every tenth block.
FillPools(L, share) == [L EXCEPT !.pool = [p \in Pool |-> @[p] + share[p]]]

-----------------------------------------------------------------------------
\* apply_single_transaction at wall-clock time `now`.
ApplyTx(L, tx, now) ==
  CASE tx.kind = "transfer"       -> ApplyTransfer(L, tx)
    [] tx.kind = "timelock"       -> ApplyTimeLock(L, tx)
    [] tx.kind = "createEscrow"   -> CreateEscrow(L, tx)
    [] tx.kind = "releaseEscrow"  -> ReleaseEscrow(L, tx)
    [] tx.kind = "refundEscrow"   -> RefundEscrow(L, tx, now)
    [] tx.kind = "openChannel"    -> OpenChannel(L, tx)
    [] tx.kind = "updateChannel"  -> UpdateChannel(L, tx)
    [] tx.kind = "disputeChannel" -> DisputeChannel(L, tx)
    [] tx.kind = "closeChannel"   -> CloseChannel(L, tx)
    [] tx.kind = "submitProblem"  -> SubmitProblem(L, tx, now)
    [] tx.kind = "solveProblem"   -> SolveProblem(L, tx, now)
    [] tx.kind = "claimBounty"    -> ClaimBounty(L, tx)
    [] tx.kind = "cancelProblem"  -> CancelProblem(L, tx)
    [] tx.kind = "createLine"     -> CreateLine(L, tx)
    [] tx.kind = "updateLimits"   -> UpdateLimits(L, tx)
    [] tx.kind = "freezeLine"     -> FreezeLine(L, tx)
    [] tx.kind = "closeLine"      -> CloseLine(L, tx)
    [] tx.kind = "evolveLine"     -> EvolveLine(L, tx)
    [] tx.kind = "swap"           -> SwapPools(L, tx)
==============================================================================
