--------------------------- MODULE ExecutionProofs -----------------------------
(***************************************************************************)
(* What the run of Execution shows on a small instance, for every set of   *)
(* accounts, transactions and table keys.  The inductive invariant is      *)
(* Sound: the type of the ledger and three facts about its tables.  It is  *)
(* shown to survive each kind of transaction separately; the operators     *)
(* are built from Credit, Debit and SetNonce, so that their lemmas come    *)
(* first.                                                                  *)
(***************************************************************************)
EXTENDS Execution, FiniteSetTheorems, WellFoundedInduction, TLAPS

Sound(L, t) ==
  /\ L \in LedgerType
  /\ \A id \in ProblemId : L.problem[id].held <=> L.problem[id].status \in {"open", "expired"}
  /\ \A c \in ChannelId :
       L.channel[c].status # "none"
         => L.channel[c].balA + L.channel[c].balB = L.channel[c].capacity
  /\ \A id \in EscrowId :
       L.escrow[id].status = "refunded" /\ L.escrow[id].arbiter = NoArbiter
         => L.escrow[id].timeout <= t

\* The tables beside the balances.
SameTables(L, M) ==
  /\ M.escrow = L.escrow /\ M.channel = L.channel /\ M.problem = L.problem
  /\ M.line = L.line /\ M.pool = L.pool

\* The kind of a transaction tells its fields.
LEMMA TxOfKind ==
  ASSUME NEW tx \in Tx
  PROVE  /\ tx.kind = "transfer" => tx \in TransferTx
         /\ tx.kind = "timelock" => tx \in TimeLockTx
         /\ tx.kind = "createEscrow" => tx \in CreateTx
         /\ tx.kind \in {"releaseEscrow", "refundEscrow"} => tx \in ResolveTx
         /\ tx.kind = "openChannel" => tx \in OpenTx
         /\ tx.kind \in {"updateChannel", "disputeChannel", "closeChannel"} => tx \in BalanceTx
         /\ tx.kind = "submitProblem" => tx \in SubmitTx
         /\ tx.kind = "solveProblem" => tx \in SolveTx
         /\ tx.kind \in {"claimBounty", "cancelProblem"} => tx \in BountyTx
         /\ tx.kind = "createLine" => tx \in TrustTx
         /\ tx.kind = "updateLimits" => tx \in LimitsTx
         /\ tx.kind \in {"freezeLine", "closeLine"} => tx \in LineTx
         /\ tx.kind = "evolveLine" => tx \in EvolveTx
         /\ tx.kind = "swap" => tx \in SwapTx
         /\ tx.kind \in {"transfer", "timelock", "createEscrow", "releaseEscrow",
                         "refundEscrow", "openChannel", "updateChannel", "disputeChannel",
                         "closeChannel", "submitProblem", "solveProblem", "claimBounty",
                         "cancelProblem", "createLine", "updateLimits", "freezeLine",
                         "closeLine", "evolveLine", "swap"}
  BY LedgerAssumption
  DEF TransferTx, TimeLockTx, CreateTx, ResolveTx, OpenTx, BalanceTx, SubmitTx, SolveTx, BountyTx,
      TrustTx, LimitsTx, LineTx, EvolveTx, SwapTx

LEMMA CreditTyped ==
  ASSUME NEW L \in LedgerType, NEW a \in Account, NEW x \in Nat
  PROVE  Credit(L, a, x) \in LedgerType /\ SameTables(L, Credit(L, a, x))
  BY DEF SameTables, Credit, LedgerType

LEMMA SetNonceTyped ==
  ASSUME NEW L \in LedgerType, NEW tx, tx.from \in Account, tx.nonce \in Nat
  PROVE  SetNonce(L, tx) \in LedgerType /\ SameTables(L, SetNonce(L, tx))
  BY DEF SameTables, SetNonce, LedgerType

LEMMA ProblemRowTyped ==
  ASSUME NEW L \in LedgerType, NEW id \in ProblemId, NEW p \in Problem
  PROVE  LET M == [L EXCEPT !.problem[id] = p]
         IN /\ M \in LedgerType
            /\ M.problem[id] = p
            /\ \A o \in ProblemId \ {id} : M.problem[o] = L.problem[o]
            /\ M.escrow = L.escrow /\ M.channel = L.channel
  BY DEF LedgerType

LEMMA CreditSound ==
  ASSUME NEW L, NEW t, Sound(L, t), NEW a \in Account, NEW x \in Nat
  PROVE  Sound(Credit(L, a, x), t) /\ SameTables(L, Credit(L, a, x))
  BY DEF Sound, SameTables, Credit, LedgerType

LEMMA DebitSound ==
  ASSUME NEW L, NEW t, Sound(L, t), NEW a \in Account, NEW x \in Nat, Affords(L, a, x)
  PROVE  Sound(Debit(L, a, x), t) /\ SameTables(L, Debit(L, a, x))
  BY DEF Sound, SameTables, Debit, Affords, LedgerType

LEMMA SetNonceSound ==
  ASSUME NEW L, NEW t, Sound(L, t), NEW tx, tx.from \in Account, tx.nonce \in Nat
  PROVE  Sound(SetNonce(L, tx), t) /\ SameTables(L, SetNonce(L, tx))
  BY DEF Sound, SameTables, SetNonce, LedgerType

\* Every row has its type.
LEMMA Rows ==
  ASSUME NEW L, NEW t, Sound(L, t)
  PROVE  /\ \A id \in EscrowId : L.escrow[id] \in Escrow
         /\ \A id \in ChannelId : L.channel[id] \in Channel
         /\ \A id \in ProblemId : L.problem[id] \in Problem
         /\ \A id \in LineId : L.line[id] \in Line
         /\ \A p \in Pool : L.pool[p] \in Nat
  BY DEF Sound, LedgerType

\* Writing one row of a table.
LEMMA EscrowRowSound ==
  ASSUME NEW L, NEW t, Sound(L, t), NEW id \in EscrowId, NEW e \in Escrow,
         e.status = "refunded" /\ e.arbiter = NoArbiter => e.timeout <= t
  PROVE  Sound([L EXCEPT !.escrow[id] = e], t)
  BY DEF Sound, LedgerType

LEMMA ChannelRowSound ==
  ASSUME NEW L, NEW t, Sound(L, t), NEW id \in ChannelId, NEW c \in Channel,
         c.balA + c.balB = c.capacity
  PROVE  Sound([L EXCEPT !.channel[id] = c], t)
  BY DEF Sound, LedgerType

LEMMA ProblemRowSound ==
  ASSUME NEW L, NEW t, Sound(L, t), NEW id \in ProblemId, NEW p \in Problem,
         p.held <=> p.status \in {"open", "expired"}
  PROVE  Sound([L EXCEPT !.problem[id] = p], t)
  BY DEF Sound, LedgerType

LEMMA ChargeSound ==
  ASSUME NEW L, NEW t, Sound(L, t), NEW tx, tx.from \in Account, tx.nonce \in Nat,
         NEW x \in Nat, Affords(L, tx.from, x)
  PROVE  Sound(Charge(L, tx, x), t) /\ SameTables(L, Charge(L, tx, x))
  BY DebitSound, SetNonceSound DEF Charge, SameTables

LEMMA TransferSound ==
  ASSUME NEW L, NEW t, Sound(L, t), NEW tx \in TransferTx
  PROVE  Sound(ApplyTransfer(L, tx), t)
  BY ChargeSound, CreditSound DEF ApplyTransfer, TransferTx

LEMMA TimeLockSound ==
  ASSUME NEW L, NEW t, Sound(L, t), NEW tx \in Tx, tx \in TimeLockTx
  PROVE  Sound(ApplyTimeLock(L, tx), t)
<1> DEFINE P == Charge(L, tx, tx.amount + tx.fee)
<1>1. CASE Affords(L, tx.from, tx.amount + tx.fee)
  <2>1. Sound(P, t)
    BY <1>1, ChargeSound DEF TimeLockTx
  <2> HIDE DEF P
  <2>2. Sound([P EXCEPT !.locks = @ \cup {tx}], t)
    BY <2>1 DEF Sound, LedgerType
  <2> QED BY <1>1, <2>2 DEF ApplyTimeLock, P
<1> QED BY <1>1 DEF ApplyTimeLock

LEMMA CreateEscrowSound ==
  ASSUME NEW L, NEW t, Sound(L, t), NEW tx \in CreateTx
  PROVE  Sound(CreateEscrow(L, tx), t)
<1> DEFINE P == Charge(L, tx, tx.amount + tx.fee)
           e == [status |-> "active", sender |-> tx.from, to |-> tx.to,
                 arbiter |-> tx.arbiter, amount |-> tx.amount, timeout |-> tx.timeout]
<1>1. CASE Affords(L, tx.from, tx.amount + tx.fee)
  <2>1. Sound(P, t)
    BY <1>1, ChargeSound DEF CreateTx
  <2>2. e \in Escrow /\ e.status = "active"
    BY DEF CreateTx, Escrow
  <2> HIDE DEF P, e
  <2>3. Sound([P EXCEPT !.escrow[tx.id] = e], t)
    BY ZenonT(30), <2>1, <2>2 DEF Sound, LedgerType, CreateTx
  <2> QED BY <1>1, <2>1, <2>3 DEF CreateEscrow, P, e
<1> QED BY <1>1 DEF CreateEscrow

LEMMA ReleaseEscrowSound ==
  ASSUME NEW L, NEW t, Sound(L, t), NEW tx \in ResolveTx
  PROVE  Sound(ReleaseEscrow(L, tx), t)
<1> DEFINE P == Credit(L, L.escrow[tx.id].to, L.escrow[tx.id].amount)
           e == [P.escrow[tx.id] EXCEPT !.status = "released"]
<1>1. tx.id \in EscrowId
  BY DEF ResolveTx
<1>2. L.escrow[tx.id].to \in Account /\ L.escrow[tx.id].amount \in Nat
  BY <1>1, Rows DEF Escrow
<1>3. Sound(P, t)
  BY <1>2, CreditSound
<1> HIDE DEF P
<1>4. e \in Escrow /\ e.status = "released"
  <2>1. P.escrow[tx.id] \in Escrow
    BY <1>1, <1>3, Rows
  <2> QED BY <2>1 DEF Escrow
<1>5. Sound([P EXCEPT !.escrow[tx.id] = e], t)
  BY <1>1, <1>3, <1>4, EscrowRowSound
<1> QED BY <1>5 DEF ReleaseEscrow, P

\* A sender that is no arbiter had to wait for the timeout.
LEMMA RefundEscrowSound ==
  ASSUME NEW L, NEW t \in Nat, Sound(L, t), NEW tx \in ResolveTx
  PROVE  Sound(RefundEscrow(L, tx, t), t)
<1> DEFINE P == Credit(L, L.escrow[tx.id].sender, L.escrow[tx.id].amount)
           e == [P.escrow[tx.id] EXCEPT !.status = "refunded"]
<1>1. tx.id \in EscrowId /\ tx.from \in Account
  BY DEF ResolveTx
<1>2. L.escrow[tx.id].sender \in Account /\ L.escrow[tx.id].amount \in Nat
  BY <1>1, Rows DEF Escrow
<1>3. Sound(P, t) /\ SameTables(L, P)
  BY <1>2, CreditSound
<1> HIDE DEF P
<1>4. ASSUME CanRefund(L, tx, t)
      PROVE  Sound([P EXCEPT !.escrow[tx.id] = e], t)
  <2>1. P.escrow[tx.id] \in Escrow
    BY <1>1, <1>3, Rows
  <2>2. e \in Escrow /\ e.arbiter = P.escrow[tx.id].arbiter
          /\ e.timeout = P.escrow[tx.id].timeout
    BY <2>1 DEF Escrow
  <2>3. P.escrow[tx.id].arbiter = NoArbiter => P.escrow[tx.id].timeout <= t
    BY <1>1, <1>3, <1>4, LedgerAssumption DEF CanRefund, SameTables
  <2> QED BY <1>1, <1>3, <2>2, <2>3, EscrowRowSound
<1> QED BY <1>4 DEF RefundEscrow, P

LEMMA OpenChannelSound ==
  ASSUME NEW L, NEW t, Sound(L, t), NEW tx \in OpenTx
  PROVE  Sound(OpenChannel(L, tx), t)
<1> DEFINE x == SenderDeposit(tx) + tx.fee
           P == Charge(L, tx, x)
           c == [status |-> "open", a |-> tx.a, b |-> tx.b,
                 capacity |-> tx.depositA + tx.depositB,
                 balA |-> tx.depositA, balB |-> tx.depositB, seq |-> 0]
<1>1. CASE Affords(L, tx.from, x)
  <2>1. x \in Nat
    BY DEF SenderDeposit, OpenTx
  <2>2. Sound(P, t)
    BY <1>1, <2>1, ChargeSound DEF OpenTx
  <2>3. c \in Channel /\ c.balA + c.balB = c.capacity
    BY DEF OpenTx, Channel
  <2> HIDE DEF P, c, x
  <2>4. Sound([P EXCEPT !.channel[tx.id] = c], t)
    BY <2>2, <2>3 DEF Sound, LedgerType, OpenTx
  <2> QED BY <1>1, <2>2, <2>4 DEF OpenChannel, P, c, x
<1> QED BY <1>1 DEF OpenChannel

LEMMA UpdateChannelSound ==
  ASSUME NEW L, NEW t, Sound(L, t), NEW tx \in BalanceTx
  PROVE  Sound(UpdateChannel(L, tx), t)
<1> DEFINE c == [Rebalanced(L.channel[tx.id], tx) EXCEPT !.seq = tx.seq]
<1>1. tx.id \in ChannelId /\ tx.seq \in Nat /\ tx.balA \in Nat /\ tx.balB \in Nat
  BY DEF BalanceTx
<1>2. L.channel[tx.id] \in Channel
  BY <1>1, Rows
<1>3. Admits(L, tx) => c \in Channel /\ c.balA + c.balB = c.capacity
  BY <1>1, <1>2 DEF Channel, Rebalanced, Admits
<1> QED BY <1>1, <1>3, ChannelRowSound DEF UpdateChannel

LEMMA DisputeChannelSound ==
  ASSUME NEW L, NEW t, Sound(L, t), NEW tx \in BalanceTx
  PROVE  Sound(DisputeChannel(L, tx), t)
<1> DEFINE c == [Rebalanced(L.channel[tx.id], tx) EXCEPT !.seq = tx.seq, !.status = "dispute"]
<1>1. tx.id \in ChannelId /\ tx.seq \in Nat /\ tx.balA \in Nat /\ tx.balB \in Nat
  BY DEF BalanceTx
<1>2. L.channel[tx.id] \in Channel
  BY <1>1, Rows
<1>3. Admits(L, tx) => c \in Channel /\ c.balA + c.balB = c.capacity
  BY <1>1, <1>2 DEF Channel, Rebalanced, Admits
<1> QED BY <1>1, <1>3, ChannelRowSound DEF DisputeChannel

LEMMA CloseChannelSound ==
  ASSUME NEW L, NEW t, Sound(L, t), NEW tx \in BalanceTx
  PROVE  Sound(CloseChannel(L, tx), t)
<1> DEFINE Q == Credit(L, L.channel[tx.id].a, tx.balA)
           P == Credit(Q, L.channel[tx.id].b, tx.balB)
<1>1. tx.id \in ChannelId /\ tx.balA \in Nat /\ tx.balB \in Nat
  BY DEF BalanceTx
<1>2. L.channel[tx.id].a \in Account /\ L.channel[tx.id].b \in Account
  BY <1>1, Rows DEF Channel
<1>3. Sound(Q, t) /\ SameTables(L, Q)
  BY <1>1, <1>2, CreditSound
<1> HIDE DEF Q
<1>4. Sound(P, t) /\ SameTables(L, P)
  BY SMTT(30), <1>1, <1>2, <1>3, CreditSound DEF SameTables
<1> HIDE DEF P
<1> DEFINE c == [Rebalanced(P.channel[tx.id], tx) EXCEPT !.status = "closed"]
<1>5. P.channel[tx.id] \in Channel
  BY <1>1, <1>4, Rows
<1>6. P.channel[tx.id] = L.channel[tx.id]
  BY <1>4 DEF SameTables
<1>7. Admits(L, tx) => c \in Channel /\ c.balA + c.balB = c.capacity
  BY <1>1, <1>5, <1>6 DEF Channel, Rebalanced, Admits
<1>8. Admits(L, tx) => Sound([P EXCEPT !.channel[tx.id] = c], t)
  BY <1>1, <1>4, <1>7, ChannelRowSound
<1> QED BY <1>4, <1>8 DEF CloseChannel, P, Q

LEMMA SubmitProblemSound ==
  ASSUME NEW L, NEW t \in Nat, Sound(L, t), NEW tx \in SubmitTx
  PROVE  Sound(SubmitProblem(L, tx, t), t)
<1> DEFINE P == Debit(L, tx.from, tx.fee + tx.bounty)
           Q == SetNonce(P, tx)
           p == [status |-> "open", submitter |-> tx.from, solver |-> tx.from,
                 bounty |-> tx.bounty, expires |-> t + tx.lifetime, held |-> TRUE]
<1>1. CASE Affords(L, tx.from, tx.fee + tx.bounty)
  <2>1. Sound(P, t)
    BY <1>1, DebitSound DEF SubmitTx
  <2> HIDE DEF P
  <2>2. Sound(Q, t)
    BY <2>1, SetNonceSound DEF SubmitTx
  <2>3. p \in Problem /\ p.status = "open" /\ p.held
    BY DEF SubmitTx, Problem
  <2> HIDE DEF Q, p
  <2>4. Sound([Q EXCEPT !.problem[tx.id] = p], t)
    BY <2>2, <2>3 DEF Sound, LedgerType, SubmitTx
  <2> QED BY <1>1, <2>1, <2>4 DEF SubmitProblem, P, Q, p
<1> QED BY <1>1 DEF SubmitProblem

\* The bounty leaves ESCROW_TABLE in the step that gives the problem its last
\* status: in between the ledger is not sound.  P is the ledger before, p the
\* row with its last status.
LEMMA PaidSound ==
  ASSUME NEW P, NEW t, Sound(P, t), NEW id \in ProblemId, NEW a \in Account,
         NEW p \in Problem, p.status \in {"solved", "cancelled"}
  PROVE  Sound(PayBounty([P EXCEPT !.problem[id] = p], id, a), t)
<1> DEFINE S == [P EXCEPT !.problem[id] = p]
           C == Credit(S, a, S.problem[id].bounty)
           q == [C.problem[id] EXCEPT !.held = FALSE]
           M == [C EXCEPT !.problem[id] = q]
<1>1. P \in LedgerType
  BY DEF Sound
<1>2. /\ S \in LedgerType /\ S.problem[id] = p
      /\ \A o \in ProblemId \ {id} : S.problem[o] = P.problem[o]
      /\ S.escrow = P.escrow /\ S.channel = P.channel
  BY <1>1, ProblemRowTyped
<1> HIDE DEF S
<1>3. p.bounty \in Nat
  BY DEF Problem
<1>4. C \in LedgerType /\ SameTables(S, C)
  BY <1>2, <1>3, CreditTyped
<1> HIDE DEF C
<1>5. C.problem[id] = p
  BY <1>2, <1>4 DEF SameTables
<1>6. q \in Problem /\ ~q.held /\ q.status \in {"solved", "cancelled"}
  BY <1>5 DEF Problem
<1> HIDE DEF q
<1>7. /\ M \in LedgerType /\ M.problem[id] = q
      /\ \A o \in ProblemId \ {id} : M.problem[o] = C.problem[o]
      /\ M.escrow = C.escrow /\ M.channel = C.channel
  BY <1>4, <1>6, ProblemRowTyped
<1> HIDE DEF M
<1>8. Sound(M, t)
  BY <1>2, <1>4, <1>6, <1>7 DEF Sound, SameTables
<1> QED BY <1>8 DEF PayBounty, S, C, q, M

\* A problem that is solved has been paid, so there is nothing to claim.
LEMMA ClaimBountySound ==
  ASSUME NEW L, NEW t, Sound(L, t), NEW tx \in BountyTx
  PROVE  Sound(ClaimBounty(L, tx), t)
<1> DEFINE P == Debit(L, tx.from, tx.fee)
<1>1. CASE Affords(L, tx.from, tx.fee)
  <2>1. Sound(P, t)
    BY <1>1, DebitSound DEF BountyTx
  <2> HIDE DEF P
  <2>2. Claim(P, tx) = P
    BY <2>1 DEF Sound, Claim, BountyTx
  <2> QED BY <1>1, <2>1, <2>2 DEF ClaimBounty, P
<1> QED BY <1>1 DEF ClaimBounty

LEMMA CancelProblemSound ==
  ASSUME NEW L, NEW t, Sound(L, t), NEW tx \in BountyTx
  PROVE  Sound(CancelProblem(L, tx), t)
<1> DEFINE P == Debit(L, tx.from, tx.fee)
           p == [P.problem[tx.id] EXCEPT !.held = FALSE]
           C == Credit(P, tx.from, P.problem[tx.id].bounty)
           Q == PayBounty(P, tx.id, tx.from)
           M == SetNonce(Q, tx)
           m == [M.problem[tx.id] EXCEPT !.status = "cancelled"]
           R == [M EXCEPT !.problem[tx.id] = m]
<1>1. CASE Affords(L, tx.from, tx.fee)
  <2>1. Sound(P, t) /\ tx.id \in ProblemId /\ tx.from \in Account /\ tx.nonce \in Nat
    BY <1>1, DebitSound DEF BountyTx
  <2> HIDE DEF P
  <2>2. P.problem[tx.id] \in Problem
    BY <2>1, Rows
  <2>3. C \in LedgerType /\ SameTables(P, C)
    <3>1. P \in LedgerType /\ P.problem[tx.id].bounty \in Nat
      BY <2>1, <2>2 DEF Problem, Sound
    <3> QED BY <2>1, <3>1, CreditTyped
  <2> HIDE DEF C
  <2>4. p \in Problem /\ ~p.held
    BY <2>2 DEF Problem
  <2>5. Q = [C EXCEPT !.problem[tx.id] = p]
    BY <2>3 DEF PayBounty, C, SameTables
  <2> HIDE DEF p
  <2>6. /\ Q \in LedgerType /\ Q.problem[tx.id] = p
        /\ \A o \in ProblemId \ {tx.id} : Q.problem[o] = C.problem[o]
        /\ Q.escrow = C.escrow /\ Q.channel = C.channel
    BY <2>1, <2>3, <2>4, <2>5, ProblemRowTyped
  <2> HIDE DEF Q
  <2>7. M \in LedgerType /\ SameTables(Q, M)
    BY <2>1, <2>6, SetNonceTyped
  <2> HIDE DEF M
  <2>8. m \in Problem /\ ~m.held /\ m.status = "cancelled"
    <3>1. M.problem[tx.id] = p
      BY <2>6, <2>7 DEF SameTables
    <3> QED BY <2>4, <3>1 DEF Problem
  <2> HIDE DEF m
  <2>9. /\ R \in LedgerType /\ R.problem[tx.id] = m
        /\ \A o \in ProblemId \ {tx.id} : R.problem[o] = M.problem[o]
        /\ R.escrow = M.escrow /\ R.channel = M.channel
    BY <2>1, <2>7, <2>8, ProblemRowTyped
  <2> HIDE DEF R
  <2>10. Sound(R, t)
    BY <2>1, <2>3, <2>6, <2>7, <2>8, <2>9 DEF Sound, SameTables
  <2> QED BY <1>1, <2>1, <2>10 DEF CancelProblem, P, Q, M, m, R
<1> QED BY <1>1 DEF CancelProblem

LEMMA SolveProblemSound ==
  ASSUME NEW L, NEW t, Sound(L, t), NEW tx \in SolveTx
  PROVE  Sound(SolveProblem(L, tx, t), t)
<1> DEFINE P == Debit(L, tx.from, tx.fee)
           p == [P.problem[tx.id] EXCEPT !.status = "solved", !.solver = tx.from]
           S == [P EXCEPT !.problem[tx.id] = p]
           R == PayBounty(S, tx.id, tx.from)
<1>1. CASE Affords(L, tx.from, tx.fee)
  <2>1. Sound(P, t) /\ P.problem[tx.id] = L.problem[tx.id]
    BY <1>1, DebitSound DEF SolveTx, SameTables
  <2>2. tx.id \in ProblemId /\ tx.from \in Account /\ tx.nonce \in Nat
    BY DEF SolveTx
  <2> HIDE DEF P
  <2>3. CASE L.problem[tx.id].status # "open"
    BY <1>1, <2>1, <2>3 DEF SolveProblem, P
  <2>4. CASE L.problem[tx.id].status = "open"
    <3>1. Sound([P EXCEPT !.problem[tx.id].status = "expired"], t)
      <4> DEFINE q == [P.problem[tx.id] EXCEPT !.status = "expired"]
      <4>1. q \in Problem /\ q.held /\ q.status = "expired"
        <5>1. P.problem[tx.id] \in Problem /\ P.problem[tx.id].held
          BY <2>1, <2>2, <2>4, Rows DEF Sound
        <5> QED BY <5>1 DEF Problem
      <4> QED BY <2>1, <2>2, <4>1, ProblemRowSound
    <3>2. p \in Problem /\ p.held /\ p.status = "solved" /\ p.solver = tx.from
      <4>1. P.problem[tx.id] \in Problem /\ P.problem[tx.id].held
        BY <2>1, <2>2, <2>4, Rows DEF Sound
      <4> QED BY <2>2, <4>1 DEF Problem
    <3> HIDE DEF p
    <3>3. Sound(R, t)
      BY <2>1, <2>2, <3>2, PaidSound
    <3>4. S.problem[tx.id] = p
      <4>1. P \in LedgerType
        BY <2>1 DEF Sound
      <4> QED BY ZenonT(30), <2>2, <3>2, <4>1, ProblemRowTyped
    <3> HIDE DEF R, S
    <3>5. Claim(S, tx) = SetNonce(R, tx)
      BY <3>2, <3>4 DEF Claim, R
    <3>6. Sound(SetNonce(R, tx), t)
      BY <3>3, <2>2, SetNonceSound
    <3> QED BY <1>1, <2>1, <2>4, <3>1, <3>5, <3>6 DEF SolveProblem, P, S, p
  <2> QED BY <2>3, <2>4
<1> QED BY <1>1 DEF SolveProblem

\* Whatever row is written, once the fee is paid.
LEMMA WriteLineSound ==
  ASSUME NEW L, NEW t, Sound(L, t), NEW tx, tx.from \in Account, tx.nonce \in Nat,
         tx.fee \in Nat, tx.id \in LineId, NEW allowed \in BOOLEAN, NEW row,
         allowed => row \in Line
  PROVE  Sound(WriteLine(L, tx, allowed, row), t)
<1> DEFINE P == Charge(L, tx, tx.fee)
<1>1. CASE Affords(L, tx.from, tx.fee)
  <2>1. Sound(P, t)
    BY <1>1, ChargeSound
  <2> HIDE DEF P
  <2>2. allowed => Sound([P EXCEPT !.line[tx.id] = row], t)
    BY <2>1 DEF Sound, LedgerType
  <2> QED BY <1>1, <2>1, <2>2 DEF WriteLine, P
<1> QED BY <1>1 DEF WriteLine

LEMMA CreateLineSound ==
  ASSUME NEW L, NEW t, Sound(L, t), NEW tx \in TrustTx
  PROVE  Sound(CreateLine(L, tx), t)
<1> DEFINE row == [status |-> "active", a |-> tx.from, b |-> tx.to,
                   limitAB |-> tx.limitAB, limitBA |-> tx.limitBA, tau |-> 0]
<1>1. row \in Line
  BY DEF TrustTx, Line
<1>2. /\ tx.from \in Account /\ tx.nonce \in Nat /\ tx.fee \in Nat /\ tx.id \in LineId
      /\ (L.line[tx.id].status = "none" /\ tx.good) \in BOOLEAN
  BY DEF TrustTx
<1> HIDE DEF row
<1>3. Sound(WriteLine(L, tx, L.line[tx.id].status = "none" /\ tx.good, row), t)
  BY <1>1, <1>2, WriteLineSound
<1> QED BY <1>3 DEF CreateLine, row

LEMMA UpdateLimitsSound ==
  ASSUME NEW L, NEW t, Sound(L, t), NEW tx \in LimitsTx
  PROVE  Sound(UpdateLimits(L, tx), t)
<1> DEFINE l == L.line[tx.id]
           Limit(new, old) == IF new = Keep THEN old ELSE new
           row == [l EXCEPT !.limitAB = Limit(tx.limitAB, @), !.limitBA = Limit(tx.limitBA, @)]
           allowed == Participates(L, tx) /\ l.status = "active"
<1>1. /\ tx.from \in Account /\ tx.nonce \in Nat /\ tx.fee \in Nat /\ tx.id \in LineId
      /\ tx.limitAB \in Nat \cup {Keep} /\ tx.limitBA \in Nat \cup {Keep}
  BY DEF LimitsTx
<1>2. row \in Line
  <2>1. l \in Line
    BY <1>1, Rows
  <2> HIDE DEF l
  <2> QED BY <1>1, <2>1 DEF Line
<1>3. allowed \in BOOLEAN
  BY DEF Participates
<1> HIDE DEF row, allowed
<1>4. Sound(WriteLine(L, tx, allowed, row), t)
  BY <1>1, <1>2, <1>3, WriteLineSound
<1> QED BY <1>4 DEF UpdateLimits, row, allowed

LEMMA LineStatusSound ==
  ASSUME NEW L, NEW t, Sound(L, t), NEW tx \in LineTx
  PROVE  Sound(FreezeLine(L, tx), t) /\ Sound(CloseLine(L, tx), t)
<1> DEFINE f == [L.line[tx.id] EXCEPT !.status = "frozen"]
           c == [L.line[tx.id] EXCEPT !.status = "closed"]
<1>1. /\ tx.from \in Account /\ tx.nonce \in Nat /\ tx.fee \in Nat /\ tx.id \in LineId
      /\ Participates(L, tx) \in BOOLEAN
  BY DEF LineTx, Participates
<1>2. f \in Line /\ c \in Line
  <2>1. L.line[tx.id] \in Line
    BY <1>1, Rows
  <2> QED BY <2>1 DEF Line
<1> HIDE DEF f, c
<1>3. Sound(WriteLine(L, tx, Participates(L, tx), f), t)
  BY <1>1, <1>2, WriteLineSound
<1>4. Sound(WriteLine(L, tx, Participates(L, tx), c), t)
  BY <1>1, <1>2, WriteLineSound
<1> QED BY <1>3, <1>4 DEF FreezeLine, CloseLine, f, c

LEMMA EvolveLineSound ==
  ASSUME NEW L, NEW t, Sound(L, t), NEW tx \in EvolveTx
  PROVE  Sound(EvolveLine(L, tx), t)
<1> DEFINE row == [L.line[tx.id] EXCEPT !.tau = @ + tx.delta]
<1>1. /\ tx.from \in Account /\ tx.nonce \in Nat /\ tx.fee \in Nat /\ tx.id \in LineId
      /\ tx.delta \in Int /\ Participates(L, tx) \in BOOLEAN
  BY DEF EvolveTx, Participates
<1>2. row \in Line
  <2>1. L.line[tx.id] \in Line
    BY <1>1, Rows
  <2> QED BY <1>1, <2>1 DEF Line
<1> HIDE DEF row
<1>3. Sound(WriteLine(L, tx, Participates(L, tx), row), t)
  BY <1>1, <1>2, WriteLineSound
<1> QED BY <1>3 DEF EvolveLine, row

\* What is swapped in is a natural number, and so is what comes out.
LEMMA AmountOutNat ==
  ASSUME NEW tx \in SwapTx
  PROVE  AmountOut(tx) \in Nat
<1> DEFINE x == tx.amountIn
           f == Factor[tx.poolFrom]
           g == Factor[tx.poolTo]
           y == x * f
<1>1. x \in Nat /\ f \in Nat /\ g \in Nat /\ g > 0
  BY LedgerAssumption DEF SwapTx
<1> HIDE DEF x, f, g
<1>2. y \in Nat
  BY <1>1
<1> HIDE DEF y
<1>3. y \div g \in Nat
  BY <1>1, <1>2
<1> QED BY <1>3 DEF AmountOut, x, f, g, y

LEMMA SwapSound ==
  ASSUME NEW L, NEW t, Sound(L, t), NEW tx \in SwapTx
  PROVE  Sound(SwapPools(L, tx), t)
<1> DEFINE P == Charge(L, tx, tx.fee)
           out == AmountOut(tx)
           q == [L.pool EXCEPT ![tx.poolFrom] = @ - tx.amountIn,
                               ![tx.poolTo] = L.pool[tx.poolTo] - out]
<1>1. /\ tx.from \in Account /\ tx.nonce \in Nat /\ tx.fee \in Nat
      /\ tx.poolFrom \in Pool /\ tx.poolTo \in Pool /\ tx.amountIn \in Nat
  BY DEF SwapTx
<1>2. out \in Nat
  BY AmountOutNat
<1> HIDE DEF out
<1>3. CASE Affords(L, tx.from, tx.fee)
  <2>1. Sound(P, t)
    BY <1>1, <1>3, ChargeSound
  <2> HIDE DEF P
  <2>2. ASSUME L.pool[tx.poolFrom] >= tx.amountIn, L.pool[tx.poolTo] >= out
        PROVE  Sound([P EXCEPT !.pool = q], t)
    <3>1. q \in [Pool -> Nat]
      BY <1>1, <1>2, <2>2 DEF Sound, LedgerType
    <3> HIDE DEF q
    <3> QED BY <2>1, <3>1 DEF Sound, LedgerType
  <2> QED BY <1>3, <2>1, <2>2 DEF SwapPools, P, q, out
<1> QED BY <1>3 DEF SwapPools

LEMMA FillPoolsSound ==
  ASSUME NEW L, NEW t, Sound(L, t), NEW share \in [Pool -> Nat]
  PROVE  Sound(FillPools(L, share), t)
  BY DEF FillPools, Sound, LedgerType

-----------------------------------------------------------------------------
(* The invariant *)

LEMMA ApplyTxSound ==
  ASSUME NEW L, NEW t \in Nat, Sound(L, t), NEW tx \in Tx
  PROVE  Sound(ApplyTx(L, tx, t), t)
<1>1. CASE tx.kind = "transfer"
  BY <1>1, TxOfKind, TransferSound DEF ApplyTx
<1>2. CASE tx.kind = "timelock"
  BY <1>2, TxOfKind, TimeLockSound DEF ApplyTx
<1>3. CASE tx.kind = "createEscrow"
  BY <1>3, TxOfKind, CreateEscrowSound DEF ApplyTx
<1>4. CASE tx.kind = "releaseEscrow"
  BY <1>4, TxOfKind, ReleaseEscrowSound DEF ApplyTx
<1>5. CASE tx.kind = "refundEscrow"
  BY <1>5, TxOfKind, RefundEscrowSound DEF ApplyTx
<1>6. CASE tx.kind = "openChannel"
  BY <1>6, TxOfKind, OpenChannelSound DEF ApplyTx
<1>7. CASE tx.kind = "updateChannel"
  BY <1>7, TxOfKind, UpdateChannelSound DEF ApplyTx
<1>8. CASE tx.kind = "disputeChannel"
  BY <1>8, TxOfKind, DisputeChannelSound DEF ApplyTx
<1>9. CASE tx.kind = "closeChannel"
  BY <1>9, TxOfKind, CloseChannelSound DEF ApplyTx
<1>10. CASE tx.kind = "submitProblem"
  BY <1>10, TxOfKind, SubmitProblemSound DEF ApplyTx
<1>11. CASE tx.kind = "solveProblem"
  BY <1>11, TxOfKind, SolveProblemSound DEF ApplyTx
<1>12. CASE tx.kind = "claimBounty"
  BY <1>12, TxOfKind, ClaimBountySound DEF ApplyTx
<1>13. CASE tx.kind = "cancelProblem"
  BY <1>13, TxOfKind, CancelProblemSound DEF ApplyTx
<1>14. CASE tx.kind = "createLine"
  BY <1>14, TxOfKind, CreateLineSound DEF ApplyTx
<1>15. CASE tx.kind = "updateLimits"
  BY <1>15, TxOfKind, UpdateLimitsSound DEF ApplyTx
<1>16. CASE tx.kind \in {"freezeLine", "closeLine"}
  BY <1>16, TxOfKind, LineStatusSound DEF ApplyTx
<1>17. CASE tx.kind = "evolveLine"
  BY <1>17, TxOfKind, EvolveLineSound DEF ApplyTx
<1>18. CASE tx.kind = "swap"
  BY <1>18, TxOfKind, SwapSound DEF ApplyTx
<1> QED BY <1>1, <1>2, <1>3, <1>4, <1>5, <1>6, <1>7, <1>8, <1>9, <1>10, <1>11, <1>12, <1>13,
           <1>14, <1>15, <1>16, <1>17, <1>18, TxOfKind

\* The clock only helps.
LEMMA LaterSound ==
  ASSUME NEW L, NEW t \in Nat, Sound(L, t)
  PROVE  Sound(L, t + 1)
<1>1. \A id \in EscrowId : L.escrow[id].timeout \in Nat
  BY Rows DEF Escrow
<1> QED BY <1>1 DEF Sound

IInv ==
  /\ Sound(ledger, now)
  /\ now \in 0..MaxTime /\ executed \in 0..MaxTxs /\ minted \in Nat

LEMMA InitInv == Init => IInv
  BY ExecutionAssumption DEF Init, IInv, Sound

LEMMA StepInv == IInv /\ [Next]_vars => IInv'
<1> SUFFICES ASSUME IInv, [Next]_vars PROVE IInv'
  OBVIOUS
<1>0. now \in Nat /\ MaxTime \in Nat /\ MaxTxs \in Nat
  BY ExecutionAssumption DEF IInv
<1>1. ASSUME NEW tx \in Tx, Execute(tx) PROVE IInv'
  <2>1. Sound(ledger', now)
    BY <1>0, <1>1, ApplyTxSound DEF IInv, Execute
  <2> QED BY <1>0, <1>1, <2>1 DEF IInv, Execute
<1>2. ASSUME NEW a \in Account, NEW share \in Shares, Coinbase(a, share) PROVE IInv'
  <2>1. Sound(FillPools(ledger, share), now)
    BY ExecutionAssumption, FillPoolsSound DEF IInv
  <2>2. Sound(ledger', now)
    BY <1>2, <2>1, ExecutionAssumption, CreditSound DEF Coinbase
  <2> QED BY <1>0, <1>2, <2>2, ExecutionAssumption DEF IInv, Coinbase
<1>3. CASE Tick
  <2>1. Sound(ledger', now')
    BY <1>0, <1>3, LaterSound DEF IInv, Tick
  <2> QED BY <1>0, <1>3, <2>1 DEF IInv, Tick
<1>4. CASE UNCHANGED vars
  BY <1>4 DEF IInv, vars
<1> QED BY <1>1, <1>2, <1>3, <1>4 DEF Next

\* Every reachable ledger is sound: the inductive invariant the theorems below
\* are read off (apply_single_transaction, skipped transactions included).
THEOREM Invariance == Spec => []IInv
  BY InitInv, StepInv, PTL DEF Spec

\* No transaction, executed or skipped with its partial effects, ever leaves
\* the ledger ill-typed; in particular no account is ever overdrawn.
THEOREM TypeCorrect == Spec => []TypeOK
<1>1. IInv => TypeOK
  BY DEF IInv, TypeOK, Sound
<1> QED BY <1>1, Invariance, PTL

\* The bounty of a problem is paid at most once: unless the problem expired, it
\* is set aside exactly while the problem is open (claim_bounty, cancel_problem).
THEOREM BountyPaidOnce == Spec => []BountyFollowsStatus
<1>1. IInv => BountyFollowsStatus
  BY DEF IInv, BountyFollowsStatus, Sound
<1> QED BY <1>1, Invariance, PTL

\* No update, dispute or closing lets the two sides of a channel drift from
\* the capacity it was opened with (channels.rs).
THEOREM ChannelStaysBalanced == Spec => []ChannelBalanced
<1>1. IInv => ChannelBalanced
  BY DEF IInv, ChannelBalanced, Sound
<1> QED BY <1>1, Invariance, PTL

\* Nobody gets an escrow without arbiter back early (can_refund).
THEOREM NoEarlyRefund == Spec => []RefundAfterTimeout
<1>1. IInv => RefundAfterTimeout
  BY DEF IInv, RefundAfterTimeout, Sound
<1> QED BY <1>1, Invariance, PTL

-----------------------------------------------------------------------------
(* Unwinding *)

LEMMA LedgerEquality ==
  ASSUME NEW L \in LedgerType, NEW M \in LedgerType,
         M.bal = L.bal, M.nonce = L.nonce, M.locks = L.locks, SameTables(L, M)
  PROVE  M = L
  BY DEF LedgerType, SameTables

\* All that the operators below change is the balance or the nonce.
SameButBal(L, M) == M.nonce = L.nonce /\ M.locks = L.locks /\ SameTables(L, M)
SameButNonce(L, M) == M.bal = L.bal /\ M.locks = L.locks /\ SameTables(L, M)

LEMMA CreditFields ==
  ASSUME NEW L \in LedgerType, NEW a \in Account, NEW x \in Nat
  PROVE  LET M == Credit(L, a, x)
         IN M \in LedgerType /\ M.bal = [L.bal EXCEPT ![a] = @ + x] /\ SameButBal(L, M)
  BY DEF Credit, LedgerType, SameButBal, SameTables

LEMMA DebitFields ==
  ASSUME NEW L \in LedgerType, NEW a \in Account, NEW x \in Nat, Affords(L, a, x)
  PROVE  LET M == Debit(L, a, x)
         IN M \in LedgerType /\ M.bal = [L.bal EXCEPT ![a] = @ - x] /\ SameButBal(L, M)
  BY DEF Debit, Affords, LedgerType, SameButBal, SameTables

LEMMA ClawFields ==
  ASSUME NEW L \in LedgerType, NEW a \in Account, NEW x \in Nat, Affords(L, a, x)
  PROVE  LET M == Claw(L, a, x)
         IN M \in LedgerType /\ M.bal = [L.bal EXCEPT ![a] = @ - x] /\ SameButBal(L, M)
  BY DEF Claw, Affords, LedgerType, SameButBal, SameTables

LEMMA SetNonceFields ==
  ASSUME NEW L \in LedgerType, NEW tx, tx.from \in Account, tx.nonce \in Nat
  PROVE  LET M == SetNonce(L, tx)
         IN /\ M \in LedgerType
            /\ M.nonce = [L.nonce EXCEPT ![tx.from] = tx.nonce + 1] /\ SameButNonce(L, M)
  BY DEF SetNonce, LedgerType, SameButNonce, SameTables

LEMMA BackNonceFields ==
  ASSUME NEW L \in LedgerType, NEW a \in Account, L.nonce[a] > 0
  PROVE  LET M == BackNonce(L, a)
         IN M \in LedgerType /\ M.nonce = [L.nonce EXCEPT ![a] = @ - 1] /\ SameButNonce(L, M)
  BY DEF BackNonce, LedgerType, SameButNonce, SameTables

\* Charging an account and restoring it.
LEMMA ChargeFields ==
  ASSUME NEW L \in LedgerType, NEW tx, tx.from \in Account, tx.nonce \in Nat,
         NEW x \in Nat, Affords(L, tx.from, x)
  PROVE  LET C == Charge(L, tx, x)
         IN /\ C \in LedgerType
            /\ C.bal = [L.bal EXCEPT ![tx.from] = @ - x]
            /\ C.nonce = [L.nonce EXCEPT ![tx.from] = tx.nonce + 1]
            /\ C.locks = L.locks /\ SameTables(L, C)
<1>1. /\ Debit(L, tx.from, x) \in LedgerType
      /\ Debit(L, tx.from, x).bal = [L.bal EXCEPT ![tx.from] = @ - x]
      /\ SameButBal(L, Debit(L, tx.from, x))
  BY DebitFields
<1> QED BY <1>1, SetNonceFields DEF Charge, SameButBal, SameButNonce, SameTables

LEMMA RestoreFields ==
  ASSUME NEW D \in LedgerType, NEW tx, tx.from \in Account,
         NEW x \in Nat, D.nonce[tx.from] > 0
  PROVE  LET R == Restore(D, tx, x)
         IN /\ R \in LedgerType
            /\ R.bal = [D.bal EXCEPT ![tx.from] = @ + x]
            /\ R.nonce = [D.nonce EXCEPT ![tx.from] = @ - 1]
            /\ R.locks = D.locks /\ SameTables(D, R)
<1>1. /\ Credit(D, tx.from, x) \in LedgerType
      /\ Credit(D, tx.from, x).bal = [D.bal EXCEPT ![tx.from] = @ + x]
      /\ SameButBal(D, Credit(D, tx.from, x))
  BY CreditFields
<1> QED BY SMTT(30), <1>1, BackNonceFields DEF Restore, SameButBal, SameButNonce, SameTables

LEMMA TransferReversed ==
  ASSUME NEW L \in LedgerType, NEW tx \in TransferTx, tx.nonce = L.nonce[tx.from],
         Affords(L, tx.from, tx.amount + tx.fee)
  PROVE  UnwindTransfer(ApplyTransfer(L, tx), tx) = L
<1> DEFINE x == tx.amount + tx.fee
           C == Charge(L, tx, x)
           D == Credit(C, tx.to, tx.amount)
           R == Restore(D, tx, x)
           M == Claw(R, tx.to, tx.amount)
<1>0. /\ tx.from \in Account /\ tx.to \in Account /\ tx.nonce \in Nat
      /\ tx.amount \in Nat /\ x \in Nat /\ Affords(L, tx.from, x)
      /\ L.bal \in [Account -> Nat] /\ L.nonce \in [Account -> Nat]
  BY DEF TransferTx, LedgerType
<1>1. ApplyTransfer(L, tx) = D /\ UnwindTransfer(D, tx) = M
  BY DEF ApplyTransfer, UnwindTransfer
<1> HIDE DEF x
<1>2. /\ C \in LedgerType
      /\ C.bal = [L.bal EXCEPT ![tx.from] = @ - x]
      /\ C.nonce = [L.nonce EXCEPT ![tx.from] = tx.nonce + 1]
      /\ C.locks = L.locks /\ SameTables(L, C)
  BY <1>0, ChargeFields
<1> HIDE DEF C
<1>3. D \in LedgerType /\ D.bal = [C.bal EXCEPT ![tx.to] = @ + tx.amount] /\ SameButBal(C, D)
  BY <1>0, <1>2, CreditFields
<1> HIDE DEF D
<1>4. D.nonce[tx.from] > 0
  BY <1>0, <1>2, <1>3 DEF SameButBal
<1>5. /\ R \in LedgerType
      /\ R.bal = [D.bal EXCEPT ![tx.from] = @ + x]
      /\ R.nonce = [D.nonce EXCEPT ![tx.from] = @ - 1]
      /\ R.locks = D.locks /\ SameTables(D, R)
  BY <1>0, <1>3, <1>4, RestoreFields
<1> HIDE DEF R
<1>6. Affords(R, tx.to, tx.amount)
  BY <1>0, <1>2, <1>3, <1>5 DEF Affords, LedgerType
<1>7. M \in LedgerType /\ M.bal = [R.bal EXCEPT ![tx.to] = @ - tx.amount] /\ SameButBal(R, M)
  BY <1>0, <1>5, <1>6, ClawFields
<1> HIDE DEF M
<1>8. M.bal = L.bal
  BY <1>0, <1>2, <1>3, <1>5, <1>7
<1>9. M.nonce = L.nonce
  BY <1>0, <1>2, <1>3, <1>5, <1>7 DEF SameButBal
<1>10. M.locks = L.locks /\ SameTables(L, M)
  BY <1>2, <1>3, <1>5, <1>7 DEF SameButBal, SameTables
<1> QED BY <1>1, <1>7, <1>8, <1>9, <1>10, LedgerEquality

LEMMA TimeLockReversed ==
  ASSUME NEW L \in LedgerType, NEW tx \in TimeLockTx, tx \in Tx, tx \notin L.locks,
         tx.nonce = L.nonce[tx.from], Affords(L, tx.from, tx.amount + tx.fee)
  PROVE  UnwindTimeLock(ApplyTimeLock(L, tx), tx) = L
<1> DEFINE x == tx.amount + tx.fee
           C == Charge(L, tx, x)
           D == [C EXCEPT !.locks = @ \cup {tx}]
           R == Restore(D, tx, x)
           M == [R EXCEPT !.locks = @ \ {tx}]
<1>0. /\ tx.from \in Account /\ tx.nonce \in Nat /\ x \in Nat /\ Affords(L, tx.from, x)
      /\ L.bal \in [Account -> Nat] /\ L.nonce \in [Account -> Nat]
  BY DEF TimeLockTx, LedgerType
<1>1. ApplyTimeLock(L, tx) = D /\ UnwindTimeLock(D, tx) = M
  BY DEF ApplyTimeLock, UnwindTimeLock
<1> HIDE DEF x
<1>2. /\ C \in LedgerType
      /\ C.bal = [L.bal EXCEPT ![tx.from] = @ - x]
      /\ C.nonce = [L.nonce EXCEPT ![tx.from] = tx.nonce + 1]
      /\ C.locks = L.locks /\ SameTables(L, C)
  BY <1>0, ChargeFields
<1> HIDE DEF C
<1>3. /\ D \in LedgerType /\ D.bal = C.bal /\ D.nonce = C.nonce
      /\ D.locks = C.locks \cup {tx} /\ SameTables(C, D)
  BY <1>2 DEF LedgerType, SameTables
<1> HIDE DEF D
<1>4. D.nonce[tx.from] > 0
  BY <1>0, <1>2, <1>3
<1>5. /\ R \in LedgerType
      /\ R.bal = [D.bal EXCEPT ![tx.from] = @ + x]
      /\ R.nonce = [D.nonce EXCEPT ![tx.from] = @ - 1]
      /\ R.locks = D.locks /\ SameTables(D, R)
  BY <1>0, <1>3, <1>4, RestoreFields
<1> HIDE DEF R
<1>6. /\ M \in LedgerType /\ M.bal = R.bal /\ M.nonce = R.nonce
      /\ M.locks = R.locks \ {tx} /\ SameTables(R, M)
  BY <1>5 DEF LedgerType, SameTables
<1> HIDE DEF M
<1>7. M.bal = L.bal /\ M.nonce = L.nonce
  BY <1>0, <1>2, <1>3, <1>5, <1>6
<1>8. M.locks = L.locks /\ SameTables(L, M)
  BY <1>2, <1>3, <1>5, <1>6 DEF SameTables
<1> QED BY <1>1, <1>6, <1>7, <1>8, LedgerEquality

\* Unwinding an executed transfer or time lock restores the ledger exactly,
\* self-transfers included (unwind_single_transaction).
THEOREM TransfersUnwind == Spec => TransferUnwinds
<1> DEFINE Step == \A tx \in Tx :
      Executed(tx) /\ tx.kind \in {"transfer", "timelock"} /\ tx \notin ledger.locks
        => Reverses(tx)
<1>1. ASSUME IInv, NEW tx \in Tx, Executed(tx), tx.kind = "transfer"
      PROVE  Reverses(tx)
  <2>1. ledger \in LedgerType /\ tx \in TransferTx
    BY <1>1, TxOfKind DEF IInv, Sound
  <2>2. ledger' = ApplyTransfer(ledger, tx) /\ Affords(ledger, tx.from, tx.amount + tx.fee)
    BY <1>1 DEF Executed, ApplyTx, ApplyTransfer
  <2>3. UnwindTx(ledger', tx) = UnwindTransfer(ledger', tx)
    BY <1>1 DEF UnwindTx
  <2> QED BY <1>1, <2>1, <2>2, <2>3, TransferReversed DEF Executed, Reverses
<1>2. ASSUME IInv, NEW tx \in Tx, Executed(tx), tx.kind = "timelock", tx \notin ledger.locks
      PROVE  Reverses(tx)
  <2>1. ledger \in LedgerType /\ tx \in TimeLockTx
    BY <1>2, TxOfKind DEF IInv, Sound
  <2>2. ledger' = ApplyTimeLock(ledger, tx) /\ Affords(ledger, tx.from, tx.amount + tx.fee)
    BY <1>2 DEF Executed, ApplyTx, ApplyTimeLock
  <2>3. UnwindTx(ledger', tx) = UnwindTimeLock(ledger', tx)
    BY <1>2 DEF UnwindTx
  <2> QED BY <1>2, <2>1, <2>2, <2>3, TimeLockReversed DEF Executed, Reverses
<1>3. IInv => [Step]_vars
  BY <1>1, <1>2
<1> QED BY <1>3, Invariance, PTL DEF TransferUnwinds
-----------------------------------------------------------------------------
(* What is settled stays settled *)

\* The four parts of SettledForGood, of two ledgers.
EscrowsSettle(L, M) ==
  \A id \in EscrowId :
    LET e == L.escrow[id]
        f == M.escrow[id]
    IN e.status # "none" /\ f # e =>
         /\ e.status = "active"
         /\ f \in {[e EXCEPT !.status = s] : s \in {"released", "refunded"}}
         /\ M.bal = [L.bal EXCEPT ![Payee(f)] = @ + e.amount]

LinesSettle(L, M) ==
  \A id \in LineId :
    LET l == L.line[id]
        m == M.line[id]
    IN l.status \in {"frozen", "closed"} =>
         /\ m.status \in {"frozen", "closed"}
         /\ m.limitAB = l.limitAB /\ m.limitBA = l.limitBA

ChannelsSettle(L, M) ==
  \A id \in ChannelId :
    L.channel[id].status \in {"dispute", "closed"} => M.channel[id] = L.channel[id]

ProblemsSettle(L, M) ==
  \A id \in ProblemId :
    L.problem[id].status \notin {"none", "open"} => M.problem[id] = L.problem[id]

Settles(L, M) ==
  EscrowsSettle(L, M) /\ LinesSettle(L, M) /\ ChannelsSettle(L, M) /\ ProblemsSettle(L, M)

\* Every table but the pools.
SameRows(L, M) ==
  M.escrow = L.escrow /\ M.channel = L.channel /\ M.problem = L.problem /\ M.line = L.line

LEMMA SameRowsSettle ==
  ASSUME NEW L, NEW M, SameRows(L, M)
  PROVE  Settles(L, M)
  BY DEF SameRows, Settles, EscrowsSettle, LinesSettle, ChannelsSettle, ProblemsSettle

\* A step that writes one table and keeps the others.
LEMMA OneTableSettles ==
  ASSUME NEW L, NEW M,
         M.escrow = L.escrow \/ EscrowsSettle(L, M),
         M.line = L.line \/ LinesSettle(L, M),
         M.channel = L.channel \/ ChannelsSettle(L, M),
         M.problem = L.problem \/ ProblemsSettle(L, M)
  PROVE  Settles(L, M)
  BY DEF Settles, EscrowsSettle, LinesSettle, ChannelsSettle, ProblemsSettle

LEMMA TransferSettles ==
  ASSUME NEW L, NEW t, Sound(L, t), NEW tx \in TransferTx
  PROVE  Settles(L, ApplyTransfer(L, tx))
<1> DEFINE P == Charge(L, tx, tx.amount + tx.fee)
<1>1. CASE Affords(L, tx.from, tx.amount + tx.fee)
  <2>1. Sound(P, t) /\ SameTables(L, P)
    BY <1>1, ChargeSound DEF TransferTx
  <2> HIDE DEF P
  <2>2. SameTables(P, Credit(P, tx.to, tx.amount))
    BY <2>1, CreditSound DEF TransferTx
  <2>3. SameRows(L, Credit(P, tx.to, tx.amount))
    BY <2>1, <2>2 DEF SameTables, SameRows
  <2> QED BY <1>1, <2>3, SameRowsSettle DEF ApplyTransfer, P
<1>2. CASE ~Affords(L, tx.from, tx.amount + tx.fee)
  BY <1>2, SameRowsSettle DEF ApplyTransfer, SameRows
<1> QED BY <1>1, <1>2

LEMMA TimeLockSettles ==
  ASSUME NEW L, NEW t, Sound(L, t), NEW tx \in Tx, tx \in TimeLockTx
  PROVE  Settles(L, ApplyTimeLock(L, tx))
<1> DEFINE P == Charge(L, tx, tx.amount + tx.fee)
           M == [P EXCEPT !.locks = @ \cup {tx}]
<1>1. CASE Affords(L, tx.from, tx.amount + tx.fee)
  <2>1. Sound(P, t) /\ SameTables(L, P)
    BY <1>1, ChargeSound DEF TimeLockTx
  <2> HIDE DEF P
  <2>2. SameRows(L, M)
    BY <2>1 DEF Sound, LedgerType, SameTables, SameRows
  <2> HIDE DEF M
  <2>3. Settles(L, M)
    BY <2>2, SameRowsSettle
  <2> QED BY <1>1, <2>3 DEF ApplyTimeLock, P, M
<1>2. CASE ~Affords(L, tx.from, tx.amount + tx.fee)
  BY <1>2, SameRowsSettle DEF ApplyTimeLock, SameRows
<1> QED BY <1>1, <1>2

\* A row is only made where there was none.
LEMMA CreateEscrowSettles ==
  ASSUME NEW L, NEW t, Sound(L, t), NEW tx \in CreateTx
  PROVE  Settles(L, CreateEscrow(L, tx))
<1> DEFINE P == Charge(L, tx, tx.amount + tx.fee)
           e == [status |-> "active", sender |-> tx.from, to |-> tx.to,
                 arbiter |-> tx.arbiter, amount |-> tx.amount, timeout |-> tx.timeout]
           M == [P EXCEPT !.escrow[tx.id] = e]
<1>1. CASE Affords(L, tx.from, tx.amount + tx.fee)
  <2>1. Sound(P, t) /\ SameTables(L, P)
    BY <1>1, ChargeSound DEF CreateTx
  <2> HIDE DEF P, e
  <2>2. CASE L.escrow[tx.id].status = "none"
    <3>1. /\ M.escrow = [L.escrow EXCEPT ![tx.id] = e]
          /\ M.channel = L.channel /\ M.problem = L.problem /\ M.line = L.line
      BY <2>1 DEF Sound, LedgerType, SameTables
    <3> HIDE DEF M
    <3>2. L.escrow \in [EscrowId -> Escrow]
      BY DEF Sound, LedgerType
    <3>3. EscrowsSettle(L, M)
      BY <2>2, <3>1, <3>2 DEF EscrowsSettle
    <3>4. Settles(L, M)
      BY <3>1, <3>3, OneTableSettles
    <3> QED BY <1>1, <2>2, <3>4 DEF CreateEscrow, P, M, e
  <2>3. CASE L.escrow[tx.id].status # "none"
    <3>1. Settles(L, P)
      BY <2>1, SameRowsSettle DEF SameTables, SameRows
    <3> QED BY <1>1, <2>3, <3>1 DEF CreateEscrow, P
  <2> QED BY <2>2, <2>3
<1>2. CASE ~Affords(L, tx.from, tx.amount + tx.fee)
  BY <1>2, SameRowsSettle DEF CreateEscrow, SameRows
<1> QED BY <1>1, <1>2

\* Paying an active escrow to the party its new status names.
LEMMA PayEscrowSettles ==
  ASSUME NEW L, NEW t, Sound(L, t), NEW id \in EscrowId, L.escrow[id].status = "active",
         NEW s \in {"released", "refunded"}, NEW a \in Account,
         a = Payee([L.escrow[id] EXCEPT !.status = s])
  PROVE  Settles(L, [Credit(L, a, L.escrow[id].amount) EXCEPT !.escrow[id].status = s])
<1> DEFINE e == L.escrow[id]
           P == Credit(L, a, e.amount)
           f == [e EXCEPT !.status = s]
           M == [P EXCEPT !.escrow[id] = f]
<1>1. e \in Escrow
  BY Rows
<1>2. P.bal = [L.bal EXCEPT ![a] = @ + e.amount]
  BY DEF Sound, LedgerType, Credit
<1>3. Sound(P, t) /\ SameTables(L, P)
  BY <1>1, CreditSound DEF Escrow
<1>4. P.escrow[id] = e
  BY <1>3 DEF SameTables
<1> HIDE DEF P
<1>5. f \in Escrow /\ f # e /\ a = Payee(f)
  BY <1>1 DEF Escrow
<1>6. /\ M.escrow = [L.escrow EXCEPT ![id] = f] /\ M.bal = P.bal
      /\ M.channel = L.channel /\ M.problem = L.problem /\ M.line = L.line
  BY <1>3 DEF Sound, LedgerType, SameTables
<1>7. M = [P EXCEPT !.escrow[id].status = s]
  BY <1>4
<1> HIDE DEF M
<1>8. EscrowsSettle(L, M)
  <2>1. L.escrow \in [EscrowId -> Escrow]
    BY DEF Sound, LedgerType
  <2>2. ASSUME NEW o \in EscrowId, o # id PROVE M.escrow[o] = L.escrow[o]
    BY <1>6, <2>1, <2>2
  <2>3. M.escrow[id] = f
    BY <1>6, <2>1
  <2> QED BY <1>2, <1>5, <1>6, <2>2, <2>3 DEF EscrowsSettle
<1>9. Settles(L, M)
  BY <1>6, <1>8, OneTableSettles
<1> QED BY <1>7, <1>9 DEF P

LEMMA ResolveSettles ==
  ASSUME NEW L, NEW t, Sound(L, t), NEW tx \in ResolveTx
  PROVE  Settles(L, ReleaseEscrow(L, tx)) /\ Settles(L, RefundEscrow(L, tx, t))
<1>1. tx.id \in EscrowId
  BY DEF ResolveTx
<1>2. L.escrow[tx.id] \in Escrow
  BY <1>1, Rows
<1>3. Settles(L, L)
  BY SameRowsSettle DEF SameRows
<1>4. /\ Payee([L.escrow[tx.id] EXCEPT !.status = "released"]) = L.escrow[tx.id].to
      /\ Payee([L.escrow[tx.id] EXCEPT !.status = "refunded"]) = L.escrow[tx.id].sender
      /\ L.escrow[tx.id].to \in Account /\ L.escrow[tx.id].sender \in Account
  BY <1>2 DEF Payee, Escrow
<1>5. CanRelease(L, tx) => Settles(L, [Credit(L, L.escrow[tx.id].to, L.escrow[tx.id].amount)
                                         EXCEPT !.escrow[tx.id].status = "released"])
  BY <1>1, <1>4, PayEscrowSettles DEF CanRelease
<1>6. CanRefund(L, tx, t) => Settles(L, [Credit(L, L.escrow[tx.id].sender, L.escrow[tx.id].amount)
                                           EXCEPT !.escrow[tx.id].status = "refunded"])
  BY <1>1, <1>4, PayEscrowSettles DEF CanRefund
<1> QED BY <1>3, <1>5, <1>6 DEF ReleaseEscrow, RefundEscrow

\* A channel is only made where there was none.
LEMMA OpenChannelSettles ==
  ASSUME NEW L, NEW t, Sound(L, t), NEW tx \in OpenTx
  PROVE  Settles(L, OpenChannel(L, tx))
<1> DEFINE x == SenderDeposit(tx) + tx.fee
           P == Charge(L, tx, x)
           c == [status |-> "open", a |-> tx.a, b |-> tx.b,
                 capacity |-> tx.depositA + tx.depositB,
                 balA |-> tx.depositA, balB |-> tx.depositB, seq |-> 0]
           M == [P EXCEPT !.channel[tx.id] = c]
<1>1. CASE Affords(L, tx.from, x)
  <2>1. x \in Nat
    BY DEF SenderDeposit, OpenTx
  <2>2. Sound(P, t) /\ SameTables(L, P)
    BY <1>1, <2>1, ChargeSound DEF OpenTx
  <2> HIDE DEF P, c, x
  <2>3. CASE L.channel[tx.id].status = "none"
    <3>1. /\ M.channel = [L.channel EXCEPT ![tx.id] = c]
          /\ M.escrow = L.escrow /\ M.problem = L.problem /\ M.line = L.line
      BY <2>2 DEF Sound, LedgerType, SameTables
    <3> HIDE DEF M
    <3>2. L.channel \in [ChannelId -> Channel]
      BY DEF Sound, LedgerType
    <3>3. ChannelsSettle(L, M)
      BY <2>3, <3>1, <3>2 DEF ChannelsSettle
    <3>4. Settles(L, M)
      BY <3>1, <3>3, OneTableSettles
    <3> QED BY <1>1, <2>3, <3>4 DEF OpenChannel, P, M, c, x
  <2>4. CASE L.channel[tx.id].status # "none"
    <3>1. Settles(L, P)
      BY <2>2, SameRowsSettle DEF SameTables, SameRows
    <3> QED BY <1>1, <2>4, <3>1 DEF OpenChannel, P, x
  <2> QED BY <2>3, <2>4
<1>2. CASE ~Affords(L, tx.from, x)
  BY <1>2, SameRowsSettle DEF OpenChannel, SameRows
<1> QED BY <1>1, <1>2

\* Writing the row of an open channel, whatever was credited before.
LEMMA OpenRowSettles ==
  ASSUME NEW L, NEW P, L \in LedgerType, P \in LedgerType, SameTables(L, P),
         NEW id \in ChannelId, L.channel[id].status = "open", NEW c
  PROVE  Settles(L, [P EXCEPT !.channel[id] = c])
<1> DEFINE M == [P EXCEPT !.channel[id] = c]
<1>1. /\ M.channel = [L.channel EXCEPT ![id] = c]
      /\ M.escrow = L.escrow /\ M.problem = L.problem /\ M.line = L.line
  BY DEF LedgerType, SameTables
<1> HIDE DEF M
<1>2. L.channel \in [ChannelId -> Channel]
  BY DEF LedgerType
<1>3. ChannelsSettle(L, M)
  BY <1>1, <1>2 DEF ChannelsSettle
<1>4. Settles(L, M)
  BY <1>1, <1>3, OneTableSettles
<1> QED BY <1>4 DEF M

LEMMA BalanceSettles ==
  ASSUME NEW L, NEW t, Sound(L, t), NEW tx \in BalanceTx
  PROVE  /\ Settles(L, UpdateChannel(L, tx))
         /\ Settles(L, DisputeChannel(L, tx))
         /\ Settles(L, CloseChannel(L, tx))
<1> DEFINE Q == Credit(L, L.channel[tx.id].a, tx.balA)
           P == Credit(Q, L.channel[tx.id].b, tx.balB)
           u == [Rebalanced(L.channel[tx.id], tx) EXCEPT !.seq = tx.seq]
           d == [Rebalanced(L.channel[tx.id], tx) EXCEPT !.seq = tx.seq, !.status = "dispute"]
           c == [Rebalanced(P.channel[tx.id], tx) EXCEPT !.status = "closed"]
<1>1. L \in LedgerType /\ tx.id \in ChannelId /\ tx.balA \in Nat /\ tx.balB \in Nat
  BY DEF Sound, BalanceTx
<1>2. L.channel[tx.id].a \in Account /\ L.channel[tx.id].b \in Account
  BY <1>1, Rows DEF Channel
<1>3. Q \in LedgerType /\ SameTables(L, Q)
  BY <1>1, <1>2, CreditTyped
<1> HIDE DEF Q
<1>4. P \in LedgerType /\ SameTables(L, P)
  BY <1>1, <1>2, <1>3, CreditTyped DEF SameTables
<1> HIDE DEF P, u, d, c
<1>5. SameTables(L, L)
  BY DEF SameTables
<1>6. Settles(L, L) /\ Settles(L, P)
  BY <1>4, SameRowsSettle DEF SameRows, SameTables
<1>7. Admits(L, tx) => L.channel[tx.id].status = "open"
  BY DEF Admits
<1>8. Admits(L, tx) => Settles(L, [L EXCEPT !.channel[tx.id] = u])
  BY <1>1, <1>5, <1>7, OpenRowSettles
<1>9. Admits(L, tx) => Settles(L, [L EXCEPT !.channel[tx.id] = d])
  BY <1>1, <1>5, <1>7, OpenRowSettles
<1>10. Admits(L, tx) => Settles(L, [P EXCEPT !.channel[tx.id] = c])
  BY <1>1, <1>4, <1>7, OpenRowSettles
<1>11. Settles(L, UpdateChannel(L, tx))
  BY <1>6, <1>8 DEF UpdateChannel, u
<1>12. Settles(L, DisputeChannel(L, tx))
  BY <1>6, <1>9 DEF DisputeChannel, d
<1>13. Settles(L, CloseChannel(L, tx))
  BY <1>6, <1>10 DEF CloseChannel, P, Q, c
<1> QED BY <1>11, <1>12, <1>13

\* Of all rows, only that of problem id may differ.
OnlyProblem(L, M, id) ==
  /\ \A o \in ProblemId \ {id} : M.problem[o] = L.problem[o]
  /\ M.escrow = L.escrow /\ M.channel = L.channel /\ M.line = L.line

LEMMA OnlyProblemSettles ==
  ASSUME NEW L, NEW M, NEW id \in ProblemId, OnlyProblem(L, M, id),
         L.problem[id].status \in {"none", "open"}
  PROVE  Settles(L, M)
<1>1. ProblemsSettle(L, M)
  BY DEF OnlyProblem, ProblemsSettle
<1> QED BY <1>1, OneTableSettles DEF OnlyProblem

LEMMA ProblemRowOnly ==
  ASSUME NEW L \in LedgerType, NEW id \in ProblemId, NEW p \in Problem
  PROVE  LET M == [L EXCEPT !.problem[id] = p]
         IN M \in LedgerType /\ M.problem[id] = p /\ OnlyProblem(L, M, id)
  BY DEF LedgerType, OnlyProblem

LEMMA PayBountyOnly ==
  ASSUME NEW L \in LedgerType, NEW id \in ProblemId, NEW a \in Account
  PROVE  PayBounty(L, id, a) \in LedgerType /\ OnlyProblem(L, PayBounty(L, id, a), id)
<1> DEFINE C == Credit(L, a, L.problem[id].bounty)
           q == [C.problem[id] EXCEPT !.held = FALSE]
<1>1. L.problem[id] \in Problem
  BY DEF LedgerType
<1>2. C \in LedgerType /\ SameTables(L, C)
  BY <1>1, CreditTyped DEF Problem
<1> HIDE DEF C
<1>3. q \in Problem
  <2>1. C.problem[id] \in Problem
    BY <1>2 DEF LedgerType
  <2> QED BY <2>1 DEF Problem
<1> HIDE DEF q
<1>4. [C EXCEPT !.problem[id] = q] \in LedgerType /\ OnlyProblem(C, [C EXCEPT !.problem[id] = q], id)
  BY <1>2, <1>3, ProblemRowOnly
<1>5. PayBounty(L, id, a) = [C EXCEPT !.problem[id] = q]
  BY DEF PayBounty, C, q
<1> QED BY <1>2, <1>4, <1>5 DEF OnlyProblem, SameTables

LEMMA SubmitProblemSettles ==
  ASSUME NEW L, NEW t \in Nat, Sound(L, t), NEW tx \in SubmitTx
  PROVE  Settles(L, SubmitProblem(L, tx, t))
<1> DEFINE P == Debit(L, tx.from, tx.fee + tx.bounty)
           Q == SetNonce(P, tx)
           p == [status |-> "open", submitter |-> tx.from, solver |-> tx.from,
                 bounty |-> tx.bounty, expires |-> t + tx.lifetime, held |-> TRUE]
           M == [Q EXCEPT !.problem[tx.id] = p]
<1>1. CASE Affords(L, tx.from, tx.fee + tx.bounty)
  <2>1. Sound(P, t) /\ SameTables(L, P)
    BY <1>1, DebitSound DEF SubmitTx
  <2> HIDE DEF P
  <2>2. Sound(Q, t) /\ SameTables(P, Q)
    BY <2>1, SetNonceSound DEF SubmitTx
  <2>3. p \in Problem /\ tx.id \in ProblemId
    BY DEF SubmitTx, Problem
  <2> HIDE DEF Q, p
  <2>4. OnlyProblem(Q, M, tx.id)
    BY <2>2, <2>3, ProblemRowOnly DEF Sound
  <2> HIDE DEF M
  <2>5. OnlyProblem(L, M, tx.id)
    BY <2>1, <2>2, <2>4 DEF OnlyProblem, SameTables
  <2>6. L.problem[tx.id].status = "none" => Settles(L, M)
    BY <2>3, <2>5, OnlyProblemSettles
  <2>7. Settles(L, P)
    BY <2>1, SameRowsSettle DEF SameTables, SameRows
  <2> QED BY <1>1, <2>6, <2>7 DEF SubmitProblem, P, Q, M, p
<1>2. CASE ~Affords(L, tx.from, tx.fee + tx.bounty)
  BY <1>2, SameRowsSettle DEF SubmitProblem, SameRows
<1> QED BY <1>1, <1>2

\* A problem that is solved has been paid, so a claim writes nothing.
LEMMA ClaimBountySettles ==
  ASSUME NEW L, NEW t, Sound(L, t), NEW tx \in BountyTx
  PROVE  Settles(L, ClaimBounty(L, tx))
<1> DEFINE P == Debit(L, tx.from, tx.fee)
<1>1. CASE Affords(L, tx.from, tx.fee)
  <2>1. Sound(P, t) /\ SameTables(L, P)
    BY <1>1, DebitSound DEF BountyTx
  <2> HIDE DEF P
  <2>2. Claim(P, tx) = P
    BY <2>1 DEF Sound, Claim, BountyTx
  <2>3. Settles(L, P)
    BY <2>1, SameRowsSettle DEF SameTables, SameRows
  <2> QED BY <1>1, <2>2, <2>3 DEF ClaimBounty, P
<1>2. CASE ~Affords(L, tx.from, tx.fee)
  BY <1>2, SameRowsSettle DEF ClaimBounty, SameRows
<1> QED BY <1>1, <1>2

LEMMA CancelProblemSettles ==
  ASSUME NEW L, NEW t, Sound(L, t), NEW tx \in BountyTx
  PROVE  Settles(L, CancelProblem(L, tx))
<1> DEFINE P == Debit(L, tx.from, tx.fee)
           Q == PayBounty(P, tx.id, tx.from)
           M == SetNonce(Q, tx)
           m == [M.problem[tx.id] EXCEPT !.status = "cancelled"]
           R == [M EXCEPT !.problem[tx.id] = m]
<1>0. tx.id \in ProblemId /\ tx.from \in Account /\ tx.nonce \in Nat /\ tx.fee \in Nat
  BY DEF BountyTx
<1>1. CASE Affords(L, tx.from, tx.fee)
  <2>1. P \in LedgerType /\ SameTables(L, P)
    BY <1>0, <1>1, DebitSound DEF Sound
  <2> HIDE DEF P
  <2>2. Q \in LedgerType /\ OnlyProblem(P, Q, tx.id)
    BY <1>0, <2>1, PayBountyOnly
  <2> HIDE DEF Q
  <2>3. M \in LedgerType /\ SameTables(Q, M)
    BY <1>0, <2>2, SetNonceTyped
  <2> HIDE DEF M
  <2>4. m \in Problem
    <3>1. M.problem[tx.id] \in Problem
      BY <1>0, <2>3 DEF LedgerType
    <3> QED BY <3>1 DEF Problem
  <2> HIDE DEF m
  <2>5. OnlyProblem(M, R, tx.id)
    BY <1>0, <2>3, <2>4, ProblemRowOnly
  <2> HIDE DEF R
  <2>6. OnlyProblem(L, R, tx.id)
    BY <2>1, <2>2, <2>3, <2>5 DEF OnlyProblem, SameTables
  <2>7. L.problem[tx.id].status = "open" => Settles(L, R)
    BY <1>0, <2>6, OnlyProblemSettles
  <2>8. Settles(L, P)
    BY <2>1, SameRowsSettle DEF SameTables, SameRows
  <2> QED BY <1>1, <2>7, <2>8 DEF CancelProblem, P, Q, M, m, R
<1>2. CASE ~Affords(L, tx.from, tx.fee)
  BY <1>2, SameRowsSettle DEF CancelProblem, SameRows
<1> QED BY <1>1, <1>2

LEMMA SolveProblemSettles ==
  ASSUME NEW L, NEW t, Sound(L, t), NEW tx \in SolveTx
  PROVE  Settles(L, SolveProblem(L, tx, t))
<1> DEFINE P == Debit(L, tx.from, tx.fee)
           x == [P.problem[tx.id] EXCEPT !.status = "expired"]
           p == [P.problem[tx.id] EXCEPT !.status = "solved", !.solver = tx.from]
           X == [P EXCEPT !.problem[tx.id] = x]
           S == [P EXCEPT !.problem[tx.id] = p]
           R == PayBounty(S, tx.id, S.problem[tx.id].solver)
           M == SetNonce(R, tx)
<1>0. tx.id \in ProblemId /\ tx.from \in Account /\ tx.nonce \in Nat /\ tx.fee \in Nat
  BY DEF SolveTx
<1>1. CASE Affords(L, tx.from, tx.fee)
  <2>1. P \in LedgerType /\ SameTables(L, P)
    BY <1>0, <1>1, DebitSound DEF Sound
  <2> HIDE DEF P
  <2>2. x \in Problem /\ p \in Problem
    <3>1. P.problem[tx.id] \in Problem
      BY <1>0, <2>1 DEF LedgerType
    <3> QED BY <1>0, <3>1 DEF Problem
  <2> HIDE DEF x, p
  <2>3. OnlyProblem(L, X, tx.id)
    BY <1>0, <2>1, <2>2, ProblemRowOnly DEF OnlyProblem, SameTables
  <2>4. S \in LedgerType /\ S.problem[tx.id] = p /\ OnlyProblem(P, S, tx.id)
    BY <1>0, <2>1, <2>2, ProblemRowOnly
  <2> HIDE DEF X, S
  <2>5. R \in LedgerType /\ OnlyProblem(S, R, tx.id)
    <3>1. S.problem[tx.id].solver \in Account
      BY <2>2, <2>4 DEF Problem
    <3> QED BY <1>0, <2>4, <3>1, PayBountyOnly
  <2> HIDE DEF R
  <2>6. SameTables(R, M)
    BY <1>0, <2>5, SetNonceTyped
  <2> HIDE DEF M
  <2>7. OnlyProblem(L, M, tx.id) /\ OnlyProblem(L, S, tx.id)
    BY <2>1, <2>4, <2>5, <2>6 DEF OnlyProblem, SameTables
  <2>8. L.problem[tx.id].status = "open" => Settles(L, X) /\ Settles(L, M) /\ Settles(L, S)
    BY <1>0, <2>3, <2>7, OnlyProblemSettles
  <2>9. Settles(L, P)
    BY <2>1, SameRowsSettle DEF SameTables, SameRows
  <2>10. Claim(S, tx) \in {M, S}
    BY DEF Claim, M, R
  <2>11. L.problem[tx.id].status = "open" => Settles(L, Claim(S, tx))
    BY <2>8, <2>10
  <2> QED BY <1>1, <2>8, <2>9, <2>11 DEF SolveProblem, P, X, S, x, p
<1>2. CASE ~Affords(L, tx.from, tx.fee)
  BY <1>2, SameRowsSettle DEF SolveProblem, SameRows
<1> QED BY <1>1, <1>2

\* A write to a trust line that a settled one survives.
LEMMA WriteLineSettles ==
  ASSUME NEW L, NEW t, Sound(L, t), NEW tx, tx.from \in Account, tx.nonce \in Nat,
         tx.fee \in Nat, tx.id \in LineId, NEW allowed \in BOOLEAN, NEW row,
         allowed /\ L.line[tx.id].status \in {"frozen", "closed"} =>
           /\ row.status \in {"frozen", "closed"}
           /\ row.limitAB = L.line[tx.id].limitAB /\ row.limitBA = L.line[tx.id].limitBA
  PROVE  Settles(L, WriteLine(L, tx, allowed, row))
<1> DEFINE P == Charge(L, tx, tx.fee)
           M == [P EXCEPT !.line[tx.id] = row]
<1>1. CASE Affords(L, tx.from, tx.fee)
  <2>1. Sound(P, t) /\ SameTables(L, P)
    BY <1>1, ChargeSound
  <2> HIDE DEF P
  <2>2. /\ M.line = [L.line EXCEPT ![tx.id] = row]
        /\ M.escrow = L.escrow /\ M.channel = L.channel /\ M.problem = L.problem
    BY <2>1 DEF Sound, LedgerType, SameTables
  <2> HIDE DEF M
  <2>3. allowed => LinesSettle(L, M)
    <3>1. L.line \in [LineId -> Line]
      BY DEF Sound, LedgerType
    <3> QED BY <2>2, <3>1 DEF LinesSettle
  <2>4. allowed => Settles(L, M)
    BY <2>2, <2>3, OneTableSettles
  <2>5. Settles(L, P)
    BY <2>1, SameRowsSettle DEF SameTables, SameRows
  <2> QED BY <1>1, <2>4, <2>5 DEF WriteLine, P, M
<1>2. CASE ~Affords(L, tx.from, tx.fee)
  BY <1>2, SameRowsSettle DEF WriteLine, SameRows
<1> QED BY <1>1, <1>2

LEMMA CreateLineSettles ==
  ASSUME NEW L, NEW t, Sound(L, t), NEW tx \in TrustTx
  PROVE  Settles(L, CreateLine(L, tx))
<1> DEFINE row == [status |-> "active", a |-> tx.from, b |-> tx.to,
                   limitAB |-> tx.limitAB, limitBA |-> tx.limitBA, tau |-> 0]
           allowed == L.line[tx.id].status = "none" /\ tx.good
<1>1. /\ tx.from \in Account /\ tx.nonce \in Nat /\ tx.fee \in Nat /\ tx.id \in LineId
      /\ allowed \in BOOLEAN
  BY DEF TrustTx
<1>2. ~(allowed /\ L.line[tx.id].status \in {"frozen", "closed"})
  OBVIOUS
<1> HIDE DEF row, allowed
<1>3. Settles(L, WriteLine(L, tx, allowed, row))
  BY <1>1, <1>2, WriteLineSettles
<1> QED BY <1>3 DEF CreateLine, row, allowed

LEMMA UpdateLimitsSettles ==
  ASSUME NEW L, NEW t, Sound(L, t), NEW tx \in LimitsTx
  PROVE  Settles(L, UpdateLimits(L, tx))
<1> DEFINE l == L.line[tx.id]
           Limit(new, old) == IF new = Keep THEN old ELSE new
           row == [l EXCEPT !.limitAB = Limit(tx.limitAB, @), !.limitBA = Limit(tx.limitBA, @)]
           allowed == Participates(L, tx) /\ l.status = "active"
<1>1. /\ tx.from \in Account /\ tx.nonce \in Nat /\ tx.fee \in Nat /\ tx.id \in LineId
      /\ allowed \in BOOLEAN
  BY DEF LimitsTx, Participates
<1>2. ~(allowed /\ L.line[tx.id].status \in {"frozen", "closed"})
  OBVIOUS
<1> HIDE DEF row, allowed
<1>3. Settles(L, WriteLine(L, tx, allowed, row))
  BY <1>1, <1>2, WriteLineSettles
<1> QED BY <1>3 DEF UpdateLimits, row, allowed

\* Freezing and closing keep the limits, and so does the phase.
LEMMA LineStatusSettles ==
  ASSUME NEW L, NEW t, Sound(L, t), NEW tx \in LineTx
  PROVE  Settles(L, FreezeLine(L, tx)) /\ Settles(L, CloseLine(L, tx))
<1> DEFINE l == L.line[tx.id]
           f == [l EXCEPT !.status = "frozen"]
           c == [l EXCEPT !.status = "closed"]
<1>1. /\ tx.from \in Account /\ tx.nonce \in Nat /\ tx.fee \in Nat /\ tx.id \in LineId
      /\ Participates(L, tx) \in BOOLEAN
  BY DEF LineTx, Participates
<1>2. /\ f.status = "frozen" /\ f.limitAB = l.limitAB /\ f.limitBA = l.limitBA
      /\ c.status = "closed" /\ c.limitAB = l.limitAB /\ c.limitBA = l.limitBA
  <2>1. l \in Line
    BY <1>1, Rows
  <2> HIDE DEF l
  <2> QED BY <2>1 DEF Line
<1> HIDE DEF f, c
<1>3. Settles(L, WriteLine(L, tx, Participates(L, tx), f))
  BY <1>1, <1>2, WriteLineSettles
<1>4. Settles(L, WriteLine(L, tx, Participates(L, tx), c))
  BY <1>1, <1>2, WriteLineSettles
<1> QED BY <1>3, <1>4 DEF FreezeLine, CloseLine, f, c

LEMMA EvolveLineSettles ==
  ASSUME NEW L, NEW t, Sound(L, t), NEW tx \in EvolveTx
  PROVE  Settles(L, EvolveLine(L, tx))
<1> DEFINE l == L.line[tx.id]
           row == [l EXCEPT !.tau = @ + tx.delta]
<1>1. /\ tx.from \in Account /\ tx.nonce \in Nat /\ tx.fee \in Nat /\ tx.id \in LineId
      /\ Participates(L, tx) \in BOOLEAN
  BY DEF EvolveTx, Participates
<1>2. row.status = l.status /\ row.limitAB = l.limitAB /\ row.limitBA = l.limitBA
  <2>1. l \in Line
    BY <1>1, Rows
  <2> HIDE DEF l
  <2> QED BY <2>1 DEF Line
<1> HIDE DEF row
<1>3. Settles(L, WriteLine(L, tx, Participates(L, tx), row))
  BY <1>1, <1>2, WriteLineSettles
<1> QED BY <1>3 DEF EvolveLine, row

LEMMA SwapSettles ==
  ASSUME NEW L, NEW t, Sound(L, t), NEW tx \in SwapTx
  PROVE  Settles(L, SwapPools(L, tx))
<1> DEFINE P == Charge(L, tx, tx.fee)
           q == [L.pool EXCEPT ![tx.poolFrom] = @ - tx.amountIn,
                               ![tx.poolTo] = L.pool[tx.poolTo] - AmountOut(tx)]
           M == [P EXCEPT !.pool = q]
<1>1. CASE Affords(L, tx.from, tx.fee)
  <2>1. Sound(P, t) /\ SameTables(L, P)
    BY <1>1, ChargeSound DEF SwapTx
  <2> HIDE DEF P, q
  <2>2. SameRows(L, M) /\ SameRows(L, P)
    BY <2>1 DEF Sound, LedgerType, SameTables, SameRows
  <2> HIDE DEF M
  <2>3. Settles(L, M) /\ Settles(L, P)
    BY <2>2, SameRowsSettle
  <2> QED BY <1>1, <2>3 DEF SwapPools, P, q, M
<1>2. CASE ~Affords(L, tx.from, tx.fee)
  BY <1>2, SameRowsSettle DEF SwapPools, SameRows
<1> QED BY <1>1, <1>2

LEMMA ApplyTxSettles ==
  ASSUME NEW L, NEW t \in Nat, Sound(L, t), NEW tx \in Tx
  PROVE  Settles(L, ApplyTx(L, tx, t))
<1>1. CASE tx.kind = "transfer"
  BY <1>1, TxOfKind, TransferSettles DEF ApplyTx
<1>2. CASE tx.kind = "timelock"
  BY <1>2, TxOfKind, TimeLockSettles DEF ApplyTx
<1>3. CASE tx.kind = "createEscrow"
  BY <1>3, TxOfKind, CreateEscrowSettles DEF ApplyTx
<1>4. CASE tx.kind \in {"releaseEscrow", "refundEscrow"}
  BY <1>4, TxOfKind, ResolveSettles DEF ApplyTx
<1>5. CASE tx.kind = "openChannel"
  BY <1>5, TxOfKind, OpenChannelSettles DEF ApplyTx
<1>6. CASE tx.kind \in {"updateChannel", "disputeChannel", "closeChannel"}
  BY <1>6, TxOfKind, BalanceSettles DEF ApplyTx
<1>7. CASE tx.kind = "submitProblem"
  BY <1>7, TxOfKind, SubmitProblemSettles DEF ApplyTx
<1>8. CASE tx.kind = "solveProblem"
  BY <1>8, TxOfKind, SolveProblemSettles DEF ApplyTx
<1>9. CASE tx.kind = "claimBounty"
  BY <1>9, TxOfKind, ClaimBountySettles DEF ApplyTx
<1>10. CASE tx.kind = "cancelProblem"
  BY <1>10, TxOfKind, CancelProblemSettles DEF ApplyTx
<1>11. CASE tx.kind = "createLine"
  BY <1>11, TxOfKind, CreateLineSettles DEF ApplyTx
<1>12. CASE tx.kind = "updateLimits"
  BY <1>12, TxOfKind, UpdateLimitsSettles DEF ApplyTx
<1>13. CASE tx.kind \in {"freezeLine", "closeLine"}
  BY <1>13, TxOfKind, LineStatusSettles DEF ApplyTx
<1>14. CASE tx.kind = "evolveLine"
  BY <1>14, TxOfKind, EvolveLineSettles DEF ApplyTx
<1>15. CASE tx.kind = "swap"
  BY <1>15, TxOfKind, SwapSettles DEF ApplyTx
<1> QED BY <1>1, <1>2, <1>3, <1>4, <1>5, <1>6, <1>7, <1>8, <1>9, <1>10, <1>11, <1>12, <1>13,
           <1>14, <1>15, TxOfKind

\* No transaction changes an escrow, a channel, a problem or the limits of a
\* trust line that is settled, and the step that settles an escrow pays its
\* amount to the one party it names (escrows.rs, channels.rs, marketplace.rs,
\* trustlines.rs).
THEOREM SettledStays == Spec => SettledForGood
<1> DEFINE Step ==
      /\ \A id \in EscrowId : EscrowSettles(id)
      /\ \A id \in LineId : LineSettles(id)
      /\ \A id \in ChannelId :
           ledger.channel[id].status \in {"dispute", "closed"}
             => ledger'.channel[id] = ledger.channel[id]
      /\ \A id \in ProblemId :
           ledger.problem[id].status \notin {"none", "open"}
             => ledger'.problem[id] = ledger.problem[id]
<1>1. ASSUME Settles(ledger, ledger') PROVE Step
  BY <1>1 DEF Settles, EscrowsSettle, LinesSettle, ChannelsSettle, ProblemsSettle,
              EscrowSettles, LineSettles
<1>2. ASSUME IInv, NEW tx \in Tx, Execute(tx) PROVE Settles(ledger, ledger')
  <2>1. now \in Nat /\ Sound(ledger, now)
    BY <1>2, ExecutionAssumption DEF IInv
  <2> QED BY <1>2, <2>1, ApplyTxSettles DEF Execute
<1>3. ASSUME IInv, NEW a \in Account, NEW share \in Shares, Coinbase(a, share)
      PROVE  Settles(ledger, ledger')
  <2>1. Sound(ledger, now)
    BY <1>3 DEF IInv
  <2>2. FillPools(ledger, share) \in LedgerType
    BY <2>1, ExecutionAssumption, FillPoolsSound DEF Sound
  <2>3. SameRows(ledger, FillPools(ledger, share))
    BY <2>1 DEF Sound, LedgerType, FillPools, SameRows
  <2>4. SameTables(FillPools(ledger, share), ledger')
    BY <1>3, <2>2, ExecutionAssumption, CreditTyped DEF Coinbase
  <2>5. SameRows(ledger, ledger')
    BY <2>3, <2>4 DEF SameTables, SameRows
  <2> QED BY <2>5, SameRowsSettle
<1>4. ASSUME Tick PROVE Settles(ledger, ledger')
  BY <1>4, SameRowsSettle DEF Tick, SameRows
<1> HIDE DEF Step
<1>5. IInv /\ [Next]_vars => [Step]_vars
  BY <1>1, <1>2, <1>3, <1>4 DEF Next
<1> USE DEF Step
<1> QED BY <1>5, Invariance, PTL DEF Spec, SettledForGood
-----------------------------------------------------------------------------
(* Sums over finite sets.  Total chooses its elements one after the other; *)
(* what it adds up to does not depend on the choice.                       *)

SumOver(f, S) == MapThenSumSet(LAMBDA x : f[x], S)
Pick(S) == CHOOSE x \in S : TRUE
NextSum(g, f, T) == IF T = {} THEN 0 ELSE f[Pick(T)] + g[T \ {Pick(T)}]
IsSum(g, f, S) == g = [T \in SUBSET S |-> NextSum(g, f, T)]

NatLess == OpToRel(<, Nat)

\* A non-empty set of natural numbers has a least element.
LEMMA LeastExists ==
  ASSUME NEW T \in SUBSET Nat, T # {}
  PROVE  \E n \in T : \A m \in T : n <= m
<1>1. IsWellFoundedOn(NatLess, Nat)
  BY NatLessThanWellFounded DEF NatLess
<1>2. PICK n \in T : \A m \in T : ~ (<<m, n>> \in NatLess)
  BY <1>1, WFMin
<1>3. ASSUME NEW m \in T PROVE n <= m
  <2>1. ~ (<<m, n>> \in NatLess) /\ m \in Nat /\ n \in Nat
    BY <1>2
  <2>2. ~ (m < n)
    BY <2>1 DEF NatLess, OpToRel
  <2> QED BY <2>1, <2>2
<1> QED BY <1>3

\* A non-empty collection of finite sets has a smallest one.
LEMMA SmallestExists ==
  ASSUME NEW C, C # {}, \A S \in C : IsFiniteSet(S)
  PROVE  \E S \in C : \A T \in C : Cardinality(S) <= Cardinality(T)
<1> DEFINE sizes == {Cardinality(S) : S \in C}
<1>1. sizes \in SUBSET Nat /\ sizes # {}
  BY FS_CardinalityType
<1>2. PICK n \in sizes : \A m \in sizes : n <= m
  BY <1>1, LeastExists
<1> QED BY <1>2

\* Without one of its elements a finite set is smaller.
LEMMA Smaller ==
  ASSUME NEW S, IsFiniteSet(S), NEW x \in S
  PROVE  /\ IsFiniteSet(S \ {x}) /\ Cardinality(S) \in Nat /\ Cardinality(S \ {x}) \in Nat
         /\ Cardinality(S \ {x}) < Cardinality(S)
BY SMTT(30), FS_RemoveElement, FS_CardinalityType

LEMMA PickIn == \A S : S # {} => Pick(S) \in S
BY DEF Pick

\* The recursion has a solution: one for the sets of n elements comes from one
\* for the smaller sets.
SumsTo(g, f, S, n) ==
  \A T \in SUBSET S : Cardinality(T) <= n => g[T] = NextSum(g, f, T)

LEMMA SumExists ==
  ASSUME NEW S, IsFiniteSet(S), NEW f PROVE \E g : IsSum(g, f, S)
<1> DEFINE Bad == {n \in Nat : ~ \E g : SumsTo(g, f, S, n)}
<1>1. \A T \in SUBSET S : IsFiniteSet(T) /\ Cardinality(T) \in Nat /\ Cardinality(T) <= Cardinality(S)
  BY FS_Subset, FS_CardinalityType
<1>2. Bad = {}
  <2> SUFFICES ASSUME Bad # {} PROVE FALSE
    OBVIOUS
  <2>1. PICK n \in Bad : \A m \in Bad : n <= m
    BY LeastExists
  <2>2. CASE n = 0
    <3> DEFINE g == [T \in SUBSET S |-> 0]
    <3>1. ASSUME NEW T \in SUBSET S, Cardinality(T) <= 0 PROVE g[T] = NextSum(g, f, T)
      <4>1. T = {}
        BY <1>1, <3>1, FS_EmptySet
      <4> QED BY <4>1 DEF NextSum
    <3> HIDE DEF g
    <3>2. SumsTo(g, f, S, n)
      BY <2>2, <3>1 DEF SumsTo
    <3> QED BY <3>2
  <2>3. CASE n # 0
    <3>1. n - 1 \in Nat /\ n - 1 \notin Bad
      BY <2>1, <2>3
    <3>2. PICK g : SumsTo(g, f, S, n - 1)
      BY <3>1
    <3> DEFINE h == [T \in SUBSET S |-> IF Cardinality(T) <= n - 1 THEN g[T] ELSE NextSum(g, f, T)]
    <3>3. ASSUME NEW T \in SUBSET S, Cardinality(T) <= n PROVE h[T] = NextSum(h, f, T)
      <4>1. h[T] = NextSum(g, f, T)
        BY <3>2 DEF SumsTo
      <4>2. CASE T = {}
        BY <4>1, <4>2 DEF NextSum
      <4>3. CASE T # {}
        <5>1. T \ {Pick(T)} \in SUBSET S /\ Cardinality(T \ {Pick(T)}) <= n - 1
          BY <1>1, <3>3, <4>3, PickIn, Smaller
        <5>2. h[T \ {Pick(T)}] = g[T \ {Pick(T)}]
          BY <5>1
        <5> HIDE DEF h
        <5> QED BY <4>1, <4>3, <5>2 DEF NextSum
      <4> QED BY <4>2, <4>3
    <3> HIDE DEF h
    <3>4. SumsTo(h, f, S, n)
      BY <3>3 DEF SumsTo
    <3> QED BY <3>4
  <2> QED BY <2>2, <2>3
<1>3. Cardinality(S) \in Nat
  BY FS_CardinalityType
<1>4. PICK g : SumsTo(g, f, S, Cardinality(S))
  BY <1>2, <1>3
<1> DEFINE h == [T \in SUBSET S |-> g[T]]
<1>5. ASSUME NEW T \in SUBSET S PROVE h[T] = NextSum(h, f, T)
  <2>1. g[T] = NextSum(g, f, T)
    BY <1>1, <1>4 DEF SumsTo
  <2>2. T # {} => T \ {Pick(T)} \in SUBSET S
    OBVIOUS
  <2> QED BY <2>1, <2>2 DEF NextSum
<1>6. h = [T \in SUBSET S |-> NextSum(h, f, T)]
  BY <1>5
<1> QED BY <1>6 DEF IsSum

\* Solutions for two sets and two functions agree where the functions do.
LEMMA SumsAgree ==
  ASSUME NEW f, NEW g, NEW d, NEW e, NEW S, NEW R, IsSum(d, f, S), IsSum(e, g, R),
         NEW U, IsFiniteSet(U), U \subseteq S, U \subseteq R, \A x \in U : f[x] = g[x]
  PROVE  d[U] = e[U]
<1> DEFINE Bad == {T \in SUBSET U : d[T] # e[T]}
<1>1. \A T \in SUBSET U : d[T] = NextSum(d, f, T) /\ e[T] = NextSum(e, g, T) /\ IsFiniteSet(T)
  <2>1. ASSUME NEW T \in SUBSET U PROVE d[T] = NextSum(d, f, T) /\ e[T] = NextSum(e, g, T)
    <3>1. T \in SUBSET S /\ T \in SUBSET R
      OBVIOUS
    <3>2. d = [V \in SUBSET S |-> NextSum(d, f, V)] /\ e = [V \in SUBSET R |-> NextSum(e, g, V)]
      BY DEF IsSum
    <3> QED BY <3>1, <3>2
  <2> QED BY <2>1, FS_Subset
<1>2. Bad = {}
  <2> SUFFICES ASSUME Bad # {} PROVE FALSE
    OBVIOUS
  <2>1. PICK T \in Bad : \A V \in Bad : Cardinality(T) <= Cardinality(V)
    BY <1>1, SmallestExists
  <2>2. T # {}
    BY <1>1 DEF NextSum
  <2>3. Pick(T) \in T /\ T \ {Pick(T)} \in SUBSET U
    BY <2>2, PickIn
  <2>4. T \ {Pick(T)} \notin Bad
    BY <1>1, <2>1, <2>3, Smaller
  <2>5. d[T \ {Pick(T)}] = e[T \ {Pick(T)}] /\ f[Pick(T)] = g[Pick(T)]
    BY <2>3, <2>4
  <2>6. d[T] = f[Pick(T)] + d[T \ {Pick(T)}] /\ e[T] = g[Pick(T)] + e[T \ {Pick(T)}]
    BY <1>1, <2>2 DEF NextSum
  <2> QED BY <2>5, <2>6
<1> QED BY <1>2

\* SumOver is the solution for its set.
LEMMA SumOverIs ==
  ASSUME NEW S, IsFiniteSet(S), NEW f
  PROVE  \E g : IsSum(g, f, S) /\ SumOver(f, S) = g[S]
<1>1. SumOver(f, S) = (CHOOSE g : IsSum(g, f, S))[S]
  BY DEF SumOver, MapThenSumSet, MapThenFoldSet, IsSum, NextSum, Pick
<1>2. IsSum(CHOOSE g : IsSum(g, f, S), f, S)
  BY SumExists
<1> QED BY <1>1, <1>2

LEMMA SumSame ==
  ASSUME NEW S, IsFiniteSet(S), NEW f, NEW g, \A x \in S : f[x] = g[x]
  PROVE  SumOver(f, S) = SumOver(g, S)
<1>1. PICK d : IsSum(d, f, S) /\ SumOver(f, S) = d[S]
  BY SumOverIs
<1>2. PICK e : IsSum(e, g, S) /\ SumOver(g, S) = e[S]
  BY SumOverIs
<1> QED BY <1>1, <1>2, SumsAgree

LEMMA SumStep ==
  ASSUME NEW S, IsFiniteSet(S), NEW f
  PROVE  SumOver(f, S) = IF S = {} THEN 0 ELSE f[Pick(S)] + SumOver(f, S \ {Pick(S)})
<1>1. PICK d : IsSum(d, f, S) /\ SumOver(f, S) = d[S]
  BY SumOverIs
<1>2. d[S] = NextSum(d, f, S)
  BY <1>1 DEF IsSum
<1>3. ASSUME S # {} PROVE d[S \ {Pick(S)}] = SumOver(f, S \ {Pick(S)})
  <2> DEFINE R == S \ {Pick(S)}
  <2>1. IsFiniteSet(R) /\ R \subseteq S
    BY <1>3, FS_Subset
  <2> HIDE DEF R
  <2>2. PICK e : IsSum(e, f, R) /\ SumOver(f, R) = e[R]
    BY <2>1, SumOverIs
  <2>3. d[R] = e[R]
    BY <1>1, <2>1, <2>2, SumsAgree
  <2> QED BY <2>2, <2>3 DEF R
<1> QED BY <1>1, <1>2, <1>3 DEF NextSum

\* A sum of natural numbers is one.
LEMMA SumNat ==
  ASSUME NEW S, IsFiniteSet(S), NEW f, \A x \in S : f[x] \in Nat
  PROVE  SumOver(f, S) \in Nat
<1> DEFINE Bad == {T \in SUBSET S : SumOver(f, T) \notin Nat}
<1>1. \A T \in SUBSET S : IsFiniteSet(T)
  BY FS_Subset
<1>2. Bad = {}
  <2> SUFFICES ASSUME Bad # {} PROVE FALSE
    OBVIOUS
  <2>1. PICK T \in Bad : \A V \in Bad : Cardinality(T) <= Cardinality(V)
    BY <1>1, SmallestExists
  <2>2. SumOver(f, T) = IF T = {} THEN 0 ELSE f[Pick(T)] + SumOver(f, T \ {Pick(T)})
    BY <1>1, SumStep
  <2>3. T # {}
    BY <2>2
  <2>4. Pick(T) \in T /\ T \ {Pick(T)} \in SUBSET S
    BY <2>3, PickIn
  <2>5. T \ {Pick(T)} \notin Bad
    BY <1>1, <2>1, <2>4, Smaller
  <2>6. SumOver(f, T \ {Pick(T)}) \in Nat /\ f[Pick(T)] \in Nat
    BY <2>4, <2>5
  <2> QED BY <2>2, <2>3, <2>6
<1> QED BY <1>2

\* Any element may be taken out first.
LEMMA SumAny ==
  ASSUME NEW S, IsFiniteSet(S), NEW f, \A x \in S : f[x] \in Nat, NEW a \in S
  PROVE  SumOver(f, S) = f[a] + SumOver(f, S \ {a})
<1> DEFINE Bad == {T \in SUBSET S : \E x \in T : SumOver(f, T) # f[x] + SumOver(f, T \ {x})}
<1>1. \A T \in SUBSET S : IsFiniteSet(T) /\ SumOver(f, T) \in Nat
  BY FS_Subset, SumNat
<1>2. Bad = {}
  <2> SUFFICES ASSUME Bad # {} PROVE FALSE
    OBVIOUS
  <2>1. PICK T \in Bad : \A V \in Bad : Cardinality(T) <= Cardinality(V)
    BY <1>1, SmallestExists
  <2>2. PICK x \in T : SumOver(f, T) # f[x] + SumOver(f, T \ {x})
    BY <2>1
  <2> DEFINE c == Pick(T)
  <2>3. c \in T /\ SumOver(f, T) = f[c] + SumOver(f, T \ {c})
    <3>1. T \in SUBSET S /\ T # {}
      BY <2>1, <2>2
    <3> QED BY <1>1, <3>1, PickIn, SumStep
  <2> HIDE DEF c
  <2>4. x # c
    BY <2>2, <2>3
  <2>5. T \ {c} \notin Bad /\ T \ {x} \notin Bad
    <3>1. IsFiniteSet(T)
      BY <1>1, <2>1
    <3>2. /\ Cardinality(T) \in Nat
          /\ Cardinality(T \ {c}) \in Nat /\ Cardinality(T \ {c}) < Cardinality(T)
          /\ Cardinality(T \ {x}) \in Nat /\ Cardinality(T \ {x}) < Cardinality(T)
      BY <2>2, <2>3, <3>1, Smaller
    <3> HIDE DEF Bad
    <3> QED BY <2>1, <3>2
  <2>6. SumOver(f, T \ {c}) = f[x] + SumOver(f, (T \ {c}) \ {x})
    BY <2>2, <2>4, <2>5
  <2>7. SumOver(f, T \ {x}) = f[c] + SumOver(f, (T \ {x}) \ {c})
    BY <2>3, <2>4, <2>5
  <2>8. (T \ {c}) \ {x} = (T \ {x}) \ {c}
    OBVIOUS
  <2>9. /\ f[c] \in Nat /\ f[x] \in Nat /\ (T \ {c}) \ {x} \in SUBSET S
    BY <2>1, <2>2, <2>3
  <2>10. SumOver(f, (T \ {c}) \ {x}) \in Nat
    BY <1>1, <2>9
  <2> DEFINE rest == SumOver(f, (T \ {c}) \ {x})
  <2>11. /\ SumOver(f, T) = f[c] + SumOver(f, T \ {c}) /\ SumOver(f, T \ {c}) = f[x] + rest
         /\ SumOver(f, T \ {x}) = f[c] + rest /\ rest \in Nat
    BY <2>3, <2>6, <2>7, <2>8, <2>10
  <2> HIDE DEF rest
  <2>12. f[c] + (f[x] + rest) = f[x] + (f[c] + rest)
    BY <2>9, <2>11
  <2> QED BY <2>2, <2>11, <2>12
<1> QED BY <1>2

\* One summand changes.
LEMMA TotalChange ==
  ASSUME NEW S, IsFiniteSet(S), NEW f \in [S -> Nat], NEW g \in [S -> Nat], NEW a \in S,
         \A x \in S \ {a} : g[x] = f[x]
  PROVE  Total(f) \in Nat /\ Total(g) = Total(f) + g[a] - f[a]
<1>1. /\ Total(f) = SumOver(f, S) /\ Total(g) = SumOver(g, S)
  BY DEF Total, SumOver
<1>2. /\ SumOver(f, S) = f[a] + SumOver(f, S \ {a}) /\ SumOver(g, S) = g[a] + SumOver(g, S \ {a})
  BY SumAny
<1>3. IsFiniteSet(S \ {a})
  BY FS_Subset
<1>4. SumOver(f, S \ {a}) = SumOver(g, S \ {a}) /\ SumOver(f, S \ {a}) \in Nat
  BY <1>3, SumSame, SumNat
<1>5. f[a] \in Nat /\ g[a] \in Nat /\ SumOver(f, S) \in Nat
  BY <1>2, <1>4
<1> QED BY <1>1, <1>2, <1>4, <1>5

\* One summand more.
LEMMA TotalMore ==
  ASSUME NEW S, IsFiniteSet(S), NEW a, a \notin S,
         NEW f \in [S -> Nat], NEW g \in [S \cup {a} -> Nat], \A x \in S : g[x] = f[x]
  PROVE  Total(f) \in Nat /\ Total(g) = Total(f) + g[a]
<1>1. Total(f) = SumOver(f, S) /\ Total(g) = SumOver(g, S \cup {a})
  BY DEF Total, SumOver
<1>2. IsFiniteSet(S \cup {a}) /\ (S \cup {a}) \ {a} = S
  BY FS_AddElement
<1>3. SumOver(g, S \cup {a}) = g[a] + SumOver(g, S)
  BY <1>2, SumAny
<1>4. SumOver(g, S) = SumOver(f, S) /\ SumOver(f, S) \in Nat
  BY SumSame, SumNat
<1> QED BY <1>1, <1>3, <1>4

-----------------------------------------------------------------------------
(* Money.  What an operation adds to the worth of a ledger is what it does  *)
(* to one balance, one row or the locks.                                    *)

Locked(L) == [tx \in L.locks |-> tx.amount]
Escrowed(L) == [id \in EscrowId |-> InEscrow(L.escrow[id])]
Pending(L) == [id \in ProblemId |-> SetAside(L.problem[id])]

\* The locks are finitely many, and each has an amount.
Countable(L) == L \in LedgerType /\ IsFiniteSet(L.locks) /\ L.locks \subseteq TimeLockTx

LEMMA TotalNat ==
  ASSUME NEW S, IsFiniteSet(S), NEW f \in [S -> Nat]
  PROVE  Total(f) \in Nat
<1>1. Total(f) = SumOver(f, S)
  BY DEF Total, SumOver
<1> QED BY <1>1, SumNat

LEMMA PartsNat ==
  ASSUME NEW L, Countable(L)
  PROVE  /\ Total(L.bal) \in Nat /\ Total(Locked(L)) \in Nat
         /\ Total(Escrowed(L)) \in Nat /\ Total(Pending(L)) \in Nat
         /\ L.bal \in [Account -> Nat] /\ Locked(L) \in [L.locks -> Nat]
         /\ Escrowed(L) \in [EscrowId -> Nat] /\ Pending(L) \in [ProblemId -> Nat]
<1>1. L.bal \in [Account -> Nat]
  BY DEF Countable, LedgerType
<1>2. Locked(L) \in [L.locks -> Nat]
  BY DEF Locked, Countable, TimeLockTx
<1>3. Escrowed(L) \in [EscrowId -> Nat]
  <2>1. \A id \in EscrowId : L.escrow[id] \in Escrow
    BY DEF Countable, LedgerType
  <2> QED BY <2>1 DEF Escrowed, InEscrow, Escrow
<1>4. Pending(L) \in [ProblemId -> Nat]
  <2>1. \A id \in ProblemId : L.problem[id] \in Problem
    BY DEF Countable, LedgerType
  <2> QED BY <2>1 DEF Pending, SetAside, Problem
<1>5. IsFiniteSet(L.locks)
  BY DEF Countable
<1> QED BY <1>1, <1>2, <1>3, <1>4, <1>5, TotalNat, ExecutionAssumption

LEMMA WorthIs ==
  ASSUME NEW L, Countable(L)
  PROVE  /\ Worth(L) = Total(L.bal) + Total(Locked(L)) + Total(Escrowed(L)) + Total(Pending(L))
         /\ Worth(L) \in Nat
<1>1. Worth(L) = Total(L.bal) + Total(Locked(L)) + Total(Escrowed(L)) + Total(Pending(L))
  BY DEF Worth, Locked, Escrowed, Pending
<1> QED BY <1>1, PartsNat

LEMMA BalanceWorth ==
  ASSUME NEW L, NEW M, Countable(L), Countable(M), NEW a \in Account, NEW y \in Nat,
         M.bal = [L.bal EXCEPT ![a] = y],
         M.locks = L.locks, M.escrow = L.escrow, M.problem = L.problem
  PROVE  Worth(M) = Worth(L) + y - L.bal[a]
<1>1. Locked(M) = Locked(L) /\ Escrowed(M) = Escrowed(L) /\ Pending(M) = Pending(L)
  BY DEF Locked, Escrowed, Pending
<1>2. L.bal \in [Account -> Nat] /\ M.bal \in [Account -> Nat] /\ M.bal[a] = y
        /\ \A x \in Account \ {a} : M.bal[x] = L.bal[x]
  BY PartsNat
<1>3. Total(M.bal) = Total(L.bal) + y - L.bal[a]
  BY <1>2, TotalChange, ExecutionAssumption
<1>4. L.bal[a] \in Nat
  BY <1>2
<1> QED BY <1>1, <1>3, <1>4, PartsNat, WorthIs

LEMMA EscrowWorth ==
  ASSUME NEW L, NEW M, Countable(L), Countable(M), NEW id \in EscrowId, NEW e,
         M.escrow = [L.escrow EXCEPT ![id] = e],
         M.locks = L.locks, M.bal = L.bal, M.problem = L.problem
  PROVE  Worth(M) = Worth(L) + InEscrow(e) - InEscrow(L.escrow[id])
<1>1. Locked(M) = Locked(L) /\ Pending(M) = Pending(L)
  BY DEF Locked, Pending
<1>2. L.escrow \in [EscrowId -> Escrow]
  BY DEF Countable, LedgerType
<1>3. /\ Escrowed(M)[id] = InEscrow(e) /\ Escrowed(L)[id] = InEscrow(L.escrow[id])
      /\ \A x \in EscrowId \ {id} : Escrowed(M)[x] = Escrowed(L)[x]
  BY <1>2 DEF Escrowed
<1>4. Escrowed(L) \in [EscrowId -> Nat] /\ Escrowed(M) \in [EscrowId -> Nat]
  BY PartsNat
<1>5. Total(Escrowed(M)) = Total(Escrowed(L)) + InEscrow(e) - InEscrow(L.escrow[id])
  BY <1>3, <1>4, TotalChange, ExecutionAssumption
<1>6. InEscrow(e) \in Nat /\ InEscrow(L.escrow[id]) \in Nat
  BY <1>3, <1>4
<1> QED BY <1>1, <1>5, <1>6, PartsNat, WorthIs

LEMMA ProblemWorth ==
  ASSUME NEW L, NEW M, Countable(L), Countable(M), NEW id \in ProblemId, NEW p,
         M.problem = [L.problem EXCEPT ![id] = p],
         M.locks = L.locks, M.bal = L.bal, M.escrow = L.escrow
  PROVE  Worth(M) = Worth(L) + SetAside(p) - SetAside(L.problem[id])
<1>1. Locked(M) = Locked(L) /\ Escrowed(M) = Escrowed(L)
  BY DEF Locked, Escrowed
<1>2. L.problem \in [ProblemId -> Problem]
  BY DEF Countable, LedgerType
<1>3. /\ Pending(M)[id] = SetAside(p) /\ Pending(L)[id] = SetAside(L.problem[id])
      /\ \A x \in ProblemId \ {id} : Pending(M)[x] = Pending(L)[x]
  BY <1>2 DEF Pending
<1>4. Pending(L) \in [ProblemId -> Nat] /\ Pending(M) \in [ProblemId -> Nat]
  BY PartsNat
<1>5. Total(Pending(M)) = Total(Pending(L)) + SetAside(p) - SetAside(L.problem[id])
  BY <1>3, <1>4, TotalChange, ExecutionAssumption
<1>6. SetAside(p) \in Nat /\ SetAside(L.problem[id]) \in Nat
  BY <1>3, <1>4
<1> QED BY <1>1, <1>5, <1>6, PartsNat, WorthIs

LEMMA LockWorth ==
  ASSUME NEW L, NEW M, Countable(L), Countable(M), NEW tx \in TimeLockTx,
         M.locks = L.locks \cup {tx},
         M.bal = L.bal, M.escrow = L.escrow, M.problem = L.problem
  PROVE  Worth(M) <= Worth(L) + tx.amount
<1>1. Pending(M) = Pending(L) /\ Escrowed(M) = Escrowed(L) /\ tx.amount \in Nat
  BY DEF Pending, Escrowed, TimeLockTx
<1>2. CASE tx \in L.locks
  <2>1. M.locks = L.locks
    BY <1>2
  <2>2. Locked(M) = Locked(L)
    BY <2>1 DEF Locked
  <2> QED BY <1>1, <2>2, PartsNat, WorthIs
<1>3. CASE tx \notin L.locks
  <2>1. /\ Locked(L) \in [L.locks -> Nat] /\ Locked(M) \in [L.locks \cup {tx} -> Nat]
        /\ IsFiniteSet(L.locks)
    BY PartsNat DEF Countable
  <2>2. Locked(M)[tx] = tx.amount /\ \A x \in L.locks : Locked(M)[x] = Locked(L)[x]
    BY DEF Locked
  <2>3. Total(Locked(M)) = Total(Locked(L)) + tx.amount
    BY <1>3, <2>1, <2>2, TotalMore
  <2> QED BY <1>1, <2>3, PartsNat, WorthIs
<1> QED BY <1>2, <1>3

LEMMA SameWorth ==
  ASSUME NEW L, NEW M, M.bal = L.bal, M.locks = L.locks, M.escrow = L.escrow,
         M.problem = L.problem
  PROVE  Worth(M) = Worth(L)
BY DEF Worth

\* No channel has been opened.
NoChannel(L) == \A c \in ChannelId : L.channel[c].status = "none"

\* From L to M nothing but channels can have brought money.
Thrifty(L, M) ==
  Countable(M) /\ (NoChannel(M) => NoChannel(L) /\ Worth(M) <= Worth(L))

LEMMA CreditWorth ==
  ASSUME NEW L, Countable(L), NEW a \in Account, NEW x \in Nat
  PROVE  LET M == Credit(L, a, x)
         IN Countable(M) /\ M.locks = L.locks /\ SameTables(L, M) /\ Worth(M) = Worth(L) + x
<1> DEFINE M == Credit(L, a, x)
<1>1. L \in LedgerType /\ L.bal[a] \in Nat
  BY DEF Countable, LedgerType
<1>2. M \in LedgerType /\ M.bal = [L.bal EXCEPT ![a] = L.bal[a] + x] /\ SameButBal(L, M)
  BY <1>1, CreditFields
<1> HIDE DEF M
<1>3. Countable(M) /\ M.locks = L.locks /\ SameTables(L, M)
  BY <1>2 DEF Countable, SameButBal
<1>4. Worth(M) = Worth(L) + (L.bal[a] + x) - L.bal[a]
  BY <1>1, <1>2, <1>3, BalanceWorth DEF SameTables
<1>5. Worth(M) = Worth(L) + x
  BY <1>1, <1>4, WorthIs
<1> QED BY <1>3, <1>5 DEF M

LEMMA DebitWorth ==
  ASSUME NEW L, Countable(L), NEW a \in Account, NEW x \in Nat, Affords(L, a, x)
  PROVE  LET M == Debit(L, a, x)
         IN Countable(M) /\ M.locks = L.locks /\ SameTables(L, M) /\ Worth(M) = Worth(L) - x
<1> DEFINE M == Debit(L, a, x)
<1>1. L \in LedgerType /\ L.bal[a] \in Nat /\ L.bal[a] - x \in Nat
  BY DEF Countable, LedgerType, Affords
<1>2. M \in LedgerType /\ M.bal = [L.bal EXCEPT ![a] = L.bal[a] - x] /\ SameButBal(L, M)
  BY <1>1, DebitFields
<1> HIDE DEF M
<1>3. Countable(M) /\ M.locks = L.locks /\ SameTables(L, M)
  BY <1>2 DEF Countable, SameButBal
<1>4. Worth(M) = Worth(L) + (L.bal[a] - x) - L.bal[a]
  BY <1>1, <1>2, <1>3, BalanceWorth DEF SameTables
<1>5. Worth(M) = Worth(L) - x
  BY <1>1, <1>4, WorthIs
<1> QED BY <1>3, <1>5 DEF M

LEMMA SetNonceWorth ==
  ASSUME NEW L, Countable(L), NEW tx, tx.from \in Account, tx.nonce \in Nat
  PROVE  LET M == SetNonce(L, tx)
         IN Countable(M) /\ M.locks = L.locks /\ SameTables(L, M) /\ Worth(M) = Worth(L)
<1> DEFINE M == SetNonce(L, tx)
<1>1. M \in LedgerType /\ SameButNonce(L, M)
  BY SetNonceFields DEF Countable
<1> HIDE DEF M
<1>2. Countable(M) /\ M.locks = L.locks /\ SameTables(L, M) /\ M.bal = L.bal
  BY <1>1 DEF Countable, SameButNonce
<1>3. Worth(M) = Worth(L)
  BY <1>2, SameWorth DEF SameTables
<1> QED BY <1>2, <1>3 DEF M

LEMMA ChargeWorth ==
  ASSUME NEW L, Countable(L), NEW tx, tx.from \in Account, tx.nonce \in Nat,
         NEW x \in Nat, Affords(L, tx.from, x)
  PROVE  LET M == Charge(L, tx, x)
         IN Countable(M) /\ M.locks = L.locks /\ SameTables(L, M) /\ Worth(M) = Worth(L) - x
<1> DEFINE D == Debit(L, tx.from, x)
<1>1. Countable(D) /\ D.locks = L.locks /\ SameTables(L, D) /\ Worth(D) = Worth(L) - x
  BY DebitWorth
<1> HIDE DEF D
<1> DEFINE M == SetNonce(D, tx)
<1>2. Countable(M) /\ M.locks = D.locks /\ SameTables(D, M) /\ Worth(M) = Worth(D)
  BY <1>1, SetNonceWorth
<1>3. Charge(L, tx, x) = M
  BY DEF Charge, D
<1> HIDE DEF M
<1> QED BY <1>1, <1>2, <1>3 DEF SameTables

\* A row is written.
LEMMA EscrowRowWorth ==
  ASSUME NEW L, Countable(L), NEW id \in EscrowId, NEW e \in Escrow
  PROVE  LET M == [L EXCEPT !.escrow[id] = e]
         IN /\ Countable(M) /\ M.channel = L.channel
            /\ Worth(M) = Worth(L) + InEscrow(e) - InEscrow(L.escrow[id])
<1> DEFINE M == [L EXCEPT !.escrow[id] = e]
<1>1. /\ M \in LedgerType /\ M.escrow = [L.escrow EXCEPT ![id] = e]
      /\ M.locks = L.locks /\ M.bal = L.bal /\ M.problem = L.problem /\ M.channel = L.channel
  BY DEF Countable, LedgerType
<1> HIDE DEF M
<1>2. Countable(M)
  BY <1>1 DEF Countable
<1>3. Worth(M) = Worth(L) + InEscrow(e) - InEscrow(L.escrow[id])
  BY <1>1, <1>2, EscrowWorth
<1> QED BY <1>1, <1>2, <1>3 DEF M

LEMMA ProblemRowWorth ==
  ASSUME NEW L, Countable(L), NEW id \in ProblemId, NEW p \in Problem
  PROVE  LET M == [L EXCEPT !.problem[id] = p]
         IN /\ Countable(M) /\ M.channel = L.channel /\ M.problem[id] = p
            /\ Worth(M) = Worth(L) + SetAside(p) - SetAside(L.problem[id])
<1> DEFINE M == [L EXCEPT !.problem[id] = p]
<1>1. /\ M \in LedgerType /\ M.problem = [L.problem EXCEPT ![id] = p]
      /\ M.locks = L.locks /\ M.bal = L.bal /\ M.escrow = L.escrow /\ M.channel = L.channel
      /\ M.problem[id] = p
  BY DEF Countable, LedgerType
<1> HIDE DEF M
<1>2. Countable(M)
  BY <1>1 DEF Countable
<1>3. Worth(M) = Worth(L) + SetAside(p) - SetAside(L.problem[id])
  BY <1>1, <1>2, ProblemWorth
<1> QED BY <1>1, <1>2, <1>3 DEF M

LEMMA SameIsThrifty == ASSUME NEW L, Countable(L) PROVE Thrifty(L, L)
<1>1. Worth(L) \in Nat
  BY WorthIs
<1> QED BY <1>1 DEF Thrifty

LEMMA TransferThrifty ==
  ASSUME NEW L, Countable(L), NEW tx \in TransferTx
  PROVE  Thrifty(L, ApplyTransfer(L, tx))
<1> DEFINE x == tx.amount + tx.fee
           P == Charge(L, tx, x)
           M == Credit(P, tx.to, tx.amount)
<1>1. tx.from \in Account /\ tx.to \in Account /\ tx.nonce \in Nat /\ tx.amount \in Nat /\ tx.fee \in Nat
  BY DEF TransferTx
<1>2. CASE Affords(L, tx.from, x)
  <2>1. Countable(P) /\ SameTables(L, P) /\ Worth(P) = Worth(L) - x
    BY <1>1, <1>2, ChargeWorth
  <2> HIDE DEF P
  <2>2. Countable(M) /\ SameTables(P, M) /\ Worth(M) = Worth(P) + tx.amount
    BY <1>1, <2>1, CreditWorth
  <2> HIDE DEF M
  <2>3. Worth(M) <= Worth(L)
    BY <1>1, <2>1, <2>2, WorthIs
  <2>4. Thrifty(L, M)
    BY <2>1, <2>2, <2>3 DEF Thrifty, NoChannel, SameTables
  <2> QED BY <1>2, <2>4 DEF ApplyTransfer, M, P
<1>3. CASE ~Affords(L, tx.from, x)
  BY <1>3, SameIsThrifty DEF ApplyTransfer
<1> QED BY <1>2, <1>3

LEMMA TimeLockThrifty ==
  ASSUME NEW L, Countable(L), NEW tx \in Tx, tx \in TimeLockTx
  PROVE  Thrifty(L, ApplyTimeLock(L, tx))
<1> DEFINE x == tx.amount + tx.fee
           P == Charge(L, tx, x)
           M == [P EXCEPT !.locks = @ \cup {tx}]
<1>1. tx.from \in Account /\ tx.nonce \in Nat /\ tx.amount \in Nat /\ tx.fee \in Nat
  BY DEF TimeLockTx
<1>2. CASE Affords(L, tx.from, x)
  <2>1. Countable(P) /\ SameTables(L, P) /\ Worth(P) = Worth(L) - x
    BY <1>1, <1>2, ChargeWorth
  <2> HIDE DEF P
  <2>2. /\ M \in LedgerType /\ M.locks = P.locks \cup {tx}
        /\ M.bal = P.bal /\ M.escrow = P.escrow /\ M.problem = P.problem /\ M.channel = P.channel
    BY <2>1 DEF Countable, LedgerType
  <2>3. IsFiniteSet(P.locks \cup {tx})
    BY <2>1, FS_AddElement DEF Countable
  <2> HIDE DEF M
  <2>4. Countable(M)
    BY <2>1, <2>2, <2>3 DEF Countable
  <2>5. Worth(M) <= Worth(P) + tx.amount
    BY <2>1, <2>2, <2>4, LockWorth
  <2>6. Worth(M) <= Worth(L)
    BY <1>1, <2>1, <2>4, <2>5, WorthIs
  <2>7. Thrifty(L, M)
    BY <2>1, <2>2, <2>4, <2>6 DEF Thrifty, NoChannel, SameTables
  <2> QED BY <1>2, <2>7 DEF ApplyTimeLock, M, P
<1>3. CASE ~Affords(L, tx.from, x)
  BY <1>3, SameIsThrifty DEF ApplyTimeLock
<1> QED BY <1>2, <1>3

LEMMA CreateEscrowThrifty ==
  ASSUME NEW L, Countable(L), NEW tx \in CreateTx
  PROVE  Thrifty(L, CreateEscrow(L, tx))
<1> DEFINE x == tx.amount + tx.fee
           P == Charge(L, tx, x)
           e == [status |-> "active", sender |-> tx.from, to |-> tx.to,
                 arbiter |-> tx.arbiter, amount |-> tx.amount, timeout |-> tx.timeout]
           M == [P EXCEPT !.escrow[tx.id] = e]
<1>1. /\ tx.from \in Account /\ tx.nonce \in Nat /\ tx.amount \in Nat /\ tx.fee \in Nat
      /\ tx.id \in EscrowId
  BY DEF CreateTx
<1>2. CASE Affords(L, tx.from, x)
  <2>1. Countable(P) /\ SameTables(L, P) /\ Worth(P) = Worth(L) - x
    BY <1>1, <1>2, ChargeWorth
  <2> HIDE DEF P
  <2>2. e \in Escrow /\ InEscrow(e) = tx.amount
    BY DEF CreateTx, Escrow, InEscrow
  <2> HIDE DEF e
  <2>3. /\ Countable(M) /\ M.channel = P.channel
        /\ Worth(M) = Worth(P) + InEscrow(e) - InEscrow(P.escrow[tx.id])
    BY <1>1, <2>1, <2>2, EscrowRowWorth
  <2> HIDE DEF M
  <2>4. ASSUME L.escrow[tx.id].status = "none" PROVE Thrifty(L, M)
    <3>1. InEscrow(P.escrow[tx.id]) = 0
      BY <2>1, <2>4 DEF SameTables, InEscrow
    <3>2. Worth(M) <= Worth(L)
      BY <1>1, <2>1, <2>2, <2>3, <3>1, WorthIs
    <3> QED BY <2>1, <2>3, <3>2 DEF Thrifty, NoChannel, SameTables
  <2>5. Thrifty(L, P)
    <3>1. Worth(P) <= Worth(L)
      BY <1>1, <2>1, WorthIs
    <3> QED BY <2>1, <3>1 DEF Thrifty, NoChannel, SameTables
  <2> QED BY <1>2, <2>4, <2>5 DEF CreateEscrow, M, P, e
<1>3. CASE ~Affords(L, tx.from, x)
  BY <1>3, SameIsThrifty DEF CreateEscrow
<1> QED BY <1>2, <1>3

\* The row gives up what the account is credited.
LEMMA PayEscrowThrifty ==
  ASSUME NEW L, Countable(L), NEW id \in EscrowId, NEW a \in Account,
         NEW s \in {"released", "refunded"}, L.escrow[id].status = "active"
  PROVE  Thrifty(L, [Credit(L, a, L.escrow[id].amount) EXCEPT !.escrow[id].status = s])
<1> DEFINE x == L.escrow[id].amount
           P == Credit(L, a, x)
           e == [P.escrow[id] EXCEPT !.status = s]
           M == [P EXCEPT !.escrow[id] = e]
<1>1. L.escrow[id] \in Escrow
  BY DEF Countable, LedgerType
<1>2. x \in Nat /\ InEscrow(L.escrow[id]) = x
  BY <1>1 DEF Escrow, InEscrow
<1> HIDE DEF x
<1>3. Countable(P) /\ SameTables(L, P) /\ Worth(P) = Worth(L) + x
  BY <1>2, CreditWorth
<1> HIDE DEF P
<1>4. P.escrow[id] = L.escrow[id]
  BY <1>3 DEF SameTables
<1>5. e \in Escrow /\ InEscrow(e) = 0
  BY <1>1, <1>4 DEF Escrow, InEscrow
<1> HIDE DEF e
<1>6. /\ Countable(M) /\ M.channel = P.channel
      /\ Worth(M) = Worth(P) + InEscrow(e) - InEscrow(P.escrow[id])
  BY <1>3, <1>5, EscrowRowWorth
<1> HIDE DEF M
<1>7. Worth(M) <= Worth(L)
  BY <1>2, <1>3, <1>4, <1>5, <1>6, WorthIs
<1>8. Thrifty(L, M)
  BY <1>3, <1>6, <1>7 DEF Thrifty, NoChannel, SameTables
<1> QED BY <1>8 DEF M, P, e, x

LEMMA ResolveThrifty ==
  ASSUME NEW L, Countable(L), NEW tx \in ResolveTx, NEW t
  PROVE  Thrifty(L, ReleaseEscrow(L, tx)) /\ Thrifty(L, RefundEscrow(L, tx, t))
<1>1. tx.id \in EscrowId /\ L.escrow[tx.id] \in Escrow
  BY DEF ResolveTx, Countable, LedgerType
<1>2. L.escrow[tx.id].to \in Account /\ L.escrow[tx.id].sender \in Account
  BY <1>1 DEF Escrow
<1>3. ASSUME CanRelease(L, tx) PROVE Thrifty(L, ReleaseEscrow(L, tx))
  <2>1. L.escrow[tx.id].status = "active"
    BY <1>3 DEF CanRelease
  <2> QED BY <1>1, <1>2, <1>3, <2>1, PayEscrowThrifty DEF ReleaseEscrow
<1>4. ASSUME CanRefund(L, tx, t) PROVE Thrifty(L, RefundEscrow(L, tx, t))
  <2>1. L.escrow[tx.id].status = "active"
    BY <1>4 DEF CanRefund
  <2> QED BY <1>1, <1>2, <1>4, <2>1, PayEscrowThrifty DEF RefundEscrow
<1> QED BY <1>3, <1>4, SameIsThrifty DEF ReleaseEscrow, RefundEscrow

\* Once the fee is paid, what does not touch balances or rows that count.
LEMMA PaidThrifty ==
  ASSUME NEW L, NEW P, NEW M, Countable(L), Countable(P), SameTables(L, P), Countable(M),
         NEW x \in Nat, Worth(P) = Worth(L) - x, M.bal = P.bal, M.locks = P.locks,
         M.escrow = P.escrow, M.problem = P.problem, M.channel = P.channel
  PROVE  Thrifty(L, M)
<1>1. Worth(M) = Worth(P)
  BY SameWorth
<1>2. Worth(M) <= Worth(L)
  BY <1>1, WorthIs
<1> QED BY <1>2 DEF Thrifty, NoChannel, SameTables

\* The channel that is opened is one.
LEMMA OpenChannelThrifty ==
  ASSUME NEW L, NEW t, Sound(L, t), Countable(L), NEW tx \in OpenTx
  PROVE  Thrifty(L, OpenChannel(L, tx))
<1> DEFINE x == SenderDeposit(tx) + tx.fee
           P == Charge(L, tx, x)
           c == [status |-> "open", a |-> tx.a, b |-> tx.b,
                 capacity |-> tx.depositA + tx.depositB,
                 balA |-> tx.depositA, balB |-> tx.depositB, seq |-> 0]
           M == [P EXCEPT !.channel[tx.id] = c]
<1>1. tx.from \in Account /\ tx.nonce \in Nat /\ tx.id \in ChannelId /\ x \in Nat
  BY DEF OpenTx, SenderDeposit
<1>2. CASE Affords(L, tx.from, x)
  <2>1. Countable(P) /\ SameTables(L, P) /\ Worth(P) = Worth(L) - x
    BY <1>1, <1>2, ChargeWorth
  <2> HIDE DEF P, x
  <2>2. Thrifty(L, P)
    BY <1>1, <2>1, PaidThrifty
  <2>3. c \in Channel /\ c.status = "open"
    BY DEF OpenTx, Channel
  <2> HIDE DEF c
  <2>4. M \in LedgerType /\ M.locks = P.locks /\ M.channel[tx.id] = c
    BY <1>1, <2>1, <2>3 DEF Countable, LedgerType
  <2> HIDE DEF M
  <2>5. Countable(M) /\ ~NoChannel(M)
    BY <1>1, <2>1, <2>3, <2>4 DEF Countable, NoChannel
  <2>6. Thrifty(L, M)
    BY <2>5 DEF Thrifty
  <2> QED BY <1>2, <2>2, <2>6 DEF OpenChannel, M, P, c, x
<1>3. CASE ~Affords(L, tx.from, x)
  BY <1>3, SameIsThrifty DEF OpenChannel
<1> QED BY <1>2, <1>3

\* Nor does a channel that is updated, disputed or closed cease to be one; one
\* that never was opened is left alone.
LEMMA BalanceThrifty ==
  ASSUME NEW L, NEW t, Sound(L, t), Countable(L), NEW tx \in BalanceTx
  PROVE  /\ Thrifty(L, UpdateChannel(L, tx)) /\ Thrifty(L, DisputeChannel(L, tx))
         /\ Thrifty(L, CloseChannel(L, tx))
<1>1. /\ tx.id \in ChannelId /\ L \in LedgerType
      /\ L.channel \in [ChannelId -> Channel] /\ L.channel[tx.id] \in Channel
  BY DEF BalanceTx, Countable, LedgerType
<1>2. ASSUME NEW M, M \in LedgerType, M.locks = L.locks,
             IF L.channel[tx.id].status = "none" THEN M = L
             ELSE M.channel[tx.id].status # "none"
      PROVE  Thrifty(L, M)
  <2>1. CASE L.channel[tx.id].status = "none"
    BY <1>2, <2>1, SameIsThrifty
  <2>2. CASE L.channel[tx.id].status # "none"
    BY <1>1, <1>2, <2>2 DEF Thrifty, NoChannel, Countable
  <2> QED BY <2>1, <2>2
<1>3. Thrifty(L, UpdateChannel(L, tx))
  <2> DEFINE M == UpdateChannel(L, tx)
  <2>1. M \in LedgerType
    BY UpdateChannelSound DEF Sound
  <2>2. M.locks = L.locks /\ (M # L => M.channel[tx.id].status = "open" /\ L.channel[tx.id].status = "open")
    BY <1>1 DEF UpdateChannel, Admits, Rebalanced, LedgerType, Channel
  <2> QED BY <1>2, <2>1, <2>2
<1>4. Thrifty(L, DisputeChannel(L, tx))
  <2> DEFINE M == DisputeChannel(L, tx)
  <2>1. M \in LedgerType
    BY DisputeChannelSound DEF Sound
  <2>2. M.locks = L.locks
          /\ (M # L => M.channel[tx.id].status = "dispute" /\ L.channel[tx.id].status = "open")
    BY <1>1 DEF DisputeChannel, Admits, Rebalanced, LedgerType, Channel
  <2> QED BY <1>2, <2>1, <2>2
<1>5. Thrifty(L, CloseChannel(L, tx))
  <2> DEFINE M == CloseChannel(L, tx)
             Q == Credit(L, L.channel[tx.id].a, tx.balA)
             P == Credit(Q, L.channel[tx.id].b, tx.balB)
  <2>1. M \in LedgerType
    BY CloseChannelSound DEF Sound
  <2>2. /\ tx.balA \in Nat /\ tx.balB \in Nat
        /\ L.channel[tx.id].a \in Account /\ L.channel[tx.id].b \in Account
    BY <1>1 DEF Channel, BalanceTx
  <2>3. Countable(Q) /\ Q.locks = L.locks /\ SameTables(L, Q)
    BY <2>2, CreditWorth
  <2> HIDE DEF Q
  <2>4. Countable(P) /\ P.locks = Q.locks /\ SameTables(Q, P)
    BY <2>2, <2>3, CreditWorth
  <2> HIDE DEF P
  <2> DEFINE c == [Rebalanced(P.channel[tx.id], tx) EXCEPT !.status = "closed"]
  <2>5. c.status = "closed"
    <3>1. P.channel[tx.id] \in Channel
      BY <1>1, <2>4 DEF Countable, LedgerType
    <3> QED BY <3>1 DEF Rebalanced, Channel
  <2> HIDE DEF c
  <2>6. [P EXCEPT !.channel[tx.id] = c].locks = P.locks
        /\ [P EXCEPT !.channel[tx.id] = c].channel[tx.id] = c
    BY <1>1, <2>4 DEF Countable, LedgerType
  <2>7. M = IF L.channel[tx.id].status = "none" THEN L
            ELSE IF Admits(L, tx) THEN [P EXCEPT !.channel[tx.id] = c] ELSE P
    BY DEF CloseChannel, P, Q, c
  <2> HIDE DEF M
  <2>8. M.locks = L.locks
        /\ (IF L.channel[tx.id].status = "none" THEN M = L ELSE M.channel[tx.id].status # "none")
    BY <2>3, <2>4, <2>5, <2>6, <2>7 DEF SameTables
  <2>9. Thrifty(L, M)
    BY <1>2, <2>1, <2>8 DEF M
  <2> QED BY <2>9 DEF M
<1> QED BY <1>3, <1>4, <1>5

LEMMA SubmitProblemThrifty ==
  ASSUME NEW L, NEW t \in Nat, Sound(L, t), Countable(L), NEW tx \in SubmitTx
  PROVE  Thrifty(L, SubmitProblem(L, tx, t))
<1> DEFINE x == tx.fee + tx.bounty
           P == Debit(L, tx.from, x)
           Q == SetNonce(P, tx)
           p == [status |-> "open", submitter |-> tx.from, solver |-> tx.from,
                 bounty |-> tx.bounty, expires |-> t + tx.lifetime, held |-> TRUE]
           M == [Q EXCEPT !.problem[tx.id] = p]
<1>1. /\ tx.from \in Account /\ tx.nonce \in Nat /\ tx.id \in ProblemId
      /\ tx.fee \in Nat /\ tx.bounty \in Nat /\ x \in Nat
  BY DEF SubmitTx
<1>2. CASE Affords(L, tx.from, x)
  <2>1. Countable(P) /\ SameTables(L, P) /\ Worth(P) = Worth(L) - x
    BY <1>1, <1>2, DebitWorth
  <2> HIDE DEF P
  <2>2. Thrifty(L, P)
    BY <1>1, <2>1, PaidThrifty
  <2>3. Countable(Q) /\ SameTables(P, Q) /\ Worth(Q) = Worth(P)
    BY <1>1, <2>1, SetNonceWorth
  <2> HIDE DEF Q
  <2>4. p \in Problem /\ SetAside(p) = tx.bounty
    BY DEF SubmitTx, Problem, SetAside
  <2> HIDE DEF p
  <2>5. /\ Countable(M) /\ M.channel = Q.channel
        /\ Worth(M) = Worth(Q) + SetAside(p) - SetAside(Q.problem[tx.id])
    BY ZenonT(30), <1>1, <2>3, <2>4, ProblemRowWorth
  <2> HIDE DEF M
  <2>6. ASSUME L.problem[tx.id].status = "none" PROVE Thrifty(L, M)
    <3>1. Q.problem[tx.id] = L.problem[tx.id] /\ ~L.problem[tx.id].held
      BY <1>1, <2>1, <2>3, <2>6 DEF SameTables, Sound
    <3>2. SetAside(Q.problem[tx.id]) = 0
      BY <3>1 DEF SetAside
    <3>3. Worth(M) <= Worth(L)
      BY <1>1, <2>1, <2>3, <2>4, <2>5, <3>2, WorthIs
    <3> QED BY <2>1, <2>3, <2>5, <3>3 DEF Thrifty, NoChannel, SameTables
  <2> QED BY <1>2, <2>2, <2>6 DEF SubmitProblem, M, P, Q, p
<1>3. CASE ~Affords(L, tx.from, x)
  BY <1>3, SameIsThrifty DEF SubmitProblem
<1> QED BY <1>2, <1>3

LEMMA ClaimBountyThrifty ==
  ASSUME NEW L, NEW t, Sound(L, t), Countable(L), NEW tx \in BountyTx
  PROVE  Thrifty(L, ClaimBounty(L, tx))
<1> DEFINE P == Debit(L, tx.from, tx.fee)
<1>1. tx.from \in Account /\ tx.fee \in Nat /\ tx.id \in ProblemId
  BY DEF BountyTx
<1>2. CASE Affords(L, tx.from, tx.fee)
  <2>1. Countable(P) /\ SameTables(L, P) /\ Worth(P) = Worth(L) - tx.fee
    BY <1>1, <1>2, DebitWorth
  <2> HIDE DEF P
  <2>2. Thrifty(L, P)
    BY <1>1, <2>1, PaidThrifty
  <2>3. Claim(P, tx) = P
    <3>1. P.problem[tx.id] = L.problem[tx.id]
      BY <2>1 DEF SameTables
    <3> QED BY <1>1, <3>1 DEF Sound, Claim
  <2> QED BY <1>2, <2>2, <2>3 DEF ClaimBounty, P
<1>3. CASE ~Affords(L, tx.from, tx.fee)
  BY <1>3, SameIsThrifty DEF ClaimBounty
<1> QED BY <1>2, <1>3

\* Paying a bounty that is set aside moves it from the row to the account.
LEMMA PayBountyWorth ==
  ASSUME NEW L, Countable(L), NEW id \in ProblemId, NEW a \in Account, L.problem[id].held
  PROVE  LET M == PayBounty(L, id, a)
         IN /\ Countable(M) /\ M.channel = L.channel /\ Worth(M) = Worth(L)
            /\ M.problem[id] = [L.problem[id] EXCEPT !.held = FALSE]
<1> DEFINE x == L.problem[id].bounty
           P == Credit(L, a, x)
           p == [P.problem[id] EXCEPT !.held = FALSE]
           M == [P EXCEPT !.problem[id] = p]
<1>1. L.problem[id] \in Problem
  BY DEF Countable, LedgerType
<1>2. x \in Nat /\ SetAside(L.problem[id]) = x
  BY <1>1 DEF Problem, SetAside
<1> HIDE DEF x
<1>3. Countable(P) /\ SameTables(L, P) /\ Worth(P) = Worth(L) + x
  BY <1>2, CreditWorth
<1> HIDE DEF P
<1>4. P.problem[id] = L.problem[id]
  BY <1>3 DEF SameTables
<1>5. p \in Problem /\ SetAside(p) = 0 /\ p = [L.problem[id] EXCEPT !.held = FALSE]
  BY <1>1, <1>4 DEF Problem, SetAside
<1> HIDE DEF p
<1>6. /\ Countable(M) /\ M.channel = P.channel
      /\ Worth(M) = Worth(P) + SetAside(p) - SetAside(P.problem[id])
  BY ZenonT(30), <1>3, <1>5, ProblemRowWorth
<1>7. M.problem[id] = p
  BY <1>3 DEF Countable, LedgerType
<1>8. PayBounty(L, id, a) = M
  BY DEF PayBounty, M, P, p, x
<1> HIDE DEF M
<1>9. Worth(M) = Worth(L)
  BY <1>2, <1>3, <1>4, <1>5, <1>6, WorthIs
<1> QED BY <1>3, <1>5, <1>6, <1>7, <1>8, <1>9 DEF SameTables

LEMMA CancelProblemThrifty ==
  ASSUME NEW L, Countable(L), NEW tx \in BountyTx
  PROVE  Thrifty(L, CancelProblem(L, tx))
<1> DEFINE P == Debit(L, tx.from, tx.fee)
           R == PayBounty(P, tx.id, tx.from)
           Q == SetNonce(R, tx)
           q == [Q.problem[tx.id] EXCEPT !.status = "cancelled"]
           M == [Q EXCEPT !.problem[tx.id] = q]
<1>1. tx.from \in Account /\ tx.nonce \in Nat /\ tx.fee \in Nat /\ tx.id \in ProblemId
  BY DEF BountyTx
<1>2. CASE Affords(L, tx.from, tx.fee)
  <2>1. Countable(P) /\ SameTables(L, P) /\ Worth(P) = Worth(L) - tx.fee
    BY <1>1, <1>2, DebitWorth
  <2> HIDE DEF P
  <2>2. Thrifty(L, P)
    BY <1>1, <2>1, PaidThrifty
  <2>3. ASSUME L.problem[tx.id].held PROVE Thrifty(L, M)
    <3>1. P.problem[tx.id].held /\ P.problem[tx.id] \in Problem
      BY <1>1, <2>1, <2>3 DEF SameTables, Countable, LedgerType
    <3>2. /\ Countable(R) /\ R.channel = P.channel /\ Worth(R) = Worth(P)
          /\ R.problem[tx.id] = [P.problem[tx.id] EXCEPT !.held = FALSE]
      BY <1>1, <2>1, <3>1, PayBountyWorth
    <3> HIDE DEF R
    <3>3. Countable(Q) /\ SameTables(R, Q) /\ Worth(Q) = Worth(R)
      BY <1>1, <3>2, SetNonceWorth
    <3> HIDE DEF Q
    <3>4. ~Q.problem[tx.id].held /\ Q.problem[tx.id] \in Problem
      BY <1>1, <3>1, <3>2, <3>3 DEF SameTables, Problem, Countable, LedgerType
    <3>5. q \in Problem /\ SetAside(q) = 0 /\ SetAside(Q.problem[tx.id]) = 0
      BY <3>4 DEF Problem, SetAside
    <3> HIDE DEF q
    <3>6. /\ Countable(M) /\ M.channel = Q.channel
          /\ Worth(M) = Worth(Q) + SetAside(q) - SetAside(Q.problem[tx.id])
      BY <1>1, <3>3, <3>5, ProblemRowWorth
    <3> HIDE DEF M
    <3>7. Worth(M) <= Worth(L)
      BY <1>1, <2>1, <3>2, <3>3, <3>5, <3>6, WorthIs
    <3> QED BY <2>1, <3>2, <3>3, <3>6, <3>7 DEF Thrifty, NoChannel, SameTables
  <2> QED BY <1>2, <2>2, <2>3 DEF CancelProblem, M, P, Q, R, q
<1>3. CASE ~Affords(L, tx.from, tx.fee)
  BY <1>3, SameIsThrifty DEF CancelProblem
<1> QED BY <1>2, <1>3

LEMMA SolveProblemThrifty ==
  ASSUME NEW L, NEW t, Sound(L, t), Countable(L), NEW tx \in SolveTx
  PROVE  Thrifty(L, SolveProblem(L, tx, t))
<1> DEFINE P == Debit(L, tx.from, tx.fee)
           x == [P.problem[tx.id] EXCEPT !.status = "expired"]
           p == [P.problem[tx.id] EXCEPT !.status = "solved", !.solver = tx.from]
           X == [P EXCEPT !.problem[tx.id] = x]
           S == [P EXCEPT !.problem[tx.id] = p]
           R == PayBounty(S, tx.id, S.problem[tx.id].solver)
           M == SetNonce(R, tx)
<1>1. tx.from \in Account /\ tx.nonce \in Nat /\ tx.fee \in Nat /\ tx.id \in ProblemId
  BY DEF SolveTx
<1>2. CASE Affords(L, tx.from, tx.fee)
  <2>1. Countable(P) /\ SameTables(L, P) /\ Worth(P) = Worth(L) - tx.fee
    BY <1>1, <1>2, DebitWorth
  <2> HIDE DEF P
  <2>2. Thrifty(L, P)
    BY <1>1, <2>1, PaidThrifty
  <2>3. CASE L.problem[tx.id].status = "open"
    <3>1. P.problem[tx.id].held /\ P.problem[tx.id] \in Problem
      BY <1>1, <2>1, <2>3 DEF Sound, SameTables, Countable, LedgerType
    <3>2. /\ x \in Problem /\ SetAside(x) = SetAside(P.problem[tx.id])
          /\ p \in Problem /\ SetAside(p) = SetAside(P.problem[tx.id])
          /\ p.held /\ p.status = "solved" /\ p.solver = tx.from
      BY <1>1, <3>1 DEF Problem, SetAside
    <3> HIDE DEF x, p
    <3>3. /\ Countable(X) /\ X.channel = P.channel
          /\ Worth(X) = Worth(P) + SetAside(x) - SetAside(P.problem[tx.id])
      BY <1>1, <2>1, <3>2, ProblemRowWorth
    <3>4. /\ Countable(S) /\ S.channel = P.channel
          /\ Worth(S) = Worth(P) + SetAside(p) - SetAside(P.problem[tx.id])
      BY ZenonT(30), <1>1, <2>1, <3>2, ProblemRowWorth
    <3>5. S.problem[tx.id] = p
      BY <1>1, <2>1 DEF Countable, LedgerType
    <3> HIDE DEF X, S
    <3>6. SetAside(P.problem[tx.id]) \in Nat
      BY <3>1 DEF SetAside, Problem
    <3>7. Worth(X) <= Worth(L) /\ Worth(S) <= Worth(L)
      BY <1>1, <2>1, <3>2, <3>3, <3>4, <3>6, WorthIs
    <3>8. Countable(R) /\ R.channel = S.channel /\ Worth(R) = Worth(S)
      BY <1>1, <3>2, <3>4, <3>5, PayBountyWorth
    <3>9. Claim(S, tx) = M
      BY <3>2, <3>5 DEF Claim
    <3> HIDE DEF R
    <3>10. Countable(M) /\ SameTables(R, M) /\ Worth(M) = Worth(R)
      BY <1>1, <3>8, SetNonceWorth
    <3> HIDE DEF M
    <3>11. Thrifty(L, X) /\ Thrifty(L, M)
      BY <2>1, <3>3, <3>4, <3>7, <3>8, <3>10 DEF Thrifty, NoChannel, SameTables
    <3> QED BY <1>2, <2>2, <2>3, <3>9, <3>11 DEF SolveProblem, P, X, S, x, p
  <2>4. CASE L.problem[tx.id].status # "open"
    BY <1>2, <2>2, <2>4 DEF SolveProblem, P
  <2> QED BY <2>3, <2>4
<1>3. CASE ~Affords(L, tx.from, tx.fee)
  BY <1>3, SameIsThrifty DEF SolveProblem
<1> QED BY <1>2, <1>3

LEMMA WriteLineThrifty ==
  ASSUME NEW L, NEW t, Sound(L, t), Countable(L), NEW tx, tx.from \in Account,
         tx.nonce \in Nat, tx.fee \in Nat, NEW allowed \in BOOLEAN, NEW row,
         Sound(WriteLine(L, tx, allowed, row), t)
  PROVE  Thrifty(L, WriteLine(L, tx, allowed, row))
<1> DEFINE P == Charge(L, tx, tx.fee)
           M == [P EXCEPT !.line[tx.id] = row]
<1>1. CASE Affords(L, tx.from, tx.fee)
  <2>1. Countable(P) /\ SameTables(L, P) /\ Worth(P) = Worth(L) - tx.fee
    BY <1>1, ChargeWorth
  <2> HIDE DEF P
  <2>2. Thrifty(L, P)
    BY <2>1, PaidThrifty
  <2>3. ASSUME allowed PROVE Thrifty(L, M)
    <3>1. WriteLine(L, tx, allowed, row) = M
      BY <1>1, <2>3 DEF WriteLine, P
    <3>2. /\ M.bal = P.bal /\ M.locks = P.locks /\ M.escrow = P.escrow
          /\ M.problem = P.problem /\ M.channel = P.channel
      BY <2>1 DEF Countable, LedgerType
    <3> HIDE DEF M
    <3>3. Countable(M)
      BY <2>1, <3>1, <3>2 DEF Countable, Sound
    <3> QED BY <2>1, <3>2, <3>3, PaidThrifty
  <2> QED BY <1>1, <2>2, <2>3 DEF WriteLine, P, M
<1>2. CASE ~Affords(L, tx.from, tx.fee)
  BY <1>2, SameIsThrifty DEF WriteLine
<1> QED BY <1>1, <1>2

\* Trust lines hold no money.
LEMMA LineThrifty ==
  ASSUME NEW L, NEW t, Sound(L, t), Countable(L), NEW tx
  PROVE  /\ tx \in TrustTx => Thrifty(L, CreateLine(L, tx))
         /\ tx \in LimitsTx => Thrifty(L, UpdateLimits(L, tx))
         /\ tx \in LineTx => Thrifty(L, FreezeLine(L, tx)) /\ Thrifty(L, CloseLine(L, tx))
         /\ tx \in EvolveTx => Thrifty(L, EvolveLine(L, tx))
<1>1. Participates(L, tx) \in BOOLEAN
  BY DEF Participates
<1>2. tx \in TrustTx \cup LimitsTx \cup LineTx \cup EvolveTx
        => tx.from \in Account /\ tx.nonce \in Nat /\ tx.fee \in Nat
  BY DEF TrustTx, LimitsTx, LineTx, EvolveTx
<1>3. ASSUME tx \in TrustTx PROVE Thrifty(L, CreateLine(L, tx))
  <2>1. Sound(CreateLine(L, tx), t) /\ (L.line[tx.id].status = "none" /\ tx.good) \in BOOLEAN
    BY <1>3, CreateLineSound DEF TrustTx
  <2> QED BY <1>2, <1>3, <2>1, WriteLineThrifty DEF CreateLine
<1>4. ASSUME tx \in LimitsTx PROVE Thrifty(L, UpdateLimits(L, tx))
  <2>1. Sound(UpdateLimits(L, tx), t)
          /\ (Participates(L, tx) /\ L.line[tx.id].status = "active") \in BOOLEAN
    BY <1>1, <1>4, UpdateLimitsSound
  <2> QED BY <1>2, <1>4, <2>1, WriteLineThrifty DEF UpdateLimits
<1>5. ASSUME tx \in LineTx PROVE Thrifty(L, FreezeLine(L, tx)) /\ Thrifty(L, CloseLine(L, tx))
  <2>1. Sound(FreezeLine(L, tx), t) /\ Sound(CloseLine(L, tx), t)
    BY <1>5, LineStatusSound
  <2> QED BY <1>1, <1>2, <1>5, <2>1, WriteLineThrifty DEF FreezeLine, CloseLine
<1>6. ASSUME tx \in EvolveTx PROVE Thrifty(L, EvolveLine(L, tx))
  <2>1. Sound(EvolveLine(L, tx), t)
    BY <1>6, EvolveLineSound
  <2> QED BY <1>1, <1>2, <1>6, <2>1, WriteLineThrifty DEF EvolveLine
<1> QED BY <1>3, <1>4, <1>5, <1>6

\* Nor is what the pools hold anybody's.
LEMMA SwapThrifty ==
  ASSUME NEW L, NEW t, Sound(L, t), Countable(L), NEW tx \in SwapTx
  PROVE  Thrifty(L, SwapPools(L, tx))
<1> DEFINE P == Charge(L, tx, tx.fee)
           q == [L.pool EXCEPT ![tx.poolFrom] = @ - tx.amountIn,
                               ![tx.poolTo] = L.pool[tx.poolTo] - AmountOut(tx)]
           M == [P EXCEPT !.pool = q]
<1>1. tx.from \in Account /\ tx.nonce \in Nat /\ tx.fee \in Nat
  BY DEF SwapTx
<1>2. CASE Affords(L, tx.from, tx.fee)
  <2>1. Countable(P) /\ SameTables(L, P) /\ Worth(P) = Worth(L) - tx.fee
    BY <1>1, <1>2, ChargeWorth
  <2> HIDE DEF P
  <2>2. Thrifty(L, P)
    BY <1>1, <2>1, PaidThrifty
  <2> HIDE DEF q
  <2>3. SwapPools(L, tx) \in {M, P}
    BY <1>2 DEF SwapPools, M, P, q
  <2>4. ASSUME SwapPools(L, tx) = M PROVE Thrifty(L, M)
    <3>1. /\ M.bal = P.bal /\ M.locks = P.locks /\ M.escrow = P.escrow
          /\ M.problem = P.problem /\ M.channel = P.channel
      BY <2>1 DEF Countable, LedgerType
    <3>2. M \in LedgerType
      BY <2>4, SwapSound DEF Sound
    <3> HIDE DEF M
    <3>3. Countable(M)
      BY <2>1, <3>1, <3>2 DEF Countable
    <3> QED BY <1>1, <2>1, <3>1, <3>3, PaidThrifty
  <2> QED BY <2>2, <2>3, <2>4
<1>3. CASE ~Affords(L, tx.from, tx.fee)
  BY <1>3, SameIsThrifty DEF SwapPools
<1> QED BY <1>2, <1>3

LEMMA ApplyTxThrifty ==
  ASSUME NEW L, NEW t \in Nat, Sound(L, t), Countable(L), NEW tx \in Tx
  PROVE  Thrifty(L, ApplyTx(L, tx, t))
<1>1. CASE tx.kind = "transfer"
  BY <1>1, TxOfKind, TransferThrifty DEF ApplyTx
<1>2. CASE tx.kind = "timelock"
  BY <1>2, TxOfKind, TimeLockThrifty DEF ApplyTx
<1>3. CASE tx.kind = "createEscrow"
  BY <1>3, TxOfKind, CreateEscrowThrifty DEF ApplyTx
<1>4. CASE tx.kind \in {"releaseEscrow", "refundEscrow"}
  BY <1>4, TxOfKind, ResolveThrifty DEF ApplyTx
<1>5. CASE tx.kind = "openChannel"
  BY <1>5, TxOfKind, OpenChannelThrifty DEF ApplyTx
<1>6. CASE tx.kind \in {"updateChannel", "disputeChannel", "closeChannel"}
  BY <1>6, TxOfKind, BalanceThrifty DEF ApplyTx
<1>7. CASE tx.kind = "submitProblem"
  BY <1>7, TxOfKind, SubmitProblemThrifty DEF ApplyTx
<1>8. CASE tx.kind = "solveProblem"
  BY <1>8, TxOfKind, SolveProblemThrifty DEF ApplyTx
<1>9. CASE tx.kind = "claimBounty"
  BY <1>9, TxOfKind, ClaimBountyThrifty DEF ApplyTx
<1>10. CASE tx.kind = "cancelProblem"
  BY <1>10, TxOfKind, CancelProblemThrifty DEF ApplyTx
<1>11. CASE tx.kind \in {"createLine", "updateLimits", "freezeLine", "closeLine", "evolveLine"}
  BY <1>11, TxOfKind, LineThrifty DEF ApplyTx
<1>12. CASE tx.kind = "swap"
  BY <1>12, TxOfKind, SwapThrifty DEF ApplyTx
<1> QED BY <1>1, <1>2, <1>3, <1>4, <1>5, <1>6, <1>7, <1>8, <1>9, <1>10, <1>11, <1>12, TxOfKind

MoneyInv == Countable(ledger) /\ NoInflation

\* Without payment channels no sequence of transactions, skipped ones with
\* their partial effects included, makes the accounts, locks, escrows and
\* bounties worth more than genesis and the coinbases
\* (apply_single_transaction).
THEOREM NoMoneyFromNothing == Spec => []NoInflation
<1>1. Init => MoneyInv
  <2> SUFFICES ASSUME Init PROVE MoneyInv
    OBVIOUS
  <2>1. Countable(ledger)
    BY ExecutionAssumption DEF Init, Countable
  <2>2. Worth(ledger) \in Nat
    BY <2>1, WorthIs
  <2> QED BY <2>1, <2>2 DEF Init, MoneyInv, NoInflation
<1>2. ASSUME IInv, MoneyInv, [Next]_vars PROVE MoneyInv'
  <2>0. /\ Sound(ledger, now) /\ now \in Nat /\ Countable(ledger) /\ minted \in Nat
        /\ Worth(ledger) \in Nat
    BY <1>2, ExecutionAssumption, WorthIs DEF IInv, MoneyInv
  <2>1. ASSUME NEW tx \in Tx, Execute(tx) PROVE MoneyInv'
    <3>1. Thrifty(ledger, ledger') /\ minted' = minted
      BY <2>0, <2>1, ApplyTxThrifty DEF Execute
    <3>2. Countable(ledger') /\ Worth(ledger') \in Nat
      BY <3>1, WorthIs DEF Thrifty
    <3>3. Countable(GenesisLedger) /\ Worth(GenesisLedger) \in Nat
      BY ExecutionAssumption, WorthIs DEF Countable
    <3> QED BY <1>2, <2>0, <3>1, <3>2, <3>3 DEF MoneyInv, NoInflation, Thrifty, NoChannel
  <2>2. ASSUME NEW a \in Account, NEW share \in Shares, Coinbase(a, share) PROVE MoneyInv'
    <3> DEFINE F == FillPools(ledger, share)
    <3>1. /\ F \in LedgerType /\ F.bal = ledger.bal /\ F.locks = ledger.locks
          /\ F.escrow = ledger.escrow /\ F.problem = ledger.problem /\ F.channel = ledger.channel
      BY SMTT(30), <2>0, ExecutionAssumption DEF FillPools, Countable, LedgerType
    <3> HIDE DEF F
    <3>2. Countable(F) /\ Worth(F) = Worth(ledger)
      BY <2>0, <3>1, SameWorth DEF Countable
    <3>3. ledger' = Credit(F, a, Reward) /\ minted' = minted + Reward /\ Reward \in Nat
      BY <2>2, ExecutionAssumption DEF Coinbase, F
    <3>4. Countable(ledger') /\ SameTables(F, ledger') /\ Worth(ledger') = Worth(F) + Reward
      BY <3>2, <3>3, CreditWorth
    <3>5. Countable(GenesisLedger) /\ Worth(GenesisLedger) \in Nat
      BY ExecutionAssumption, WorthIs DEF Countable
    <3>6. (\A c \in ChannelId : ledger'.channel[c].status = "none")
             => \A c \in ChannelId : ledger.channel[c].status = "none"
      BY <3>1, <3>4 DEF SameTables
    <3> QED BY <1>2, <2>0, <3>2, <3>3, <3>4, <3>5, <3>6 DEF MoneyInv, NoInflation
  <2>3. ASSUME UNCHANGED <<ledger, minted>> PROVE MoneyInv'
    BY <1>2, <2>3 DEF MoneyInv, NoInflation, Countable
  <2> QED BY <1>2, <2>1, <2>2, <2>3 DEF Next, Tick, vars
<1>3. MoneyInv => NoInflation
  BY DEF MoneyInv
<1> QED BY <1>1, <1>2, <1>3, Invariance, PTL DEF Spec
==============================================================================
