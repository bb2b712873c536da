---------------------------- MODULE BlockLedger ------------------------------
(***************************************************************************)
(* What a block does to the ledger, and how a reorganization takes it      *)
(* back: apply_block_transactions, unwind_block_transactions and           *)
(* unwind_single_transaction of node/src/service/block_processing.rs.      *)
(*                                                                         *)
(* A body is a record [miner, reward, txs].  Unwinding keeps no record of  *)
(* what applying did: it computes the reverse from the transaction and the *)
(* present ledger, stops at zero where a balance does not suffice, and     *)
(* also reverses transactions that were skipped when the block was         *)
(* applied.                                                                *)
(***************************************************************************)
EXTENDS Ledger, SequencesExt

\* Debits what is there and no more.
Claw(L, a, x) == [L EXCEPT !.bal[a] = IF @ >= x THEN @ - x ELSE 0]
BackNonce(L, a) == [L EXCEPT !.nonce[a] = IF @ > 0 THEN @ - 1 ELSE 0]
Restore(L, tx, x) == BackNonce(Credit(L, tx.from, x), tx.from)

\* Faulty variant: the fee is not given back.
UnwindTransferFeeless(L, tx) == Claw(Restore(L, tx, tx.amount), tx.to, tx.amount)

UnwindTransfer(L, tx) == Claw(Restore(L, tx, tx.amount + tx.fee), tx.to, tx.amount)

UnwindTimeLock(L, tx) ==
  [Restore(L, tx, tx.amount + tx.fee) EXCEPT !.locks = @ \ {tx}]

\* The amount is the row's, and the row stays, in whatever status it is.
UnwindCreateEscrow(L, tx) ==
  IF L.escrow[tx.id].status = "none" THEN L
  ELSE Restore(L, tx, L.escrow[tx.id].amount + tx.fee)

\* Who gives the escrowed amount back; the row becomes active again.
UnwindResolve(L, id, payee) ==
  IF L.escrow[id].status = "none" THEN L
  ELSE [Claw(L, payee, L.escrow[id].amount) EXCEPT !.escrow[id].status = "active"]

UnwindOpenChannel(L, tx) == Restore(L, tx, SenderDeposit(tx) + tx.fee)

\* The channel stays closed.
UnwindCloseChannel(L, tx) ==
  LET c == L.channel[tx.id]
  IN IF c.status = "none" THEN L ELSE Claw(Claw(L, c.a, tx.balA), c.b, tx.balB)

\* The problem and its bounty row stay.
UnwindSubmitProblem(L, tx) == Restore(L, tx, tx.fee + tx.bounty)

\* Only fee and nonce; what the marketplace did is not taken back.
UnwindBounty(L, tx) == Restore(L, tx, tx.fee)

\* Nor is what became of trust lines and pools.
UnwindLineOrSwap(L, tx) == Restore(L, tx, tx.fee)

UnwindTx(L, tx) ==
  CASE tx.kind = "transfer"      -> UnwindTransfer(L, tx)
    [] tx.kind = "timelock"      -> UnwindTimeLock(L, tx)
    [] tx.kind = "createEscrow"  -> UnwindCreateEscrow(L, tx)
    [] tx.kind = "releaseEscrow" -> UnwindResolve(L, tx.id, L.escrow[tx.id].to)
    [] tx.kind = "refundEscrow"  -> UnwindResolve(L, tx.id, L.escrow[tx.id].sender)
    [] tx.kind = "openChannel"   -> UnwindOpenChannel(L, tx)
    [] tx.kind \in {"updateChannel", "disputeChannel"} -> L
    [] tx.kind = "closeChannel"  -> UnwindCloseChannel(L, tx)
    [] tx.kind = "submitProblem" -> UnwindSubmitProblem(L, tx)
    [] tx.kind \in {"solveProblem", "claimBounty", "cancelProblem"} -> UnwindBounty(L, tx)
    [] tx.kind \in {"createLine", "updateLimits", "freezeLine", "closeLine", "evolveLine",
                    "swap"} -> UnwindLineOrSwap(L, tx)

-----------------------------------------------------------------------------
\* The coinbase first, then every transaction; one that fails is skipped.
ApplyBody(L, body, now) ==
  FoldLeft(LAMBDA M, tx : ApplyTx(M, tx, now),
           Credit(L, body.miner, body.reward), body.txs)

\* Every transaction from the last to the first, then the coinbase.
UnwindBody(L, body) ==
  Claw(FoldLeft(UnwindTx, L, Reverse(body.txs)), body.miner, body.reward)
==============================================================================
