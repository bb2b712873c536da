----------------------------- MODULE MCExecution -------------------------------
(****************************************************************************)
(* Execution with one escrow, one channel, one problem, one trust line and  *)
(* two pools, contested by three accounts of which only the genesis account *)
(* owns anything at first and that own little, so that deposits fail as     *)
(* well as succeed.  The pools are D5 and D7, whose factors are powers of   *)
(* two: their quotient is exact in the code too.                            *)
(****************************************************************************)
EXTENDS Execution

CONSTANTS alice, bob, carol, esc, ch, prob, line, d5, d7

Transfer(from, nonce, to, amount) ==
  [kind |-> "transfer", from |-> from, nonce |-> nonce, fee |-> 1, to |-> to,
   amount |-> amount]
Escrowed(from, nonce, arbiter, timeout) ==
  [kind |-> "createEscrow", from |-> from, nonce |-> nonce, fee |-> 0, id |-> esc,
   to |-> bob, arbiter |-> arbiter, amount |-> 3, timeout |-> timeout]
Resolve(kind, from) == [kind |-> kind, from |-> from, fee |-> 0, id |-> esc]
Balances(kind, from, seq, balA, balB) ==
  [kind |-> kind, from |-> from, id |-> ch, seq |-> seq, balA |-> balA, balB |-> balB]
Bounty(kind, from, nonce) ==
  [kind |-> kind, from |-> from, nonce |-> nonce, fee |-> 1, id |-> prob]
Solution(from, good) ==
  [kind |-> "solveProblem", from |-> from, nonce |-> 0, fee |-> 1, id |-> prob,
   good |-> good]

OfLine(kind, from) == [kind |-> kind, from |-> from, nonce |-> 1, fee |-> 1, id |-> line]
Limits(from, ab, ba) ==
  [kind |-> "updateLimits", from |-> from, nonce |-> 1, fee |-> 0, id |-> line,
   limitAB |-> ab, limitBA |-> ba]
Swap(poolFrom, poolTo, amountIn, minOut) ==
  [kind |-> "swap", from |-> alice, nonce |-> 0, fee |-> 1, poolFrom |-> poolFrom,
   poolTo |-> poolTo, amountIn |-> amountIn, minOut |-> minOut]

MCFactor == [p \in Pool |-> IF p = d5 THEN 500 ELSE 250]
MCShares == {[p \in Pool |-> 0], [p \in Pool |-> IF p = d5 THEN 1 ELSE 0]}

MCTx ==
  {Transfer(alice, 0, bob, 2), Transfer(bob, 0, bob, 1), Transfer(bob, 1, alice, 2),
   [kind |-> "timelock", from |-> alice, nonce |-> 0, fee |-> 1, amount |-> 2],
   Escrowed(alice, 0, NoArbiter, 1), Escrowed(alice, 1, carol, 2),
   Resolve("releaseEscrow", bob), Resolve("releaseEscrow", carol),
   Resolve("refundEscrow", alice), Resolve("refundEscrow", carol),
   [kind |-> "openChannel", from |-> alice, nonce |-> 0, fee |-> 0, id |-> ch,
    a |-> alice, b |-> bob, depositA |-> 2, depositB |-> 1],
   Balances("updateChannel", alice, 1, 1, 2), Balances("updateChannel", bob, 2, 3, 1),
   Balances("disputeChannel", bob, 0, 0, 3), Balances("disputeChannel", alice, 2, 2, 2),
   Balances("closeChannel", bob, 2, 1, 2), Balances("closeChannel", bob, 2, 3, 3),
   [kind |-> "submitProblem", from |-> alice, nonce |-> 0, fee |-> 1, id |-> prob,
    bounty |-> 3, lifetime |-> 1],
   Solution(bob, TRUE), Solution(bob, FALSE),
   Bounty("claimBounty", bob, 1), Bounty("cancelProblem", alice, 1),
   [kind |-> "createLine", from |-> alice, nonce |-> 0, fee |-> 1, id |-> line,
    to |-> bob, limitAB |-> 2, limitBA |-> 0, good |-> TRUE],
   Limits(bob, Keep, 3), Limits(carol, 1, 1), OfLine("freezeLine", bob),
   OfLine("closeLine", alice),
   [kind |-> "evolveLine", from |-> alice, nonce |-> 2, fee |-> 0, id |-> line,
    delta |-> -1],
   Swap(d5, d7, 1, 2), Swap(d7, d7, 1, 1)}

NoEscrow == [status |-> "none", sender |-> alice, to |-> alice, arbiter |-> NoArbiter,
             amount |-> 0, timeout |-> 0]
NoLine == [status |-> "none", a |-> alice, b |-> alice, limitAB |-> 0, limitBA |-> 0,
           tau |-> 0]
NoChannel == [status |-> "none", a |-> alice, b |-> alice, capacity |-> 0, balA |-> 0,
              balB |-> 0, seq |-> 0]
NoProblem == [status |-> "none", submitter |-> alice, solver |-> alice, bounty |-> 0,
              expires |-> 0, held |-> FALSE]

MCGenesisLedger ==
  [bal |-> [a \in Account |-> IF a = alice THEN 8 ELSE 0],
   nonce |-> [a \in Account |-> 0], locks |-> {},
   escrow |-> [id \in EscrowId |-> NoEscrow],
   channel |-> [id \in ChannelId |-> NoChannel],
   problem |-> [id \in ProblemId |-> NoProblem],
   line |-> [id \in LineId |-> NoLine], pool |-> [p \in Pool |-> IF p = d5 THEN 1 ELSE 2]]
==============================================================================
