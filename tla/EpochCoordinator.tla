-------------------------- MODULE EpochCoordinator ---------------------------
(***************************************************************************)
(* The epoch coordinators of a mesh (consensus/src/coordinator): every     *)
(* node runs through Salt, Mine, Commit and Seal by its own timers, counts *)
(* the commits it was told of in between, and on entering Seal decides by  *)
(* itself who won and whether to build a block.                            *)
(*                                                                         *)
(* Nodes share nothing but the commits they broadcast.  The mesh relays    *)
(* them: a commit reaches another node at any time and any number of       *)
(* times, or never; one that comes back to the node it is from is dropped  *)
(* there.  A node starts with itself as its only peer and in epoch 1, also *)
(* after a restart.                                                        *)
(*                                                                         *)
(* Left out: salt, leader and chain tip, which nothing below reads, and    *)
(* the stall counter, which start_epoch sets to zero before anybody does.  *)
(* Signatures: the node is built with allow-unsigned-commits and sends its *)
(* commits unsigned.                                                       *)
(***************************************************************************)
EXTENDS Naturals, FiniteSets

CONSTANTS
  Node,         \* node ids; numbers, since ties go to the smallest
  Score,        \* work scores a solution may have
  Reach,        \* Reach[n][e]: those n's solver may reach in epoch e
  MaxEpoch,     \* bound: the last epoch
  MaxRestarts   \* bound: how often some node may restart

ASSUME EpochCoordinatorAssumption ==
  /\ Node \subseteq Nat /\ IsFiniteSet(Node)
  /\ Score \subseteq Nat \ {0}
  /\ Reach \in [Node -> [1..MaxEpoch -> SUBSET Score]]
  /\ MaxEpoch \in Nat \ {0}
  /\ MaxRestarts \in Nat

VARIABLES
  epoch,     \* epoch[n], phase[n]: EpochState
  phase,
  peers,     \* peers[n]: the peer set, n included
  commits,   \* commits[n]: the CommitCollector, a set of [node, score]
  solution,  \* solution[n]: the score of local_solution, or 0
  solving,   \* solving[n]: the epochs n's solver still owes a solution for
  sent,      \* the network: every commit ever broadcast
  sealed,    \* history: what every node decided in every epoch
  restarts   \* how often a node restarted so far

vars == <<epoch, phase, peers, commits, solution, solving, sent, sealed, restarts>>

Epochs == 1..MaxEpoch
Phases == {"Salt", "Mine", "Commit", "Seal"}
Commits == [node : Node, score : Score]

TypeOK ==
  /\ epoch \in [Node -> Epochs]
  /\ phase \in [Node -> Phases]
  /\ peers \in [Node -> SUBSET Node]
  /\ \A n \in Node : n \in peers[n]
  /\ commits \in [Node -> SUBSET Commits]
  /\ \A n \in Node : \A c, d \in commits[n] : c.node = d.node => c = d
  /\ solution \in [Node -> Score \cup {0}]
  /\ solving \in [Node -> SUBSET Epochs]
  /\ sent \subseteq [epoch : Epochs, node : Node, score : Score]
  /\ sealed \subseteq [epoch : Epochs, by : Node, view : SUBSET Node,
                       winner : Node, score : Score, built : BOOLEAN]
  /\ restarts \in 0..MaxRestarts

Init ==
  /\ epoch = [n \in Node |-> 1]
  /\ phase = [n \in Node |-> "Salt"]
  /\ peers = [n \in Node |-> {n}]
  /\ commits = [n \in Node |-> {}]
  /\ solution = [n \in Node |-> 0]
  /\ solving = [n \in Node |-> {}]
  /\ sent = {}
  /\ sealed = {}
  /\ restarts = 0

-----------------------------------------------------------------------------
(* CommitCollector *)

\* add_commit: the first commit a node is heard of with is kept.  Whether the
\* node is a peer does not matter.
AddCommit(C, c) == IF \E d \in C : d.node = c.node THEN C ELSE C \cup {c}

\* Faulty variant: half of the peers suffice.
RequiredHalf(k) == (50 * k + 99) \div 100

\* 67% of the peers, rounded up.
Required(k) == (67 * k + 99) \div 100

HasQuorum(n) == Cardinality(commits[n]) >= Required(Cardinality(peers[n]))

\* select_winner: the highest score; among equals the smallest id.
Beats(c, d) == c.score > d.score \/ (c.score = d.score /\ c.node <= d.node)
Winner(C) == CHOOSE c \in C : \A d \in C : Beats(c, d)

-----------------------------------------------------------------------------
(* The timers: handle_phase_expiry *)

\* start_epoch
StartEpoch(n, e) ==
  /\ epoch' = [epoch EXCEPT ![n] = e]
  /\ phase' = [phase EXCEPT ![n] = "Salt"]
  /\ commits' = [commits EXCEPT ![n] = {}]
  /\ solution' = [solution EXCEPT ![n] = 0]

\* The phase ended on time.  MinePhaseStarted sets the solver to work.
EnterMine(n) ==
  /\ phase[n] = "Salt"
  /\ phase' = [phase EXCEPT ![n] = "Mine"]
  /\ solving' = [solving EXCEPT ![n] = @ \cup {epoch[n]}]
  /\ UNCHANGED <<epoch, peers, commits, solution, sent, sealed, restarts>>

EnterCommit(n) ==
  /\ phase[n] = "Mine"
  /\ phase' = [phase EXCEPT ![n] = "Commit"]
  /\ UNCHANGED <<epoch, peers, commits, solution, solving, sent, sealed, restarts>>

\* handle_seal: without a quorum nothing is decided.  The winner itself builds
\* the block from the solution it has kept, and gives that up.
EnterSeal(n) ==
  LET w == Winner(commits[n])
  IN /\ phase[n] = "Commit"
     /\ phase' = [phase EXCEPT ![n] = "Seal"]
     /\ IF HasQuorum(n)
          THEN /\ sealed' = sealed \cup
                    {[epoch |-> epoch[n], by |-> n, view |-> peers[n],
                      winner |-> w.node, score |-> w.score,
                      built |-> w.node = n /\ solution[n] # 0]}
               /\ solution' = IF w.node = n THEN [solution EXCEPT ![n] = 0] ELSE solution
          ELSE UNCHANGED <<sealed, solution>>
     /\ UNCHANGED <<epoch, peers, commits, solving, sent, restarts>>

\* Sealed or not, the epoch is over.
Complete(n) ==
  /\ phase[n] = "Seal" /\ epoch[n] < MaxEpoch
  /\ StartEpoch(n, epoch[n] + 1)
  /\ UNCHANGED <<peers, solving, sent, sealed, restarts>>

\* Faulty variant: a stalled epoch is tried again.
StallRetries(n) ==
  /\ epoch[n] < MaxEpoch
  /\ StartEpoch(n, epoch[n])
  /\ UNCHANGED <<peers, solving, sent, sealed, restarts>>

\* The timer fired so late that the phase stalled or the epoch exceeded its
\* hard deadline: whatever the phase, the epoch is given up.
Stall(n) ==
  /\ epoch[n] < MaxEpoch
  /\ StartEpoch(n, epoch[n] + 1)
  /\ UNCHANGED <<peers, solving, sent, sealed, restarts>>

Expire(n) == EnterMine(n) \/ EnterCommit(n) \/ EnterSeal(n) \/ Complete(n) \/ Stall(n)

-----------------------------------------------------------------------------
(* The commands: handle_command *)

\* LocalSolutionReady for epoch e, in whatever phase; dropped if that epoch is
\* over.
LocalSolutionReady(n, e, s) ==
  /\ e \in solving[n] /\ s \in Reach[n][e]
  /\ solving' = [solving EXCEPT ![n] = @ \ {e}]
  /\ IF e = epoch[n]
       THEN /\ solution' = [solution EXCEPT ![n] = s]
            /\ commits' = [commits EXCEPT ![n] = AddCommit(@, [node |-> n, score |-> s])]
            /\ sent' = sent \cup {[epoch |-> e, node |-> n, score |-> s]}
       ELSE UNCHANGED <<solution, commits, sent>>
  /\ UNCHANGED <<epoch, phase, peers, sealed, restarts>>

\* Faulty variant: the epoch of the commit is not compared.
CommitReceivedAnyEpoch(n, m) ==
  /\ m.node # n
  /\ commits' = [commits EXCEPT ![n] = AddCommit(@, [node |-> m.node, score |-> m.score])]
  /\ UNCHANGED <<epoch, phase, peers, solution, solving, sent, sealed, restarts>>

\* A commit for another epoch than n's present one is dropped.
CommitReceived(n, m) ==
  /\ m.node # n /\ m.epoch = epoch[n]
  /\ commits' = [commits EXCEPT ![n] = AddCommit(@, [node |-> m.node, score |-> m.score])]
  /\ UNCHANGED <<epoch, phase, peers, solution, solving, sent, sealed, restarts>>

PeerJoined(n, p) ==
  /\ peers' = [peers EXCEPT ![n] = @ \cup {p}]
  /\ UNCHANGED <<epoch, phase, commits, solution, solving, sent, sealed, restarts>>

\* A node is never told that it left itself.
PeerLeft(n, p) ==
  /\ p # n
  /\ peers' = [peers EXCEPT ![n] = @ \ {p}]
  /\ UNCHANGED <<epoch, phase, commits, solution, solving, sent, sealed, restarts>>

-----------------------------------------------------------------------------
\* The node is started anew: epoch 1, alone, and its solver forgets its work.
Restart(n) ==
  /\ restarts < MaxRestarts
  /\ restarts' = restarts + 1
  /\ StartEpoch(n, 1)
  /\ peers' = [peers EXCEPT ![n] = {n}]
  /\ solving' = [solving EXCEPT ![n] = {}]
  /\ UNCHANGED <<sent, sealed>>

Command(n) ==
  \/ \E e \in Epochs, s \in Score : LocalSolutionReady(n, e, s)
  \/ \E m \in sent : CommitReceived(n, m)
  \/ \E p \in Node : PeerJoined(n, p) \/ PeerLeft(n, p)

Next == \E n \in Node : Expire(n) \/ Command(n) \/ Restart(n)

\* The timer of a phase fires sooner or later; commands may never come.
Fairness == \A n \in Node : WF_vars(Expire(n))

Spec == Init /\ [][Next]_vars /\ Fairness

-----------------------------------------------------------------------------
(* Properties *)

\* What a collector holds was committed by that node, with that score, for the
\* epoch the collector's owner is in, however late, early or across restarts
\* commits arrive (mod.rs, handling of CommitReceived and LocalSolutionReady).
CommitsGenuine ==
  \A n \in Node : \A c \in commits[n] :
    [epoch |-> epoch[n], node |-> c.node, score |-> c.score] \in sent

\* A node that declares itself the winner still has the solution to build its
\* block from: the branch "we won but have no cached solution" (mod.rs:490) is
\* never taken, whatever epochs were given up before.
WinnerBuilds == \A s \in sealed : s.winner = s.by => s.built

\* The types, and of every commit and every claim to have won that it is backed.
CommitsSound == TypeOK /\ CommitsGenuine /\ WinnerBuilds

\* As long as nobody restarted, nodes that all had the whole mesh for peers
\* when they sealed an epoch name the same winner and score.  With up to
\* three nodes 67% of them are all of them; in a larger mesh they may count
\* different commits and differ (commit.rs:11).
UnanimousAgreement ==
  restarts = 0 /\ Cardinality(Node) <= 3 =>
    \A s, t \in sealed :
      s.epoch = t.epoch /\ s.view = Node /\ t.view = Node =>
        s.winner = t.winner /\ s.score = t.score

\* What the comment on tie-breaking promises: "This ensures all honest nodes
\* agree on the same winner" (commit.rs:11).  Asked only of nodes that count
\* the same peers for their quorum, and even then they may name different ones.
SameViewAgreement ==
  restarts = 0 =>
    \A s, t \in sealed :
      s.epoch = t.epoch /\ s.view = t.view => s.winner = t.winner

\* No node stays in an epoch: with or without solutions, commits, quorum or
\* peers, and after stalls and restarts, a later epoch begins (mod.rs,
\* handle_phase_expiry and handle_stall).
EpochsAdvance ==
  \A n \in Node : \A e \in 1..(MaxEpoch - 1) : epoch[n] = e ~> epoch[n] > e
==============================================================================
