----------------------------- MODULE MiningProofs -----------------------------
(***************************************************************************)
(* The two models around mining, for all values of their constants.        *)
(*                                                                         *)
(* EpochCoordinator, for any number of nodes, epochs, scores and restarts: *)
(* commits and claims to have won are backed, and nodes that counted the   *)
(* whole mesh agree.  The agreement rests on OneCommit: as long as nobody  *)
(* restarts, a node commits at most once to an epoch, so that a full set   *)
(* of commits for an epoch never changes again.                            *)
(*                                                                         *)
(* Mempool, for any transactions, fees, limits and blocks of peers: the    *)
(* parts of the pool agree and no limit is exceeded, every template is     *)
(* fair, and what was executed leaves the pool.                            *)
(***************************************************************************)
EXTENDS EpochCoordinator, Mempool, FiniteSetTheorems, SequenceTheorems,
        WellFoundedInduction, TLAPS

-----------------------------------------------------------------------------
(* Sets of numbers and of commits. *)

NatLess == OpToRel(<, Nat)

\* A non-empty set of natural numbers has a least element.
LEMMA LeastExists ==
  ASSUME NEW T \in SUBSET Nat, T # {}
  PROVE  \E n \in T : \A m \in T : n <= m
<1>1. IsWellFoundedOn(NatLess, Nat)
  BY NatLessThanWellFounded DEF NatLess
<1>2. PICK n \in T : \A m \in T : ~ (<<m, n>> \in NatLess)
  BY <1>1, WFMin
<1>3. ASSUME NEW m \in T PROVE n <= m
  <2>1. ~ (<<m, n>> \in NatLess) /\ m \in Nat /\ n \in Nat
    BY <1>2
  <2>2. ~ (m < n)
    BY <2>1 DEF NatLess, OpToRel
  <2> QED BY <2>1, <2>2
<1> QED BY <1>3

HasGreatest(T) == \E n \in T : \A m \in T : m <= n

\* A finite one also has a greatest: a smallest counterexample, less one of its
\* elements, would have one.
LEMMA GreatestExists ==
  ASSUME NEW T \in SUBSET Nat, IsFiniteSet(T), T # {}
  PROVE  HasGreatest(T)
<1> DEFINE Bad == {S \in SUBSET Nat : IsFiniteSet(S) /\ S # {} /\ ~ HasGreatest(S)}
           Sizes == {Cardinality(S) : S \in Bad}
<1> SUFFICES ASSUME T \in Bad PROVE FALSE
  OBVIOUS
<1>1. Sizes \in SUBSET Nat /\ Sizes # {}
  BY FS_CardinalityType
<1>2. PICK k \in Sizes : \A j \in Sizes : k <= j
  BY <1>1, LeastExists
<1>3. PICK S \in Bad : k = Cardinality(S)
  BY <1>2
<1>4. PICK x \in S : TRUE
  BY <1>3
<1>5. x \in Nat /\ IsFiniteSet(S \ {x}) /\ Cardinality(S \ {x}) = k - 1 /\ k \in Nat
  BY <1>1, <1>3, <1>4, FS_RemoveElement
<1>6. CASE S = {x}
  <2>1. HasGreatest(S)
    BY <1>5, <1>6 DEF HasGreatest
  <2> QED BY <1>3, <2>1
<1>7. CASE S # {x}
  <2>1. S \ {x} \in SUBSET Nat /\ S \ {x} # {}
    BY <1>3, <1>4, <1>7
  <2>2. S \ {x} \notin Bad
    <3>1. SUFFICES ASSUME S \ {x} \in Bad PROVE FALSE
      OBVIOUS
    <3>2. Cardinality(S \ {x}) \in Sizes
      BY <3>1
    <3> QED BY <1>2, <1>5, <3>2
  <2>3. PICK y \in S \ {x} : \A m \in S \ {x} : m <= y
    BY <1>5, <2>1, <2>2 DEF HasGreatest
  <2>4. x \in Nat /\ y \in Nat /\ \A m \in S : m \in Nat
    BY <1>3, <1>4
  <2>5. HasGreatest(S)
    <3>1. CASE x <= y  BY <2>3, <2>4, <3>1 DEF HasGreatest
    <3>2. CASE ~ (x <= y)
      <4>1. \A m \in S : m <= x
        BY <2>3, <2>4, <3>2
      <4> QED BY <1>4, <4>1 DEF HasGreatest
    <3> QED BY <3>1, <3>2
  <2> QED BY <1>3, <2>5
<1> QED BY <1>6, <1>7

OnePerNode(C) == \A c, d \in C : c.node = d.node => c = d

\* A collector holds at most one commit per node, so it is finite, and one that
\* has as many commits as there are nodes has one of each.
LEMMA CollectorFinite ==
  ASSUME NEW C \in SUBSET Commits, OnePerNode(C)
  PROVE  /\ IsFiniteSet(C)
         /\ Cardinality(C) \in Nat
         /\ Cardinality(C) >= Cardinality(Node) => \A n \in Node : \E c \in C : c.node = n
<1> DEFINE f == [c \in C |-> c.node]
<1>1. f \in Injection(C, Node)
  BY DEF Injection, IsInjective, OnePerNode, Commits
<1>2. IsFiniteSet(Node) /\ Cardinality(Node) \in Nat
  BY EpochCoordinatorAssumption, FS_CardinalityType
<1>3. /\ IsFiniteSet(C) /\ Cardinality(C) <= Cardinality(Node)
      /\ Cardinality(C) = Cardinality(Node) <=> f \in Surjection(C, Node)
  BY <1>1, <1>2, FS_Injection
<1>4. Cardinality(C) \in Nat
  BY <1>3, FS_CardinalityType
<1>5. ASSUME f \in Surjection(C, Node), NEW n \in Node PROVE \E c \in C : c.node = n
  BY <1>5 DEF Surjection
<1> QED BY <1>2, <1>3, <1>4, <1>5

\* select_winner finds a commit of the collector, and none that beats it.
LEMMA WinnerWins ==
  ASSUME NEW C \in SUBSET Commits, OnePerNode(C), C # {}
  PROVE  Winner(C) \in C /\ \A d \in C : Beats(Winner(C), d)
<1> USE EpochCoordinatorAssumption
<1> DEFINE scores == {c.score : c \in C}
<1>0. \A c \in C : c.node \in Nat /\ c.score \in Nat
  BY DEF Commits
<1>1. scores \in SUBSET Nat /\ scores # {}
  BY <1>0
<1>2. IsFiniteSet(scores)
  <2> DEFINE g == [c \in C |-> c.score]
  <2>1. g \in Surjection(C, scores)
    BY DEF Surjection
  <2>2. IsFiniteSet(C)
    BY CollectorFinite
  <2> HIDE DEF g, scores
  <2> QED BY <2>1, <2>2, FS_Surjection
<1>3. PICK top \in scores : \A s \in scores : s <= top
  BY <1>1, <1>2, GreatestExists DEF HasGreatest
<1> DEFINE first == {c.node : c \in {d \in C : d.score = top}}
<1>4. first \in SUBSET Nat /\ first # {}
  <2>1. PICK c \in C : c.score = top
    BY <1>3
  <2>2. c.node \in first
    BY <2>1
  <2> QED BY <1>0, <2>2
<1>5. PICK n \in first : \A m \in first : n <= m
  BY <1>4, LeastExists
<1>6. PICK c \in C : c.score = top /\ c.node = n
  BY <1>5
<1>7. ASSUME NEW d \in C PROVE Beats(c, d)
  <2>1. d.score \in scores /\ d.score \in Nat /\ top \in Nat
    BY <1>0, <1>1, <1>3
  <2>2. CASE d.score = top
    <3>1. d.node \in first /\ d.node \in Nat /\ n \in Nat
      BY <1>0, <1>4, <1>5, <2>2
    <3>2. n <= d.node
      BY <1>5, <3>1
    <3> HIDE DEF first, scores
    <3> QED BY <3>2, <1>5, <1>6, <2>2, <3>1 DEF Beats
  <2>3. CASE d.score # top
    <3> HIDE DEF first, scores
    <3>1. d.score <= top
      BY <1>3, <2>1
    <3> QED BY <1>6, <2>1, <2>3, <3>1 DEF Beats
  <2> QED BY <2>2, <2>3
<1> QED BY <1>7 DEF Winner

-----------------------------------------------------------------------------
(* The inductive invariant. *)

\* Until the epoch is sealed, whose collector has its own commit has the solution.
KeptSolution ==
  \A n \in Node : phase[n] # "Seal" =>
    \A c \in commits[n] : c.node = n => solution[n] # 0

\* Nobody has committed to an epoch it did not mine for yet.
NoneAhead ==
  \A m \in sent :
    m.epoch <= epoch[m.node] /\ (m.epoch = epoch[m.node] => phase[m.node] # "Salt")

\* The solver owes solutions only for epochs that were mined for, and that its
\* node did not commit to.
OwedOnce ==
  \A n \in Node : \A e \in solving[n] :
    /\ e <= epoch[n] /\ (e = epoch[n] => phase[n] # "Salt")
    /\ \A m \in sent : ~ (m.epoch = e /\ m.node = n)

\* A node commits to an epoch at most once.
OneCommit == \A m, k \in sent : m.epoch = k.epoch /\ m.node = k.node => m = k

\* m is the best of a full set of commits.
BestOfAll(m) ==
  /\ m \in sent
  /\ \A n \in Node : \E k \in sent : k.node = n /\ k.epoch = m.epoch
  /\ \A k \in sent : k.epoch = m.epoch => Beats(m, k)

\* Who counted the whole mesh, of up to three nodes, chose the best of all.
CountedAll ==
  \A s \in sealed : s.view = Node =>
    BestOfAll([epoch |-> s.epoch, node |-> s.winner, score |-> s.score])

NeverRestarted == restarts = 0 => NoneAhead /\ OwedOnce /\ OneCommit
SmallMesh == restarts = 0 /\ Cardinality(Node) <= 3 => CountedAll

EInv == TypeOK /\ CommitsGenuine /\ KeptSolution /\ WinnerBuilds /\ NeverRestarted /\ SmallMesh

-----------------------------------------------------------------------------
(* Quorums. *)

\* A quorum is never empty, and of the whole mesh, up to three nodes, it is all.
LEMMA QuorumCommits ==
  ASSUME TypeOK, NEW n \in Node, HasQuorum(n)
  PROVE  /\ commits[n] \in SUBSET Commits /\ OnePerNode(commits[n])
         /\ Winner(commits[n]) \in commits[n]
         /\ \A d \in commits[n] : Beats(Winner(commits[n]), d)
         /\ peers[n] = Node /\ Cardinality(Node) <= 3 =>
              \A p \in Node : \E c \in commits[n] : c.node = p
<1>1. commits[n] \in SUBSET Commits /\ OnePerNode(commits[n])
  BY DEF TypeOK, OnePerNode
<1>2. Cardinality(commits[n]) \in Nat
  BY <1>1, CollectorFinite
<1>3. IsFiniteSet(peers[n]) /\ Cardinality(peers[n]) \in Nat /\ Cardinality(peers[n]) # 0
  <2>1. peers[n] \subseteq Node /\ n \in peers[n] /\ IsFiniteSet(Node)
    BY EpochCoordinatorAssumption DEF TypeOK
  <2>2. IsFiniteSet(peers[n])
    BY <2>1, FS_Subset
  <2> QED BY <2>1, <2>2, FS_CardinalityType, FS_EmptySet
<1>4. Cardinality(commits[n]) # 0
  BY <1>2, <1>3 DEF HasQuorum, Required
<1>5. commits[n] # {}
  BY <1>4, FS_EmptySet
<1>6. Winner(commits[n]) \in commits[n] /\ \A d \in commits[n] : Beats(Winner(commits[n]), d)
  BY <1>1, <1>5, WinnerWins
<1>7. ASSUME peers[n] = Node, Cardinality(Node) <= 3
      PROVE  \A p \in Node : \E c \in commits[n] : c.node = p
  <2>1. Cardinality(commits[n]) >= Cardinality(Node)
    BY <1>2, <1>3, <1>7 DEF HasQuorum, Required
  <2> QED BY <1>1, <2>1, CollectorFinite
<1> QED BY <1>1, <1>6, <1>7

\* add_commit keeps the collector a set of commits, one per node.
LEMMA AddCommitType ==
  ASSUME NEW C \in SUBSET Commits, OnePerNode(C), NEW c \in Commits
  PROVE  /\ AddCommit(C, c) \in SUBSET Commits /\ OnePerNode(AddCommit(C, c))
         /\ AddCommit(C, c) \subseteq C \cup {c}
BY DEF AddCommit, OnePerNode

-----------------------------------------------------------------------------
(* The steps. *)

\* Every step keeps the types.
LEMMA TypeStep == TypeOK /\ [Next]_vars => TypeOK'
<1> SUFFICES ASSUME TypeOK, [Next]_vars PROVE TypeOK'
  OBVIOUS
<1> USE EpochCoordinatorAssumption
<1>0. /\ epoch \in [Node -> Epochs] /\ phase \in [Node -> Phases]
      /\ peers \in [Node -> SUBSET Node] /\ commits \in [Node -> SUBSET Commits]
      /\ solution \in [Node -> Score \cup {0}] /\ solving \in [Node -> SUBSET Epochs]
      /\ \A n \in Node : OnePerNode(commits[n])
  BY DEF TypeOK, OnePerNode
<1>1. ASSUME NEW n \in Node, EnterMine(n) PROVE TypeOK'
  BY <1>1 DEF TypeOK, EnterMine, Phases
<1>2. ASSUME NEW n \in Node, EnterCommit(n) PROVE TypeOK'
  BY <1>2 DEF TypeOK, EnterCommit, Phases
<1>3. ASSUME NEW n \in Node, EnterSeal(n) PROVE TypeOK'
  <2>1. CASE HasQuorum(n)
    <3> DEFINE w == Winner(commits[n])
               s == [epoch |-> epoch[n], by |-> n, view |-> peers[n], winner |-> w.node,
                     score |-> w.score, built |-> w.node = n /\ solution[n] # 0]
    <3>1. w \in Commits
      BY <2>1, QuorumCommits
    <3>2. w.node \in Node /\ w.score \in Score /\ (w.node = n /\ solution[n] # 0) \in BOOLEAN
      BY <3>1 DEF Commits
    <3>3. s \in [epoch : Epochs, by : Node, view : SUBSET Node,
                 winner : Node, score : Score, built : BOOLEAN]
      <4> HIDE DEF w
      <4> QED BY <3>2, <1>0
    <3>4. sealed' = sealed \cup {s}
      BY <1>3, <2>1 DEF EnterSeal
    <3>5. solution' \in [Node -> Score \cup {0}]
      BY <1>0, <1>3, <2>1 DEF EnterSeal
    <3>6. /\ phase' \in [Node -> Phases]
          /\ UNCHANGED <<epoch, peers, commits, solving, sent, restarts>>
      BY <1>0, <1>3 DEF EnterSeal, Phases
    <3> HIDE DEF w, s
    <3> QED BY <3>3, <3>4, <3>5, <3>6 DEF TypeOK
  <2>2. CASE ~ HasQuorum(n)
    BY <1>3, <2>2 DEF TypeOK, EnterSeal, Phases
  <2> QED BY <2>1, <2>2
<1>4. ASSUME NEW n \in Node, Complete(n) PROVE TypeOK'
  BY <1>4 DEF TypeOK, Complete, StartEpoch, Phases, Epochs
<1>5. ASSUME NEW n \in Node, Stall(n) PROVE TypeOK'
  BY <1>5 DEF TypeOK, Stall, StartEpoch, Phases, Epochs
<1>6. ASSUME NEW n \in Node, NEW e \in Epochs, NEW s \in Score, LocalSolutionReady(n, e, s)
      PROVE  TypeOK'
  <2>1. [node |-> n, score |-> s] \in Commits
    BY DEF Commits
  <2>2. /\ AddCommit(commits[n], [node |-> n, score |-> s]) \in SUBSET Commits
        /\ OnePerNode(AddCommit(commits[n], [node |-> n, score |-> s]))
    BY <1>0, <2>1, AddCommitType
  <2>3. /\ commits' \in [Node -> SUBSET Commits]
        /\ \A p \in Node : OnePerNode(commits'[p])
    BY <1>0, <1>6, <2>2 DEF LocalSolutionReady
  <2>4. /\ solution' \in [Node -> Score \cup {0}] /\ solving' \in [Node -> SUBSET Epochs]
        /\ sent' \subseteq [epoch : Epochs, node : Node, score : Score]
    BY <1>0, <1>6 DEF LocalSolutionReady, TypeOK
  <2> QED BY <1>6, <2>3, <2>4 DEF TypeOK, LocalSolutionReady, OnePerNode
<1>7. ASSUME NEW n \in Node, NEW m \in sent, CommitReceived(n, m) PROVE TypeOK'
  <2>1. [node |-> m.node, score |-> m.score] \in Commits
    BY DEF Commits, TypeOK
  <2>2. /\ AddCommit(commits[n], [node |-> m.node, score |-> m.score]) \in SUBSET Commits
        /\ OnePerNode(AddCommit(commits[n], [node |-> m.node, score |-> m.score]))
    BY <1>0, <2>1, AddCommitType
  <2>3. /\ commits' \in [Node -> SUBSET Commits]
        /\ \A p \in Node : OnePerNode(commits'[p])
    BY <1>0, <1>7, <2>2 DEF CommitReceived
  <2> QED BY <1>7, <2>3 DEF TypeOK, CommitReceived, OnePerNode
<1>8. ASSUME NEW n \in Node, NEW p \in Node, PeerJoined(n, p) PROVE TypeOK'
  BY <1>8 DEF TypeOK, PeerJoined
<1>9. ASSUME NEW n \in Node, NEW p \in Node, PeerLeft(n, p) PROVE TypeOK'
  BY <1>9 DEF TypeOK, PeerLeft
<1>10. ASSUME NEW n \in Node, Restart(n) PROVE TypeOK'
  BY <1>10 DEF TypeOK, Restart, StartEpoch, Phases, Epochs
<1>11. ASSUME UNCHANGED vars PROVE TypeOK'
  BY <1>11 DEF TypeOK, vars
<1> QED BY <1>1, <1>2, <1>3, <1>4, <1>5, <1>6, <1>7, <1>8, <1>9, <1>10, <1>11
        DEF Next, Expire, Command

\* Every step keeps what collectors hold backed by a commit that was sent.
LEMMA GenuineStep == TypeOK /\ CommitsGenuine /\ [Next]_vars => CommitsGenuine'
<1> SUFFICES ASSUME TypeOK, CommitsGenuine, [Next]_vars,
                    NEW p \in Node, NEW c \in commits'[p]
             PROVE  [epoch |-> epoch'[p], node |-> c.node, score |-> c.score] \in sent'
  BY DEF CommitsGenuine
<1>0. /\ epoch \in [Node -> Epochs] /\ commits \in [Node -> SUBSET Commits]
      /\ c \in commits[p] => [epoch |-> epoch[p], node |-> c.node, score |-> c.score] \in sent
  BY DEF TypeOK, CommitsGenuine
<1>1. ASSUME NEW n \in Node, NEW e, StartEpoch(n, e), sent' = sent
      PROVE  [epoch |-> epoch'[p], node |-> c.node, score |-> c.score] \in sent'
  BY <1>0, <1>1 DEF StartEpoch
<1>2. ASSUME NEW n \in Node, NEW e \in Epochs, NEW s \in Score, LocalSolutionReady(n, e, s)
      PROVE  [epoch |-> epoch'[p], node |-> c.node, score |-> c.score] \in sent'
  <2> DEFINE own == [node |-> n, score |-> s]
  <2>1. sent \subseteq sent' /\ epoch' = epoch
    BY <1>2 DEF LocalSolutionReady
  <2>2. CASE c \in commits[p]
    BY <1>0, <2>1, <2>2
  <2>3. CASE c \notin commits[p]
    <3>1. p = n /\ e = epoch[n] /\ c \in AddCommit(commits[n], own)
      BY <1>0, <1>2, <2>3 DEF LocalSolutionReady
    <3>2. c = own
      BY <3>1, <2>3 DEF AddCommit
    <3>3. [epoch |-> e, node |-> n, score |-> s] \in sent'
      BY <1>2, <3>1 DEF LocalSolutionReady
    <3> QED BY <2>1, <3>1, <3>2, <3>3
  <2> QED BY <2>2, <2>3
<1>3. ASSUME NEW n \in Node, NEW m \in sent, CommitReceived(n, m)
      PROVE  [epoch |-> epoch'[p], node |-> c.node, score |-> c.score] \in sent'
  <2> DEFINE told == [node |-> m.node, score |-> m.score]
  <2>1. sent' = sent /\ epoch' = epoch
    BY <1>3 DEF CommitReceived
  <2>2. CASE c \in commits[p]
    BY <1>0, <2>1, <2>2
  <2>3. CASE c \notin commits[p]
    <3>1. p = n /\ m.epoch = epoch[n] /\ c \in AddCommit(commits[n], told)
      BY <1>0, <1>3, <2>3 DEF CommitReceived
    <3>2. c = told
      BY <3>1, <2>3 DEF AddCommit
    <3>3. m = [epoch |-> m.epoch, node |-> m.node, score |-> m.score]
      BY DEF TypeOK
    <3> QED BY <2>1, <3>1, <3>2, <3>3
  <2> QED BY <2>2, <2>3
<1>4. CASE UNCHANGED <<epoch, commits, sent>>
  BY <1>0, <1>4
<1> QED
  BY <1>1, <1>2, <1>3, <1>4 DEF Next, vars, Expire, Command, EnterMine, EnterCommit,
     EnterSeal, Complete, Stall, PeerJoined, PeerLeft, Restart

\* Every step keeps the solution with the collector's own commit until the seal.
LEMMA KeptStep == TypeOK /\ KeptSolution /\ [Next]_vars => KeptSolution'
<1> SUFFICES ASSUME TypeOK, KeptSolution, [Next]_vars,
                    NEW p \in Node, phase'[p] # "Seal", NEW c \in commits'[p], c.node = p
             PROVE  solution'[p] # 0
  BY DEF KeptSolution
<1>0. /\ commits \in [Node -> SUBSET Commits] /\ phase \in [Node -> Phases]
      /\ solution \in [Node -> Score \cup {0}] /\ 0 \notin Score
      /\ phase[p] # "Seal" /\ c \in commits[p] => solution[p] # 0
  BY EpochCoordinatorAssumption DEF TypeOK, KeptSolution
<1>1. ASSUME NEW n \in Node, NEW e, StartEpoch(n, e)
      PROVE  solution'[p] # 0
  BY <1>0, <1>1 DEF StartEpoch
<1>2. ASSUME NEW n \in Node, EnterMine(n) \/ EnterCommit(n) \/ EnterSeal(n)
      PROVE  solution'[p] # 0
  BY <1>0, <1>2 DEF EnterMine, EnterCommit, EnterSeal
<1>3. ASSUME NEW n \in Node, NEW e \in Epochs, NEW s \in Score, LocalSolutionReady(n, e, s)
      PROVE  solution'[p] # 0
  BY <1>0, <1>3 DEF LocalSolutionReady
<1>4. ASSUME NEW n \in Node, NEW m \in sent, CommitReceived(n, m) PROVE solution'[p] # 0
  BY <1>0, <1>4 DEF CommitReceived, AddCommit
<1>5. CASE UNCHANGED <<phase, commits, solution>>
  BY <1>0, <1>5
<1> QED
  BY <1>1, <1>2, <1>3, <1>4, <1>5 DEF Next, vars, Expire, Command, Complete, Stall,
     PeerJoined, PeerLeft, Restart

\* Every step keeps a block with every claim to have won.
LEMMA BuildsStep == TypeOK /\ KeptSolution /\ WinnerBuilds /\ [Next]_vars => WinnerBuilds'
<1> SUFFICES ASSUME TypeOK, KeptSolution, WinnerBuilds, [Next]_vars PROVE WinnerBuilds'
  OBVIOUS
<1>1. CASE sealed' = sealed
  BY <1>1 DEF WinnerBuilds
<1>2. ASSUME NEW n \in Node, EnterSeal(n), HasQuorum(n) PROVE WinnerBuilds'
  <2> DEFINE w == Winner(commits[n])
             s == [epoch |-> epoch[n], by |-> n, view |-> peers[n], winner |-> w.node,
                   score |-> w.score, built |-> w.node = n /\ solution[n] # 0]
  <2>1. w \in commits[n]
    BY <1>2, QuorumCommits
  <2>2. w.node = n => solution[n] # 0
    BY <1>2, <2>1 DEF EnterSeal, KeptSolution
  <2>3. s.winner = s.by => s.built
    <3> HIDE DEF w
    <3> QED BY <2>2
  <2>4. sealed' = sealed \cup {s}
    BY <1>2 DEF EnterSeal
  <2> HIDE DEF s
  <2> QED BY <2>3, <2>4 DEF WinnerBuilds
<1> QED
  BY <1>1, <1>2 DEF Next, vars, Expire, Command, EnterMine, EnterCommit, EnterSeal, Complete,
     Stall, LocalSolutionReady, CommitReceived, PeerJoined, PeerLeft, Restart

\* What matters to the commits of an epoch, of a step after which nobody has
\* restarted yet: it moves a node ahead, lets it mine, commits once, or does
\* nothing to them.
LEMMA CommitSteps ==
  ASSUME TypeOK, [Next]_vars, restarts' = 0
  PROVE  /\ restarts = 0
         /\ \/ \E n \in Node, e \in Epochs : e > epoch[n] /\ StartEpoch(n, e)
                                     /\ UNCHANGED <<solving, sent, sealed>>
            \/ \E n \in Node : EnterMine(n) \/ EnterCommit(n) \/ EnterSeal(n)
            \/ \E n \in Node, e \in Epochs, s \in Score : LocalSolutionReady(n, e, s)
            \/ UNCHANGED <<epoch, phase, solving, sent, sealed>>
<1>0. restarts \in Nat /\ epoch \in [Node -> Epochs] /\ MaxEpoch \in Nat
  BY EpochCoordinatorAssumption DEF TypeOK
<1>1. \A n \in Node : ~ Restart(n)
  BY <1>0 DEF Restart
<1>2. restarts = 0
  BY <1>1 DEF Next, vars, Expire, Command, EnterMine, EnterCommit, EnterSeal, Complete, Stall,
     LocalSolutionReady, CommitReceived, PeerJoined, PeerLeft
<1>3. ASSUME NEW n \in Node, Complete(n) \/ Stall(n)
      PROVE  /\ epoch[n] + 1 \in Epochs /\ epoch[n] + 1 > epoch[n] /\ StartEpoch(n, epoch[n] + 1)
             /\ UNCHANGED <<solving, sent, sealed>>
  BY <1>0, <1>3 DEF Complete, Stall, Epochs
<1> QED BY <1>1, <1>2, <1>3 DEF Next, vars, Expire, Command, CommitReceived, PeerJoined, PeerLeft

\* Every step but a restart keeps nodes from committing to the same epoch twice.
LEMMA OnceStep == TypeOK /\ NeverRestarted /\ [Next]_vars => NeverRestarted'
<1> SUFFICES ASSUME TypeOK, NeverRestarted, [Next]_vars, restarts' = 0
             PROVE  (NoneAhead /\ OwedOnce /\ OneCommit)'
  BY DEF NeverRestarted
<1>0. /\ NoneAhead /\ OwedOnce /\ OneCommit
      /\ epoch \in [Node -> Epochs] /\ phase \in [Node -> Phases] /\ Epochs \subseteq Nat
      /\ solving \in [Node -> SUBSET Epochs]
      /\ \A m \in sent : m.node \in Node /\ m.epoch \in Nat
  BY CommitSteps DEF NeverRestarted, TypeOK, Epochs
<1>1. ASSUME NEW n \in Node, NEW e \in Epochs, e > epoch[n], StartEpoch(n, e),
             UNCHANGED <<solving, sent, sealed>>
      PROVE  (NoneAhead /\ OwedOnce /\ OneCommit)'
  <2>1. /\ epoch' = [epoch EXCEPT ![n] = e] /\ phase' = [phase EXCEPT ![n] = "Salt"]
        /\ epoch[n] \in Nat /\ e \in Nat
    BY <1>0, <1>1 DEF StartEpoch
  <2>2. NoneAhead'
    BY <1>0, <1>1, <2>1 DEF NoneAhead
  <2>3. OwedOnce'
    <3> SUFFICES ASSUME NEW p \in Node, NEW f \in solving[p]
                 PROVE  /\ f <= epoch'[p] /\ (f = epoch'[p] => phase'[p] # "Salt")
                        /\ \A m \in sent : ~ (m.epoch = f /\ m.node = p)
      BY <1>1 DEF OwedOnce
    <3>1. /\ f <= epoch[p] /\ (f = epoch[p] => phase[p] # "Salt") /\ f \in Nat
          /\ \A m \in sent : ~ (m.epoch = f /\ m.node = p)
      BY <1>0 DEF OwedOnce
    <3> QED BY <1>0, <1>1, <2>1, <3>1
  <2>4. OneCommit'
    BY <1>0, <1>1 DEF OneCommit
  <2> QED BY <2>2, <2>3, <2>4
<1>2. ASSUME NEW n \in Node, EnterMine(n) PROVE (NoneAhead /\ OwedOnce /\ OneCommit)'
  <2>1. /\ phase[n] = "Salt" /\ phase' = [phase EXCEPT ![n] = "Mine"]
        /\ solving' = [solving EXCEPT ![n] = @ \cup {epoch[n]}] /\ UNCHANGED <<epoch, sent>>
    BY <1>2 DEF EnterMine
  <2>2. NoneAhead'
    BY <1>0, <2>1 DEF NoneAhead
  <2>3. OwedOnce'
    <3> SUFFICES ASSUME NEW p \in Node, NEW f \in solving'[p]
                 PROVE  /\ f <= epoch[p] /\ (f = epoch[p] => phase'[p] # "Salt")
                        /\ \A m \in sent : ~ (m.epoch = f /\ m.node = p)
      BY <2>1 DEF OwedOnce
    <3>1. CASE f \in solving[p]
      <4>1. /\ f <= epoch[p] /\ (f = epoch[p] => phase[p] # "Salt")
            /\ \A m \in sent : ~ (m.epoch = f /\ m.node = p)
        BY <1>0, <3>1 DEF OwedOnce
      <4> QED BY <1>0, <2>1, <4>1
    <3>2. CASE f \notin solving[p]
      <4>1. p = n /\ f = epoch[n]
        BY <1>0, <2>1, <3>2
      <4>2. \A m \in sent : ~ (m.epoch = epoch[n] /\ m.node = n)
        BY <1>0, <2>1 DEF NoneAhead
      <4> QED BY <1>0, <2>1, <4>1, <4>2
    <3> QED BY <3>1, <3>2
  <2>4. OneCommit'
    BY <1>0, <2>1 DEF OneCommit
  <2> QED BY <2>2, <2>3, <2>4
<1>3. ASSUME NEW n \in Node, EnterCommit(n) \/ EnterSeal(n)
      PROVE  (NoneAhead /\ OwedOnce /\ OneCommit)'
  <2>1. /\ UNCHANGED <<epoch, solving, sent>> /\ phase[n] # "Salt"
        /\ \E new \in {"Commit", "Seal"} : phase' = [phase EXCEPT ![n] = new]
    BY <1>3 DEF EnterCommit, EnterSeal
  <2>2. \A p \in Node : phase[p] # "Salt" => phase'[p] # "Salt"
    BY <1>0, <2>1
  <2> QED BY <1>0, <2>1, <2>2 DEF NoneAhead, OwedOnce, OneCommit
<1>4. ASSUME NEW n \in Node, NEW e \in Epochs, NEW s \in Score, LocalSolutionReady(n, e, s)
      PROVE  (NoneAhead /\ OwedOnce /\ OneCommit)'
  <2> DEFINE new == [epoch |-> e, node |-> n, score |-> s]
  <2>1. /\ e \in solving[n] /\ solving' = [solving EXCEPT ![n] = @ \ {e}]
        /\ UNCHANGED <<epoch, phase>>
        /\ sent' = sent \/ sent' = sent \cup {new}
    BY <1>4 DEF LocalSolutionReady
  <2>2. /\ e <= epoch[n] /\ (e = epoch[n] => phase[n] # "Salt")
        /\ \A m \in sent : ~ (m.epoch = e /\ m.node = n)
    BY <1>0, <2>1 DEF OwedOnce
  <2>3. NoneAhead'
    BY <1>0, <2>1, <2>2 DEF NoneAhead
  <2>4. OwedOnce'
    <3> SUFFICES ASSUME NEW p \in Node, NEW f \in solving'[p]
                 PROVE  /\ f <= epoch[p] /\ (f = epoch[p] => phase[p] # "Salt")
                        /\ \A m \in sent' : ~ (m.epoch = f /\ m.node = p)
      BY <2>1 DEF OwedOnce
    <3>1. f \in solving[p] /\ ~ (p = n /\ f = e)
      BY <1>0, <2>1
    <3> QED BY <1>0, <2>1, <3>1 DEF OwedOnce
  <2>5. OneCommit'
    BY <1>0, <2>1, <2>2 DEF OneCommit
  <2> QED BY <2>3, <2>4, <2>5
<1>5. CASE UNCHANGED <<epoch, phase, solving, sent, sealed>>
  BY <1>0, <1>5 DEF NoneAhead, OwedOnce, OneCommit
<1> QED BY <1>1, <1>2, <1>3, <1>4, <1>5, CommitSteps

\* A full set of commits is not added to: its best stays the best.
LEMMA BestStays ==
  ASSUME TypeOK, OwedOnce, NEW m, BestOfAll(m),
         NEW n \in Node, NEW e \in Epochs, NEW s \in Score, LocalSolutionReady(n, e, s)
  PROVE  BestOfAll(m)'
<1> DEFINE new == [epoch |-> e, node |-> n, score |-> s]
<1>1. e \in solving[n] /\ (sent' = sent \/ sent' = sent \cup {new})
  BY DEF LocalSolutionReady
<1>2. PICK k \in sent : k.node = n /\ k.epoch = m.epoch
  BY DEF BestOfAll
<1>3. e # m.epoch
  BY <1>1, <1>2 DEF OwedOnce
<1> QED BY <1>1, <1>3 DEF BestOfAll

\* Who seals with the whole mesh, of up to three nodes, has chosen the best of all.
LEMMA SealedBest ==
  ASSUME TypeOK, CommitsGenuine, OneCommit, Cardinality(Node) <= 3,
         NEW n \in Node, HasQuorum(n), peers[n] = Node
  PROVE  BestOfAll([epoch |-> epoch[n], node |-> Winner(commits[n]).node,
                    score |-> Winner(commits[n]).score])
<1> DEFINE w == Winner(commits[n])
           best == [epoch |-> epoch[n], node |-> w.node, score |-> w.score]
<1>1. /\ commits[n] \in SUBSET Commits /\ w \in commits[n]
      /\ \A d \in commits[n] : Beats(w, d)
      /\ \A p \in Node : \E c \in commits[n] : c.node = p
  BY QuorumCommits
<1>2. \A c \in commits[n] : [epoch |-> epoch[n], node |-> c.node, score |-> c.score] \in sent
  BY DEF CommitsGenuine
<1> HIDE DEF w
<1>3. best \in sent
  BY <1>1, <1>2
<1>4. \A p \in Node : \E k \in sent : k.node = p /\ k.epoch = best.epoch
  <2> SUFFICES ASSUME NEW p \in Node PROVE \E k \in sent : k.node = p /\ k.epoch = epoch[n]
    OBVIOUS
  <2>1. PICK c \in commits[n] : c.node = p
    BY <1>1
  <2> QED BY <1>2, <2>1
<1>5. \A k \in sent : k.epoch = best.epoch => Beats(best, k)
  <2> SUFFICES ASSUME NEW k \in sent, k.epoch = epoch[n] PROVE Beats(best, k)
    OBVIOUS
  <2>1. PICK c \in commits[n] : c.node = k.node
    BY <1>1 DEF TypeOK
  <2>2. [epoch |-> epoch[n], node |-> c.node, score |-> c.score] = k
    BY <1>2, <2>1 DEF OneCommit
  <2>3. c.score = k.score /\ Beats(w, c)
    BY <1>1, <2>2
  <2> QED BY <2>1, <2>3 DEF Beats
<1> QED BY <1>3, <1>4, <1>5 DEF w, BestOfAll

\* Every step but a restart keeps the choices of those that counted everybody.
LEMMA CountedStep ==
  TypeOK /\ CommitsGenuine /\ NeverRestarted /\ SmallMesh /\ [Next]_vars => SmallMesh'
<1> SUFFICES ASSUME TypeOK, CommitsGenuine, NeverRestarted, SmallMesh, [Next]_vars,
                    restarts' = 0, Cardinality(Node) <= 3
             PROVE  CountedAll'
  BY DEF SmallMesh
<1>0. OwedOnce /\ OneCommit /\ CountedAll
  BY CommitSteps DEF NeverRestarted, SmallMesh
<1>1. CASE UNCHANGED <<sent, sealed>>
  BY <1>0, <1>1 DEF CountedAll, BestOfAll
<1>2. ASSUME NEW n \in Node, EnterSeal(n) PROVE CountedAll'
  <2> DEFINE w == Winner(commits[n])
             t == [epoch |-> epoch[n], by |-> n, view |-> peers[n], winner |-> w.node,
                   score |-> w.score, built |-> w.node = n /\ solution[n] # 0]
  <2>1. sent' = sent /\ (sealed' = sealed \/ (HasQuorum(n) /\ sealed' = sealed \cup {t}))
    <3>1. CASE HasQuorum(n)  BY <1>2, <3>1 DEF EnterSeal
    <3>2. CASE ~ HasQuorum(n)  BY <1>2, <3>2 DEF EnterSeal
    <3> QED BY <3>1, <3>2
  <2> HIDE DEF w, t
  <2> SUFFICES ASSUME NEW s \in sealed', s.view = Node
               PROVE  BestOfAll([epoch |-> s.epoch, node |-> s.winner, score |-> s.score])
    BY <2>1 DEF CountedAll, BestOfAll
  <2>2. CASE s \in sealed
    BY <1>0, <2>2 DEF CountedAll
  <2>3. CASE s \notin sealed
    <3>1. HasQuorum(n) /\ s = t
      BY <2>1, <2>3
    <3>2. peers[n] = Node
      BY <3>1 DEF t
    <3>3. BestOfAll([epoch |-> epoch[n], node |-> w.node, score |-> w.score])
      BY <1>0, <3>1, <3>2, SealedBest DEF w
    <3>4. s.epoch = epoch[n] /\ s.winner = w.node /\ s.score = w.score
      BY <3>1 DEF t
    <3> QED BY <3>3, <3>4
  <2> QED BY <2>2, <2>3
<1>3. ASSUME NEW n \in Node, NEW e \in Epochs, NEW s \in Score, LocalSolutionReady(n, e, s)
      PROVE  CountedAll'
  <2>1. sealed' = sealed
    BY <1>3 DEF LocalSolutionReady
  <2> SUFFICES ASSUME NEW r \in sealed, r.view = Node
               PROVE  BestOfAll([epoch |-> r.epoch, node |-> r.winner, score |-> r.score])'
    BY <2>1 DEF CountedAll
  <2> DEFINE m == [epoch |-> r.epoch, node |-> r.winner, score |-> r.score]
  <2>2. BestOfAll(m)
    BY <1>0 DEF CountedAll
  <2> HIDE DEF m
  <2>3. BestOfAll(m)'
    BY <1>0, <1>3, <2>2, BestStays
  <2> QED BY <2>3 DEF m
<1> QED BY <1>1, <1>2, <1>3, CommitSteps DEF EnterMine, EnterCommit

\* Two that both beat each other are the same.
LEMMA BestAgree ==
  ASSUME TypeOK, CountedAll, NEW s \in sealed, NEW t \in sealed,
         s.epoch = t.epoch, s.view = Node, t.view = Node
  PROVE  s.winner = t.winner /\ s.score = t.score
<1> DEFINE a == [epoch |-> s.epoch, node |-> s.winner, score |-> s.score]
           b == [epoch |-> t.epoch, node |-> t.winner, score |-> t.score]
<1>1. BestOfAll(a) /\ BestOfAll(b)
  BY DEF CountedAll
<1>2. Beats(a, b) /\ Beats(b, a)
  BY <1>1 DEF BestOfAll
<1>3. s.winner \in Nat /\ t.winner \in Nat /\ s.score \in Nat /\ t.score \in Nat
  BY EpochCoordinatorAssumption DEF TypeOK
<1> QED BY <1>2, <1>3 DEF Beats

-----------------------------------------------------------------------------
(* The theorems. *)

\* Nothing has been sent, collected or sealed in the beginning.
LEMMA InvInit == Init => EInv
<1> SUFFICES ASSUME Init PROVE EInv
  OBVIOUS
<1>1. TypeOK
  BY EpochCoordinatorAssumption DEF Init, TypeOK, Epochs, Phases
<1> QED
  BY <1>1 DEF Init, EInv, CommitsGenuine, KeptSolution, WinnerBuilds, NeverRestarted, NoneAhead,
     OwedOnce, OneCommit, SmallMesh, CountedAll

\* Every step keeps the invariant.
LEMMA InvStep == EInv /\ [Next]_vars => EInv'
  BY TypeStep, GenuineStep, KeptStep, BuildsStep, OnceStep, CountedStep DEF EInv

\* The inductive invariant holds throughout.
THEOREM CoordinatorInvariant == Spec => []EInv
  BY InvInit, InvStep, PTL DEF Spec

\* A collector holds only what its node committed, with that score, for the epoch
\* its owner is in, and who declares itself the winner has the solution to build
\* from: for any number of nodes, epochs and restarts, and commits that come
\* late, early, again or never (mod.rs, handle_command and handle_seal).
THEOREM CoordinatorsSound == Spec => []CommitsSound
<1>1. EInv => CommitsSound
  BY DEF EInv, CommitsSound
<1> QED BY <1>1, CoordinatorInvariant, PTL

\* As long as nobody restarted, the nodes of a mesh of up to three that sealed an
\* epoch with the whole mesh for peers agree (commit.rs, select_winner): for any
\* scores, any solver and any order and loss of commits.
THEOREM CoordinatorsAgree == Spec => []UnanimousAgreement
<1>1. EInv => UnanimousAgreement
  BY BestAgree DEF EInv, SmallMesh, UnanimousAgreement
<1> QED BY <1>1, CoordinatorInvariant, PTL

-----------------------------------------------------------------------------
(* Mempool: functions defined by recursion over the places of a sequence. *)

\* The equations of a recursion have a solution: at the first number of places
\* for which they had none, the solution for one place less could be extended.
LEMMA RecursionExists ==
  ASSUME NEW X, NEW b \in X, NEW n \in Nat, NEW F \in [1..n -> [X -> X]]
  PROVE  \E f \in [0..n -> X] : f[0] = b /\ \A i \in 1..n : f[i] = F[i][f[i - 1]]
<1> DEFINE Solves(m, f) == f[0] = b /\ \A i \in 1..m : f[i] = F[i][f[i - 1]]
           Bad == {m \in 0..n : ~ \E f \in [0..m -> X] : Solves(m, f)}
<1>0. n \in 0..n
  OBVIOUS
<1> SUFFICES ASSUME Bad # {} PROVE FALSE
  BY <1>0
<1>1. PICK m \in Bad : \A k \in Bad : m <= k
  <2>1. Bad \in SUBSET Nat
    OBVIOUS
  <2> QED BY <2>1, LeastExists
<1>2. CASE m = 0
  <2>1. [i \in 0..0 |-> b] \in [0..0 -> X] /\ Solves(0, [i \in 0..0 |-> b])
    OBVIOUS
  <2> QED BY <1>1, <1>2, <2>1
<1>3. CASE m # 0
  <2>1. m \in 1..n /\ m - 1 \in 0..n /\ m - 1 \notin Bad
    <3>1. m \in 0..n
      OBVIOUS
    <3> HIDE DEF Bad
    <3> QED BY <1>1, <1>3, <3>1
  <2>2. PICK f \in [0..(m - 1) -> X] : Solves(m - 1, f)
    BY <2>1
  <2> DEFINE g == [i \in 0..m |-> IF i = m THEN F[m][f[m - 1]] ELSE f[i]]
  <2>3. f[m - 1] \in X /\ F[m][f[m - 1]] \in X
    BY <2>1
  <2>4. g \in [0..m -> X]
    BY <2>1, <2>3
  <2>5. g[0] = b
    BY <2>1, <2>2
  <2>6. ASSUME NEW i \in 1..m PROVE g[i] = F[i][g[i - 1]]
    <3>1. CASE i = m
      BY <2>1, <3>1
    <3>2. CASE i # m
      <4>1. i \in 1..(m - 1) /\ i - 1 \in 0..m /\ i - 1 # m /\ i \in 0..m
        BY <2>1, <3>2
      <4>2. f[i] = F[i][f[i - 1]]
        BY <2>2, <4>1
      <4> QED BY <4>1, <4>2, <3>2
    <3> QED BY <3>1, <3>2
  <2> QED BY <1>1, <2>4, <2>5, <2>6
<1> QED BY <1>2, <1>3

\* What every step keeps holds at every place.
LEMMA RecursionKeeps ==
  ASSUME NEW X, NEW n \in Nat, NEW f, f[0] \in X,
         \A i \in 1..n : f[i - 1] \in X => f[i] \in X
  PROVE  \A i \in 0..n : f[i] \in X
<1> DEFINE Bad == {i \in 0..n : f[i] \notin X}
<1> SUFFICES ASSUME Bad # {} PROVE FALSE
  OBVIOUS
<1>1. PICK m \in Bad : \A k \in Bad : m <= k
  <2>1. Bad \in SUBSET Nat
    OBVIOUS
  <2> QED BY <2>1, LeastExists
<1>2. m \in 1..n /\ m - 1 \in 0..n /\ m - 1 \notin Bad
  BY <1>1
<1> QED BY <1>1, <1>2

-----------------------------------------------------------------------------
(* Mempool: the effect of a block. *)

Outcome(s) == [bal : [Account -> Nat], applied : SUBSET ToSet(s)]

\* Paying moves money between accounts and leaves none of them overdrawn.
LEMMA PayTyped ==
  ASSUME NEW b \in [Account -> Nat], NEW t \in Tx
  PROVE  Pay(b, t) \in [Account -> Nat]
<1>1. From[t] \in Account /\ To[t] \in Account /\ Amount[t] \in Nat /\ Fee[t] \in Nat
  BY MempoolAssumption
<1> DEFINE d == [b EXCEPT ![From[t]] = @ - Amount[t] - Fee[t]]
<1>2. CASE CanPay(b, t)
  <2>1. b[From[t]] - Amount[t] - Fee[t] \in Nat
    BY <1>1, <1>2 DEF CanPay
  <2>2. d \in [Account -> Nat]
    BY <1>1, <2>1
  <2>3. [d EXCEPT ![To[t]] = @ + Amount[t]] \in [Account -> Nat]
    BY <1>1, <2>2
  <2> QED BY <1>2, <2>3 DEF Pay
<1>3. CASE ~ CanPay(b, t)
  BY <1>3 DEF Pay
<1> QED BY <1>2, <1>3

\* Executing a block yields balances, and transactions of the block.
LEMMA RunTyped ==
  ASSUME NEW s \in Seq(Tx)
  PROVE  bal \in [Account -> Nat] => Run(s) \in Outcome(s)
<1>0. SUFFICES ASSUME bal \in [Account -> Nat] PROVE Run(s) \in Outcome(s)
  OBVIOUS
<1> DEFINE Y == Outcome(s)
           len == Len(s)
           start == [bal |-> bal, applied |-> {}]
           step(r, i) == [bal |-> Pay(r.bal, s[i]),
                          applied |-> IF CanPay(r.bal, s[i]) THEN r.applied \cup {s[i]} ELSE r.applied]
           Eq(f) == f = [i \in 0..len |-> IF i = 0 THEN start ELSE step(f[i - 1], i)]
           Steps == [i \in 1..len |-> [r \in Y |-> step(r, i)]]
<1>1. len \in Nat /\ start \in Y
  BY <1>0 DEF Outcome
<1>2. ASSUME NEW i \in 1..len, NEW r \in Y PROVE step(r, i) \in Y
  <2>1. s[i] \in Tx /\ s[i] \in ToSet(s) /\ r.bal \in [Account -> Nat] /\ r.applied \in SUBSET ToSet(s)
    BY DEF Outcome, ToSet
  <2>2. Pay(r.bal, s[i]) \in [Account -> Nat]
    BY <2>1, PayTyped
  <2> QED BY <2>1, <2>2 DEF Outcome
<1>3. Steps \in [1..len -> [Y -> Y]]
  BY <1>2
<1>4. PICK f \in [0..len -> Y] : f[0] = start /\ \A i \in 1..len : f[i] = Steps[i][f[i - 1]]
  <2> HIDE DEF Y, Steps, start, len, step, Eq
  <2> QED BY <1>1, <1>3, RecursionExists
<1>5. ASSUME NEW i \in 0..len PROVE f[i] = IF i = 0 THEN start ELSE step(f[i - 1], i)
  <2>1. CASE i = 0
    BY <1>4, <2>1
  <2>2. CASE i # 0
    <3>1. i \in 1..len /\ i - 1 \in 0..len
      BY <1>1, <2>2
    <3>2. f[i] = Steps[i][f[i - 1]] /\ f[i - 1] \in Y
      BY <1>4, <3>1
    <3>3. Steps[i][f[i - 1]] = step(f[i - 1], i)
      BY <3>1, <3>2
    <3> QED BY <2>2, <3>2, <3>3
  <2> QED BY <2>1, <2>2
<1>6. Eq(f)
  <2> HIDE DEF step, start, Y, len, Steps
  <2> QED BY <1>4, <1>5
<1> DEFINE g == CHOOSE h : Eq(h)
<1>7. Eq(g)
  BY <1>6, Zenon
<1>8. Run(s) = g[len]
  BY DEF Run
<1>9. g[0] \in Y /\ \A i \in 1..len : g[i - 1] \in Y => g[i] \in Y
  <2>1. g[0] = start
    <3> HIDE DEF g
    <3> QED BY <1>1, <1>7
  <2>2. ASSUME NEW i \in 1..len, g[i - 1] \in Y PROVE g[i] \in Y
    <3>1. g[i] = step(g[i - 1], i)
      <4> HIDE DEF g
      <4>1. i \in 0..len /\ i # 0
        BY <1>1
      <4> QED BY <1>7, <4>1
    <3> QED BY <1>2, <2>2, <3>1
  <2> QED BY <1>1, <2>1, <2>2
<1>10. \A i \in 0..len : g[i] \in Y
  <2> HIDE DEF g, Y, len
  <2> QED BY <1>1, <1>9, RecursionKeeps
<1>11. len \in 0..len
  BY <1>1
<1> HIDE DEF g, len, step, Eq, start, Steps
<1> QED BY <1>8, <1>10, <1>11

-----------------------------------------------------------------------------
(* Mempool: what a template is made of. *)

\* A list without repetitions of members of T.
Lists(s, T) == s \in Seq(T) /\ IsInjective(s)

\* It has as many members as places.
LEMMA ListSize ==
  ASSUME NEW T, NEW s, Lists(s, T)
  PROVE  /\ ToSet(s) \subseteq T
         /\ IsFiniteSet(ToSet(s)) /\ Cardinality(ToSet(s)) = Len(s) /\ Len(s) \in Nat
<1>1. s \in Seq(T) /\ IsInjective(s) /\ Len(s) \in Nat /\ DOMAIN s = 1..Len(s)
  BY DEF Lists
<1>2. ToSet(s) = {s[i] : i \in 1..Len(s)} /\ ToSet(s) \subseteq T
  BY <1>1 DEF ToSet
<1>3. s \in Bijection(1..Len(s), ToSet(s))
  <2>1. s \in [1..Len(s) -> ToSet(s)]
    BY <1>1, <1>2
  <2>2. \A t \in ToSet(s) : \E i \in 1..Len(s) : s[i] = t
    BY <1>2
  <2> QED BY <1>1, <2>1, <2>2 DEF Bijection, Injection, Surjection
<1>4. IsFiniteSet(1..Len(s)) /\ Cardinality(1..Len(s)) = Len(s)
  BY <1>1, FS_Interval
<1>5. ExistsBijection(1..Len(s), ToSet(s))
  BY <1>3 DEF ExistsBijection
<1> QED BY <1>1, <1>2, <1>4, <1>5, FS_Bijection

\* The sequences of a finite set have all of it, once.
LEMMA AllInOrder ==
  ASSUME NEW T, IsFiniteSet(T), NEW s \in SetToSeqs(T)
  PROVE  Lists(s, T) /\ ToSet(s) = T /\ Len(s) = Cardinality(T)
<1> DEFINE n == Cardinality(T)
<1>1. n \in Nat
  BY FS_CardinalityType
<1>2. s \in [1..n -> T] /\ \A i, j \in 1..n : i # j => s[i] # s[j]
  BY DEF SetToSeqs
<1>3. s \in Seq(T) /\ Len(s) = n /\ DOMAIN s = 1..n
  <2> HIDE DEF n
  <2> QED BY <1>1, <1>2
<1>4. s \in Injection(1..n, T)
  BY <1>2, <1>3 DEF Injection, IsInjective
<1>5. Cardinality(1..n) = n
  BY <1>1, FS_Interval
<1>6. s \in Surjection(1..n, T)
  BY <1>4, <1>5, FS_Injection
<1>7. ToSet(s) = T
  BY <1>3, <1>6 DEF Surjection, ToSet
<1> QED BY <1>3, <1>4, <1>7 DEF Lists, Injection

\* What is taken from the front: its length, and what stays behind it.
LEMMA TakenFrom ==
  ASSUME NEW T, IsFiniteSet(T), NEW s \in SetToSeqs(T), NEW n \in Nat
  PROVE  /\ Lists(Take(s, n), T)
         /\ Len(Take(s, n)) = IF n < Cardinality(T) THEN n ELSE Cardinality(T)
         /\ \A u \in ToSet(Take(s, n)), t \in T \ ToSet(Take(s, n)) :
              \E i, j \in DOMAIN s : i < j /\ s[i] = u /\ s[j] = t
         /\ T \ ToSet(Take(s, n)) # {} => n < Cardinality(T)
<1> DEFINE h == Take(s, n)
           m == IF n < Len(s) THEN n ELSE Len(s)
<1>1. Lists(s, T) /\ ToSet(s) = T /\ Len(s) = Cardinality(T)
  BY AllInOrder
<1>2. s \in Seq(T) /\ Len(s) \in Nat /\ DOMAIN s = 1..Len(s) /\ m \in Nat /\ m <= Len(s)
  BY <1>1 DEF Lists
<1>3. h \in Seq(T) /\ Len(h) = m /\ DOMAIN h = 1..m /\ \A i \in 1..m : h[i] = s[i]
  <2>1. h = SubSeq(s, 1, m)
    BY DEF Take
  <2> HIDE DEF h, m
  <2> QED BY <1>2, <2>1
<1>4. IsInjective(h)
  BY <1>1, <1>2, <1>3 DEF Lists, IsInjective
<1>5. ToSet(h) = {s[i] : i \in 1..m}
  <2> HIDE DEF h, m
  <2> QED BY <1>3 DEF ToSet
<1>6. ASSUME NEW u \in ToSet(h), NEW t \in T \ ToSet(h)
      PROVE  (\E i, j \in DOMAIN s : i < j /\ s[i] = u /\ s[j] = t) /\ n < Cardinality(T)
  <2>1. PICK i \in 1..m : s[i] = u
    BY <1>5
  <2>2. PICK j \in 1..Len(s) : s[j] = t
    BY <1>1, <1>2 DEF ToSet
  <2>3. j \notin 1..m
    BY <1>5, <2>2
  <2> QED BY <1>1, <1>2, <2>1, <2>2, <2>3
<1>7. ASSUME NEW t \in T \ ToSet(h) PROVE n < Cardinality(T)
  <2>2. PICK j \in 1..Len(s) : s[j] = t
    BY <1>1, <1>2 DEF ToSet
  <2>3. j \notin 1..m
    BY <1>5, <2>2
  <2> QED BY <1>1, <1>2, <2>2, <2>3
<1> QED BY <1>1, <1>3, <1>4, <1>6, <1>7 DEF Lists

\* One list after another: what it is made of, and that it is again without
\* repetitions if they have no member in common.
LEMMA JoinedSize ==
  ASSUME NEW T, NEW f, NEW h, Lists(f, T), Lists(h, T)
  PROVE  /\ Len(f \o h) = Len(f) + Len(h)
         /\ ToSet(f \o h) = ToSet(f) \cup ToSet(h)
<1> DEFINE m == Len(f)
           n == Len(h)
           s == f \o h
<1>1. /\ f \in Seq(T) /\ h \in Seq(T) /\ m \in Nat /\ n \in Nat
      /\ DOMAIN f = 1..m /\ DOMAIN h = 1..n
  BY DEF Lists
<1>2. /\ s \in Seq(T) /\ Len(s) = m + n /\ DOMAIN s = 1..(m + n)
      /\ \A i \in 1..m : s[i] = f[i]
      /\ \A i \in 1..n : s[m + i] = h[i]
  BY <1>1
<1>3. ASSUME NEW i \in 1..(m + n)
      PROVE  \/ i \in 1..m /\ s[i] = f[i]
             \/ i - m \in 1..n /\ s[i] = h[i - m]
  BY <1>1, <1>2
<1>4. ToSet(f) = {f[i] : i \in 1..m} /\ ToSet(h) = {h[i] : i \in 1..n}
      /\ ToSet(s) = {s[i] : i \in 1..(m + n)}
  BY <1>1, <1>2 DEF ToSet
<1>7. ToSet(s) = ToSet(f) \cup ToSet(h)
  <2>1. ASSUME NEW i \in 1..(m + n) PROVE s[i] \in ToSet(f) \cup ToSet(h)
    BY <1>3, <1>4
  <2>2. ASSUME NEW i \in 1..m PROVE f[i] \in ToSet(s)
    <3>1. i \in 1..(m + n)
      BY <1>1
    <3> QED BY <1>2, <1>4, <3>1
  <2>3. ASSUME NEW i \in 1..n PROVE h[i] \in ToSet(s)
    <3>1. m + i \in 1..(m + n)
      BY <1>1
    <3> QED BY <1>2, <1>4, <3>1
  <2> QED BY <1>4, <2>1, <2>2, <2>3
<1> QED BY <1>2, <1>7

LEMMA ListsJoin ==
  ASSUME NEW T, NEW f, NEW h, Lists(f, T), Lists(h, T \ ToSet(f))
  PROVE  Lists(f \o h, T)
<1> DEFINE m == Len(f)
           n == Len(h)
           s == f \o h
<1>1. /\ f \in Seq(T) /\ h \in Seq(T) /\ m \in Nat /\ n \in Nat
      /\ DOMAIN f = 1..m /\ DOMAIN h = 1..n
  BY DEF Lists
<1>2. /\ s \in Seq(T) /\ Len(s) = m + n /\ DOMAIN s = 1..(m + n)
      /\ \A i \in 1..m : s[i] = f[i]
      /\ \A i \in 1..n : s[m + i] = h[i]
  BY <1>1
<1>3. ASSUME NEW i \in 1..(m + n)
      PROVE  \/ i \in 1..m /\ s[i] = f[i]
             \/ i - m \in 1..n /\ s[i] = h[i - m]
  BY <1>1, <1>2
<1>4. ToSet(f) = {f[i] : i \in 1..m} /\ ToSet(h) = {h[i] : i \in 1..n}
      /\ ToSet(s) = {s[i] : i \in 1..(m + n)}
  BY <1>1, <1>2 DEF ToSet
<1>5. \A i \in 1..n : h[i] \notin ToSet(f)
  BY <1>1 DEF Lists
<1>6. IsInjective(s)
  <2>1. IsInjective(f) /\ IsInjective(h)
    BY DEF Lists
  <2>2. ASSUME NEW i \in 1..(m + n), NEW j \in 1..(m + n), s[i] = s[j] PROVE i = j
    <3>1. CASE i \in 1..m /\ j \in 1..m
      BY <1>1, <1>2, <2>1, <2>2, <3>1 DEF IsInjective
    <3>2. CASE i \in 1..m /\ j - m \in 1..n /\ s[j] = h[j - m]
      BY <1>2, <1>4, <1>5, <2>2, <3>2
    <3>3. CASE j \in 1..m /\ i - m \in 1..n /\ s[i] = h[i - m]
      BY <1>2, <1>4, <1>5, <2>2, <3>3
    <3>4. CASE i - m \in 1..n /\ s[i] = h[i - m] /\ j - m \in 1..n /\ s[j] = h[j - m]
      <4>1. i - m = j - m
        BY <1>1, <2>1, <2>2, <3>4 DEF IsInjective
      <4> QED BY <1>1, <4>1
    <3> QED BY <1>3, <3>1, <3>2, <3>3, <3>4
  <2> QED BY <1>2, <2>2 DEF IsInjective
<1> QED BY <1>2, <1>6 DEF Lists

\* The three parts of a template: the best by fee, the oldest transfers without
\* a fee, the best of the rest.
HasParts(q, s) ==
  \E a \in ByFee(q, DOMAIN q) :
    LET g == Take(a, Monus(MaxTotal, Slots)) IN
    \E z \in ByAge(q, ZeroFee(DOMAIN q \ ToSet(g))) :
      LET h == g \o Take(Take(z, Slots), Monus(MaxTotal, Len(g))) IN
      \E b \in ByFee(q, DOMAIN q \ ToSet(h)) : s = h \o Take(b, Monus(MaxTotal, Len(h)))

LEMMA TemplateParts ==
  ASSUME NEW q, NEW s \in Templates(q)
  PROVE  HasParts(q, s)
<1>1. PICK h \in UNION {WithZeros(q, g) : g \in TopN(q, Monus(MaxTotal, Slots))} : s \in WithRest(q, h)
  BY DEF Templates
<1>2. PICK g \in TopN(q, Monus(MaxTotal, Slots)) : h \in WithZeros(q, g)
  BY <1>1
<1>3. PICK a \in ByFee(q, DOMAIN q) : g = Take(a, Monus(MaxTotal, Slots))
  BY <1>2 DEF TopN
<1>4. PICK z \in ByAge(q, ZeroFee(DOMAIN q \ ToSet(g))) :
        h = g \o Take(Take(z, Slots), Monus(MaxTotal, Len(g)))
  BY <1>2 DEF WithZeros
<1>5. PICK b \in ByFee(q, DOMAIN q \ ToSet(h)) : s = h \o Take(b, Monus(MaxTotal, Len(h)))
  BY <1>1 DEF WithRest
<1> QED BY <1>3, <1>4, <1>5 DEF HasParts

\* Taking twice is taking the fewer.
LEMMA TakenTwice ==
  ASSUME NEW T, NEW s \in Seq(T), NEW n \in Nat, NEW m \in Nat
  PROVE  Take(Take(s, n), m) = Take(s, IF m < n THEN m ELSE n)
<1> DEFINE a == IF n < Len(s) THEN n ELSE Len(s)
           k == IF m < n THEN m ELSE n
           b == IF k < Len(s) THEN k ELSE Len(s)
           r == Take(s, n)
<1>1. Len(s) \in Nat /\ a \in Nat /\ b \in Nat /\ b <= a /\ a <= Len(s)
  OBVIOUS
<1>2. r \in Seq(T) /\ Len(r) = a /\ \A i \in 1..a : r[i] = s[i]
  <2>1. r = SubSeq(s, 1, a)
    BY DEF Take
  <2> HIDE DEF r, a
  <2> QED BY <1>1, <2>1
<1>3. (IF m < a THEN m ELSE a) = b
  OBVIOUS
<1>4. Take(r, m) = SubSeq(r, 1, b) /\ Take(s, k) = SubSeq(s, 1, b)
  BY <1>2, <1>3 DEF Take
<1>5. SubSeq(r, 1, b) = SubSeq(s, 1, b)
  <2> HIDE DEF r, a, b
  <2>1. SubSeq(r, 1, b) = [i \in 1..b |-> r[i]] /\ SubSeq(s, 1, b) = [i \in 1..b |-> s[i]]
    BY <1>1, <1>2
  <2>2. \A i \in 1..b : r[i] = s[i]
    BY <1>1, <1>2
  <2> QED BY <2>1, <2>2
<1> QED BY <1>4, <1>5

\* A list of members of a part is one of the whole.
LEMMA ListOfMore ==
  ASSUME NEW S, NEW T, S \subseteq T, NEW s, Lists(s, S)
  PROVE  Lists(s, T)
<1>1. s \in Seq(S) /\ IsInjective(s)
  BY DEF Lists
<1>2. s \in Seq(T)
  BY <1>1
<1> QED BY <1>1, <1>2 DEF Lists

FairFrom(D, q, s) ==
  /\ Lists(s, D)
  /\ Len(s) = IF Cardinality(D) < MaxTotal THEN Cardinality(D) ELSE MaxTotal
  /\ \A t \in D \ ToSet(s) :
       Cardinality({u \in ToSet(s) : ~Before(q, t, u)}) >= MaxTotal - Slots
  /\ \A t \in ZeroFee(D \ ToSet(s)) :
       Cardinality({u \in ZeroFee(ToSet(s)) : q[u] <= q[t]}) >= Slots

\* As long as it can be and without repetitions, and who is left out is left
\* out for enough others.
LEMMA TemplateIsFair ==
  ASSUME NEW D, IsFiniteSet(D), D \subseteq Tx, NEW q \in [D -> Nat], NEW s \in Templates(q)
  PROVE  FairFrom(D, q, s)
<1> DEFINE best == MaxTotal - Slots
           d == Cardinality(D)
<1>1. MaxTotal \in Nat /\ Slots \in Nat /\ best \in Nat /\ Monus(MaxTotal, Slots) = best /\ d \in Nat
  BY FS_CardinalityType, MempoolAssumption DEF Monus
<1>2. DOMAIN q = D
  OBVIOUS
<1>3. PICK a \in ByFee(q, DOMAIN q) :
        LET g == Take(a, Monus(MaxTotal, Slots)) IN
        \E z \in ByAge(q, ZeroFee(DOMAIN q \ ToSet(g))) :
          LET h == g \o Take(Take(z, Slots), Monus(MaxTotal, Len(g))) IN
          \E b \in ByFee(q, DOMAIN q \ ToSet(h)) : s = h \o Take(b, Monus(MaxTotal, Len(h)))
  <2>1. HasParts(q, s)
    BY TemplateParts
  <2> QED BY <2>1 DEF HasParts
<1> DEFINE g == Take(a, best)
           Z == ZeroFee(D \ ToSet(g))
<1>31. PICK z \in ByAge(q, Z) :
        LET h == g \o Take(Take(z, Slots), Monus(MaxTotal, Len(g))) IN
        \E b \in ByFee(q, D \ ToSet(h)) : s = h \o Take(b, Monus(MaxTotal, Len(h)))
  BY <1>1, <1>2, <1>3
<1> DEFINE zs == Take(Take(z, Slots), Monus(MaxTotal, Len(g)))
           h == g \o zs
<1>4. PICK b \in ByFee(q, D \ ToSet(h)) : s = h \o Take(b, Monus(MaxTotal, Len(h)))
  BY <1>31
<1> DEFINE rest == Take(b, Monus(MaxTotal, Len(h)))
<1> HIDE DEF best, d
<1>5. /\ a \in SetToSeqs(D) /\ \A i, j \in DOMAIN a : i < j => ~Before(q, a[j], a[i])
      /\ z \in SetToSeqs(Z) /\ \A i, j \in DOMAIN z : i < j => q[z[i]] <= q[z[j]]
      /\ b \in SetToSeqs(D \ ToSet(h))
  BY DEF ByFee, ByAge
<1>6. /\ Lists(g, D) /\ Len(g) = IF best < d THEN best ELSE d
      /\ \A u \in ToSet(g), t \in D \ ToSet(g) :
           \E i, j \in DOMAIN a : i < j /\ a[i] = u /\ a[j] = t
      /\ D \ ToSet(g) # {} => best < d
  <2> HIDE DEF ByFee, ByAge
  <2> QED BY <1>1, <1>5, TakenFrom DEF d
<1>7. /\ ToSet(g) \subseteq D /\ IsFiniteSet(ToSet(g))
      /\ Cardinality(ToSet(g)) = Len(g) /\ Len(g) \in Nat
  BY <1>6, ListSize
<1> HIDE DEF g
<1>8. IsFiniteSet(Z) /\ Z \subseteq D \ ToSet(g) /\ Cardinality(Z) \in Nat
  <2>1. Z \in SUBSET D
    BY DEF ZeroFee
  <2> QED BY <2>1, FS_Subset, FS_CardinalityType DEF ZeroFee
<1> DEFINE k == IF Monus(MaxTotal, Len(g)) < Slots THEN Monus(MaxTotal, Len(g)) ELSE Slots
<1>9. k \in Nat /\ Monus(MaxTotal, Len(g)) \in Nat
  BY <1>1, <1>7 DEF Monus
<1>10. z \in Seq(Z)
  BY <1>5, <1>8, AllInOrder DEF Lists
<1>11. zs = Take(z, k)
  <2> HIDE DEF Z
  <2> QED BY <1>1, <1>9, <1>10, TakenTwice
<1>12. /\ Lists(zs, Z) /\ Len(zs) = IF k < Cardinality(Z) THEN k ELSE Cardinality(Z)
       /\ \A u \in ToSet(zs), t \in Z \ ToSet(zs) :
            \E i, j \in DOMAIN z : i < j /\ z[i] = u /\ z[j] = t
       /\ Z \ ToSet(zs) # {} => k < Cardinality(Z)
  <2> HIDE DEF Z, zs, k
  <2> QED BY <1>5, <1>8, <1>9, <1>11, TakenFrom
<1>13. /\ ToSet(zs) \subseteq Z /\ IsFiniteSet(ToSet(zs))
       /\ Cardinality(ToSet(zs)) = Len(zs) /\ Len(zs) \in Nat
  <2> HIDE DEF Z, zs
  <2> QED BY <1>12, ListSize
<1>14. Lists(h, D) /\ Len(h) = Len(g) + Len(zs) /\ ToSet(h) = ToSet(g) \cup ToSet(zs)
  <2>1. Lists(zs, D \ ToSet(g))
    <3> HIDE DEF Z, zs
    <3> QED BY <1>8, <1>12, ListOfMore
  <2>2. Lists(g, D)
    BY <1>6
  <2>3. Lists(zs, D)
    <3> HIDE DEF Z, zs
    <3> QED BY <1>8, <1>12, ListOfMore
  <2> HIDE DEF zs, Z
  <2>4. Lists(g \o zs, D)
    BY <2>1, <2>2, ListsJoin
  <2> QED BY <2>2, <2>3, <2>4, JoinedSize
<1>15. /\ ToSet(h) \subseteq D /\ IsFiniteSet(ToSet(h))
       /\ Cardinality(ToSet(h)) = Len(h) /\ Len(h) \in Nat
  <2> HIDE DEF h
  <2> QED BY <1>14, ListSize
<1> HIDE DEF zs, h, Z, k
<1>16. IsFiniteSet(D \ ToSet(h)) /\ Cardinality(D \ ToSet(h)) = d - Len(h)
  <2>1. D \cap ToSet(h) = ToSet(h)
    BY <1>15
  <2>2. IsFiniteSet(D \ ToSet(h)) /\ Cardinality(D \ ToSet(h)) = Cardinality(D) - Cardinality(D \cap ToSet(h))
    BY FS_Difference
  <2> QED BY <1>15, <2>1, <2>2 DEF d
<1>17. Len(h) <= MaxTotal /\ Monus(MaxTotal, Len(h)) = MaxTotal - Len(h)
  <2>1. Len(g) <= MaxTotal
    BY <1>1, <1>6 DEF best
  <2>2. Len(zs) <= k
    BY <1>8, <1>9, <1>12
  <2>3. Len(g) + k <= MaxTotal
    BY <1>1, <1>7, <2>1 DEF k, Monus
  <2> QED BY <1>1, <1>7, <1>9, <1>13, <1>14, <2>2, <2>3 DEF Monus
<1>18. /\ Lists(rest, D \ ToSet(h))
       /\ Len(rest) = IF MaxTotal - Len(h) < d - Len(h) THEN MaxTotal - Len(h) ELSE d - Len(h)
       /\ (D \ ToSet(h)) \ ToSet(rest) # {} => MaxTotal - Len(h) < d - Len(h)
  <2>1. MaxTotal - Len(h) \in Nat
    BY <1>1, <1>15, <1>17
  <2> QED BY <1>5, <1>16, <1>17, <2>1, TakenFrom
<1>19. Lists(s, D) /\ Len(s) = Len(h) + Len(rest) /\ ToSet(s) = ToSet(h) \cup ToSet(rest)
  <2>1. s = h \o rest
    BY <1>4
  <2>2. Lists(h, D) /\ Lists(rest, D \ ToSet(h))
    BY <1>14, <1>18
  <2>3. Lists(rest, D)
    <3> HIDE DEF rest
    <3> QED BY <2>2, ListOfMore
  <2> HIDE DEF rest
  <2>4. Lists(h \o rest, D)
    BY <2>2, ListsJoin
  <2> QED BY <2>1, <2>2, <2>3, <2>4, JoinedSize
<1>20. Len(s) = IF d < MaxTotal THEN d ELSE MaxTotal
  <2> HIDE DEF rest
  <2> QED BY <1>1, <1>15, <1>17, <1>18, <1>19
<1>21. IsFiniteSet(ToSet(s))
  BY <1>19, ListSize
<1>22. ASSUME NEW t \in D \ ToSet(s) PROVE t \in D \ ToSet(g) /\ Len(g) = best /\ best < d
  <2>1. t \in D \ ToSet(g)
    BY <1>14, <1>19
  <2> QED BY <1>6, <2>1
<1>23. ASSUME NEW t \in D \ ToSet(s)
       PROVE  Cardinality({u \in ToSet(s) : ~Before(q, t, u)}) >= MaxTotal - Slots
  <2> DEFINE B == {u \in ToSet(s) : ~Before(q, t, u)}
  <2>1. ToSet(g) \in SUBSET B
    BY <1>5, <1>6, <1>14, <1>19, <1>22
  <2>2. IsFiniteSet(B) /\ B \in SUBSET ToSet(s)
    BY <1>21, FS_Subset
  <2>3. Cardinality(ToSet(g)) <= Cardinality(B) /\ Cardinality(B) \in Nat
    <3> HIDE DEF B
    <3> QED BY <2>1, <2>2, FS_Subset, FS_CardinalityType
  <2>4. Cardinality(B) >= best
    <3> HIDE DEF B
    <3> QED BY <1>1, <1>7, <1>22, <2>3
  <2> QED BY <2>4 DEF best
<1>24. ASSUME NEW t \in ZeroFee(D \ ToSet(s))
       PROVE  Cardinality({u \in ZeroFee(ToSet(s)) : q[u] <= q[t]}) >= Slots
  <2> DEFINE B == {u \in ZeroFee(ToSet(s)) : q[u] <= q[t]}
  <2>1. t \in D \ ToSet(s) /\ t \in Z \ ToSet(zs)
    BY <1>14, <1>19 DEF ZeroFee, Z
  <2>2. Len(g) = best /\ k = Slots /\ Len(zs) = Slots
    <3>1. Len(g) = best
      BY <1>22, <2>1
    <3>2. k = Slots
      BY <1>1, <3>1 DEF k, best, Monus
    <3> QED BY <1>12, <2>1, <3>1, <3>2
  <2>3. ToSet(zs) \in SUBSET B
    <3>1. ASSUME NEW u \in ToSet(zs) PROVE u \in ZeroFee(ToSet(s)) /\ q[u] <= q[t]
      <4>1. u \in ToSet(s) /\ u \in Z
        BY <1>13, <1>14, <1>19
      <4>2. PICK i \in DOMAIN z, j \in DOMAIN z : i < j /\ z[i] = u /\ z[j] = t
        BY <1>12, <2>1
      <4> QED BY <1>5, <4>1, <4>2 DEF Z, ZeroFee
    <3> QED BY <3>1
  <2>4. IsFiniteSet(B)
    <3>1. B \in SUBSET ToSet(s)
      BY DEF ZeroFee
    <3> QED BY <1>21, <3>1, FS_Subset
  <2>5. Cardinality(ToSet(zs)) <= Cardinality(B) /\ Cardinality(B) \in Nat
    <3> HIDE DEF B
    <3> QED BY <2>3, <2>4, FS_Subset, FS_CardinalityType
  <2> HIDE DEF B
  <2> QED BY <1>1, <1>13, <2>2, <2>5 DEF B
<1> QED BY <1>19, <1>20, <1>23, <1>24 DEF d, FairFrom

-----------------------------------------------------------------------------
(* Mempool: the inductive invariant. *)

\* The parts of a pool agree, and it is within its limits.
PoolOK(p, now) ==
  /\ p = [queue |-> p.queue, byHash |-> p.byHash, seen |-> p.seen,
          count |-> p.count, size |-> p.size]
  /\ p.byHash \subseteq Signed /\ p.seen = p.byHash
  /\ p.queue \in [p.byHash -> 0..now]
  /\ p.count = Cardinality(p.byHash) /\ p.size = p.count
  /\ p.count <= MaxTxs /\ p.size <= MaxSize

\* While the miner works on a template, it owes the pool nothing: what a block
\* executed is never overwritten in `leaving` before it left the pool.
PoolInv ==
  /\ PoolOK(pool, clock)
  /\ clock \in 0..Cardinality(Tx)
  /\ bal \in [Account -> Nat] /\ runs \in [Tx -> 0..2]
  /\ template \in Seq(Signed) /\ leaving \in [Task -> SUBSET Signed]
  /\ template # <<>> => leaving["miner"] = {}
  /\ MinedLeaves

LEMMA SignedFinite ==
  /\ IsFiniteSet(Signed) /\ Cardinality(Signed) <= Cardinality(Tx) /\ Signed \subseteq Tx
  /\ Cardinality(Tx) \in Nat
  /\ \A S \in SUBSET Signed : /\ IsFiniteSet(S) /\ Cardinality(S) \in Nat
                              /\ Cardinality(S) <= Cardinality(Tx)
<1>1. IsFiniteSet(Tx) /\ Signed \in SUBSET Tx
  BY MempoolAssumption
<1>2. Cardinality(Tx) \in Nat
  BY <1>1, FS_CardinalityType
<1>3. ASSUME NEW S \in SUBSET Tx
      PROVE  IsFiniteSet(S) /\ Cardinality(S) \in Nat /\ Cardinality(S) <= Cardinality(Tx)
  BY <1>1, FS_Subset, FS_CardinalityType
<1> QED BY <1>1, <1>2, <1>3

LEMMA EmptyPoolOK == PoolOK(NewPool, 0) /\ NewPool.byHash = {}
<1>1. Cardinality({}) = 0 /\ MaxTxs \in Nat \ {0} /\ MaxSize \in Nat \ {0}
  BY FS_EmptySet, MempoolAssumption
<1>2. <<>> \in [{} -> 0..0]
  OBVIOUS
<1> QED BY <1>1, <1>2 DEF PoolOK, NewPool

\* One more, where there is room.
LEMMA InsertOK ==
  ASSUME NEW p, NEW now \in Nat, PoolOK(p, now), NEW t \in Signed, t \notin p.byHash,
         p.count < MaxTxs, p.size + 1 <= MaxSize
  PROVE  PoolOK(Insert(p, t, now), now) /\ Insert(p, t, now).byHash = p.byHash \cup {t}
<1> DEFINE r == Insert(p, t, now)
<1>1. /\ p.byHash \subseteq Signed /\ p.seen = p.byHash /\ p.queue \in [p.byHash -> 0..now]
      /\ p.count = Cardinality(p.byHash) /\ p.size = p.count /\ DOMAIN p.queue = p.byHash
  BY DEF PoolOK
<1>2. IsFiniteSet(p.byHash) /\ Cardinality(p.byHash) \in Nat
  BY <1>1, SignedFinite
<1>3. Cardinality(p.byHash \cup {t}) = Cardinality(p.byHash) + 1
  BY <1>2, FS_AddElement
<1>4. /\ r.queue = [u \in p.byHash \cup {t} |-> IF u = t THEN now ELSE p.queue[u]]
      /\ r.byHash = p.byHash \cup {t} /\ r.seen = p.byHash \cup {t}
      /\ r.count = Cardinality(p.byHash) + 1 /\ r.size = p.size + 1
      /\ r = [queue |-> r.queue, byHash |-> r.byHash, seen |-> r.seen,
              count |-> r.count, size |-> r.size]
  BY <1>1, <1>3 DEF Insert
<1>5. r.queue \in [r.byHash -> 0..now]
  BY <1>1, <1>4
<1>6. MaxTxs \in Nat /\ MaxSize \in Nat
  BY MempoolAssumption
<1> HIDE DEF r
<1>7. PoolOK(r, now)
  BY <1>1, <1>2, <1>3, <1>4, <1>5, <1>6 DEF PoolOK
<1> QED BY <1>4, <1>7 DEF r

\* What is left of a pool when some transactions of it are gone.
LEMMA FewerOK ==
  ASSUME NEW p, NEW now \in Nat, PoolOK(p, now), NEW r, NEW gone \in SUBSET p.byHash,
         r = [queue |-> [u \in p.byHash \ gone |-> p.queue[u]], byHash |-> p.byHash \ gone,
              seen |-> p.byHash \ gone, count |-> Cardinality(p.byHash \ gone),
              size |-> Monus(p.size, Cardinality(gone))]
  PROVE  /\ PoolOK(r, now) /\ r.byHash = p.byHash \ gone
         /\ r.count = p.count - Cardinality(gone)
<1>1. /\ p.byHash \subseteq Signed /\ p.queue \in [p.byHash -> 0..now]
      /\ p.count = Cardinality(p.byHash) /\ p.size = p.count
      /\ p.count <= MaxTxs /\ p.size <= MaxSize
  BY DEF PoolOK
<1>2. IsFiniteSet(p.byHash) /\ Cardinality(p.byHash) \in Nat /\ Cardinality(gone) \in Nat
  BY <1>1, SignedFinite
<1>3. Cardinality(p.byHash \ gone) = Cardinality(p.byHash) - Cardinality(gone)
      /\ Cardinality(p.byHash \ gone) \in Nat
  <2>1. p.byHash \cap gone = gone
    OBVIOUS
  <2>2. Cardinality(p.byHash \ gone) = Cardinality(p.byHash) - Cardinality(p.byHash \cap gone)
    BY <1>2, FS_Difference
  <2>3. Cardinality(p.byHash \ gone) \in Nat
    BY <1>1, SignedFinite
  <2> QED BY <2>1, <2>2, <2>3
<1>4. Monus(p.size, Cardinality(gone)) = Cardinality(p.byHash \ gone)
  BY <1>1, <1>2, <1>3 DEF Monus
<1>5. /\ r.queue = [u \in p.byHash \ gone |-> p.queue[u]] /\ r.byHash = p.byHash \ gone
      /\ r.seen = p.byHash \ gone /\ r.count = Cardinality(p.byHash \ gone)
      /\ r.size = Cardinality(p.byHash \ gone)
      /\ r = [queue |-> r.queue, byHash |-> r.byHash, seen |-> r.seen,
              count |-> r.count, size |-> r.size]
  BY <1>4
<1>6. r.queue \in [r.byHash -> 0..now]
  BY <1>1, <1>5
<1>7. MaxTxs \in Nat /\ MaxSize \in Nat
  BY MempoolAssumption
<1>8. PoolOK(r, now)
  BY <1>1, <1>2, <1>3, <1>5, <1>6, <1>7 DEF PoolOK
<1> QED BY <1>1, <1>3, <1>5, <1>8

LEMMA EvictOK ==
  ASSUME NEW p, NEW now \in Nat, PoolOK(p, now), NEW t \in p.byHash
  PROVE  /\ PoolOK(Evict(p, t), now) /\ Evict(p, t).byHash = p.byHash \ {t}
         /\ Evict(p, t).count = p.count - 1
<1>1. DOMAIN p.queue = p.byHash /\ p.seen = p.byHash
  BY DEF PoolOK
<1>2. Cardinality({t}) = 1
  BY FS_Singleton
<1>3. Evict(p, t) = [queue |-> [u \in p.byHash \ {t} |-> p.queue[u]], byHash |-> p.byHash \ {t},
                     seen |-> p.byHash \ {t}, count |-> Cardinality(p.byHash \ {t}),
                     size |-> Monus(p.size, Cardinality({t}))]
  BY <1>1, <1>2 DEF Evict, Without
<1>4. {t} \in SUBSET p.byHash
  OBVIOUS
<1> HIDE DEF PoolOK
<1> QED BY <1>2, <1>3, <1>4, FewerOK

\* Whatever add decides: at a limit it only ever exchanges one for another.
LEMMA AddedOK ==
  ASSUME NEW p, NEW now \in Nat, PoolOK(p, now), NEW t \in Tx, NEW r \in Added(p, t, now)
  PROVE  PoolOK(r, now) /\ r.byHash \subseteq p.byHash \cup {t}
<1>1. CASE r = p
  BY <1>1
<1>2. ASSUME Acceptable(p, t), HasRoom(p), r = Insert(p, t, now)
      PROVE  PoolOK(r, now) /\ r.byHash \subseteq p.byHash \cup {t}
  <2>1. t \in Signed /\ t \notin p.byHash /\ p.count < MaxTxs /\ p.size + 1 <= MaxSize
    BY <1>2 DEF Acceptable, HasRoom, PoolOK
  <2> QED BY <1>2, <2>1, InsertOK
<1>3. ASSUME Acceptable(p, t), NEW u \in Lowest(p.queue), r = Insert(Evict(p, u), t, now)
      PROVE  PoolOK(r, now) /\ r.byHash \subseteq p.byHash \cup {t}
  <2> DEFINE e == Evict(p, u)
  <2>1. u \in p.byHash /\ t \in Signed /\ t \notin p.byHash
    BY <1>3 DEF Lowest, PoolOK, Acceptable
  <2>2. PoolOK(e, now) /\ e.byHash = p.byHash \ {u} /\ e.count = p.count - 1
    BY <2>1, EvictOK
  <2>3. p.count \in Nat /\ p.count <= MaxTxs /\ p.size <= MaxSize /\ p.size = p.count
        /\ e.size = e.count /\ MaxTxs \in Nat /\ MaxSize \in Nat
    BY <2>2, SignedFinite, MempoolAssumption DEF PoolOK
  <2> HIDE DEF e
  <2>4. e.count < MaxTxs /\ e.size + 1 <= MaxSize
    BY <2>2, <2>3
  <2>5. PoolOK(Insert(e, t, now), now) /\ Insert(e, t, now).byHash = e.byHash \cup {t}
    BY <2>1, <2>2, <2>4, InsertOK
  <2> QED BY <1>3, <2>2, <2>5 DEF e
<1> QED BY <1>1, <1>2, <1>3 DEF Added

\* Removing takes out what is there, and nothing else.
LEMMA RemoveAllOK ==
  ASSUME NEW p, NEW now \in Nat, PoolOK(p, now), NEW T
  PROVE  PoolOK(RemoveAll(p, T), now) /\ RemoveAll(p, T).byHash = p.byHash \ T
<1> DEFINE gone == T \cap p.byHash
           r == RemoveAll(p, T)
<1>1. DOMAIN p.queue = p.byHash /\ p.seen = p.byHash /\ p.count = Cardinality(p.byHash)
  BY DEF PoolOK
<1>2. gone = {} => p.byHash \ gone = p.byHash
  OBVIOUS
<1>3. r = [queue |-> [u \in p.byHash \ gone |-> p.queue[u]], byHash |-> p.byHash \ gone,
           seen |-> p.byHash \ gone, count |-> Cardinality(p.byHash \ gone),
           size |-> Monus(p.size, Cardinality(gone))]
  BY <1>1, <1>2 DEF RemoveAll
<1>4. gone \in SUBSET p.byHash /\ p.byHash \ gone = p.byHash \ T
  OBVIOUS
<1> HIDE DEF gone, r
<1>5. PoolOK(r, now) /\ r.byHash = p.byHash \ gone
  BY <1>3, <1>4, FewerOK
<1> QED BY <1>4, <1>5 DEF r

-----------------------------------------------------------------------------
(* Mempool: every step keeps the invariant. *)

LEMMA PoolStart == PoolInit => PoolInv
<1> SUFFICES ASSUME PoolInit PROVE PoolInv
  OBVIOUS
<1>1. PoolOK(pool, clock) /\ pool.byHash = {} /\ clock \in 0..Cardinality(Tx)
  BY EmptyPoolOK, SignedFinite DEF PoolInit
<1>2. bal \in [Account -> Nat] /\ runs \in [Tx -> 0..2]
  BY MempoolAssumption DEF PoolInit
<1>3. template \in Seq(Signed) /\ leaving \in [Task -> SUBSET Signed] /\ leaving["miner"] = {}
  BY DEF PoolInit, Task
<1>4. MinedLeaves
  BY <1>1 DEF MinedLeaves
<1> QED BY <1>1, <1>2, <1>3, <1>4 DEF PoolInv

LEMMA SubmitStep ==
  ASSUME PoolInv, NEW t \in Tx, Submit(t)
  PROVE  PoolInv'
<1>1. PoolOK(pool', clock) /\ pool'.byHash \subseteq pool.byHash \cup {t}
  <2>1. PoolOK(pool, clock) /\ clock \in Nat /\ pool' \in Added(pool, t, clock)
    BY SignedFinite DEF PoolInv, Submit
  <2> QED BY <2>1, AddedOK
<1>2. UNCHANGED <<clock, bal, runs, template, leaving>> /\ (runs[t] > 0 => t \in Resent)
  BY DEF Submit
<1>3. PoolOK(pool, clock)' = PoolOK(pool', clock)
  BY <1>2 DEF PoolOK
<1>4. MinedLeaves'
  BY <1>1, <1>2 DEF PoolInv, MinedLeaves
<1> QED BY <1>1, <1>2, <1>3, <1>4 DEF PoolInv

\* Renumbering the seconds: each rank is below their number, and there are not
\* more of them than transactions.
LEMMA TickStep ==
  ASSUME PoolInv, Tick
  PROVE  PoolInv'
<1> DEFINE stamps == Range(pool.queue)
           rank(n) == Cardinality({m \in stamps : m < n})
           q == [t \in pool.byHash |-> rank(pool.queue[t])]
<1>1. /\ pool' = [pool EXCEPT !.queue = [t \in DOMAIN @ |-> rank(@[t])]]
      /\ clock' = Cardinality(stamps)
      /\ UNCHANGED <<bal, runs, template, leaving>>
  BY DEF Tick
<1>2. PoolOK(pool, clock) /\ pool.queue \in [pool.byHash -> 0..clock]
      /\ DOMAIN pool.queue = pool.byHash /\ pool.byHash \subseteq Signed
  BY DEF PoolInv, PoolOK
<1>3. IsFiniteSet(pool.byHash) /\ Cardinality(pool.byHash) \in Nat
      /\ Cardinality(pool.byHash) <= Cardinality(Tx) /\ Cardinality(Tx) \in Nat
  BY <1>2, SignedFinite
<1>4. IsFiniteSet(stamps) /\ Cardinality(stamps) <= Cardinality(pool.byHash)
      /\ Cardinality(stamps) \in Nat /\ stamps \subseteq Nat
  <2>1. stamps = {pool.queue[t] : t \in pool.byHash}
    BY <1>2 DEF Range
  <2>2. pool.queue \in Surjection(pool.byHash, stamps)
    BY <1>2, <2>1 DEF Surjection
  <2>3. stamps \subseteq Nat
    BY <1>2, <2>1
  <2> HIDE DEF stamps
  <2> QED BY <1>3, <2>2, <2>3, FS_Surjection, FS_CardinalityType
<1>5. ASSUME NEW n \in stamps PROVE rank(n) \in 0..clock'
  <2> DEFINE S == {m \in stamps : m < n}
  <2>1. S \in SUBSET stamps
    OBVIOUS
  <2>2. IsFiniteSet(S) /\ Cardinality(S) \in Nat /\ Cardinality(S) <= Cardinality(stamps)
    <3> HIDE DEF S, stamps
    <3> QED BY <1>4, <2>1, FS_Subset, FS_CardinalityType
  <2> HIDE DEF S, stamps
  <2>3. Cardinality(S) \in 0..clock'
    BY <1>1, <1>4, <2>2
  <2> QED BY <2>3 DEF S
<1>6. q \in [pool.byHash -> 0..clock']
  <2>1. \A t \in pool.byHash : pool.queue[t] \in stamps
    BY <1>2 DEF Range
  <2> HIDE DEF stamps, rank
  <2> QED BY <1>5, <2>1
<1>7. pool' = [queue |-> q, byHash |-> pool.byHash, seen |-> pool.seen,
               count |-> pool.count, size |-> pool.size]
  <2> HIDE DEF rank
  <2>1. pool = [queue |-> pool.queue, byHash |-> pool.byHash, seen |-> pool.seen,
                count |-> pool.count, size |-> pool.size]
    BY <1>2 DEF PoolOK
  <2> QED BY <1>1, <1>2, <2>1
<1> HIDE DEF q, stamps
<1>8. PoolOK(pool', clock')
  BY <1>2, <1>6, <1>7 DEF PoolOK
<1>9. clock' \in 0..Cardinality(Tx)
  BY <1>1, <1>3, <1>4
<1>10. MinedLeaves'
  BY <1>1, <1>7 DEF PoolInv, MinedLeaves
<1> QED BY <1>1, <1>8, <1>9, <1>10 DEF PoolInv, PoolOK

\* A template is made of what the pool holds, which is signed.
LEMMA TakeTemplateStep ==
  ASSUME PoolInv, TakeTemplate
  PROVE  PoolInv'
<1>1. UNCHANGED <<pool, clock, bal, runs, leaving>> /\ template' \in Templates(pool.queue)
      /\ leaving["miner"] = {}
  BY DEF TakeTemplate
<1>2. pool.byHash \subseteq Signed /\ pool.queue \in [pool.byHash -> Nat]
      /\ IsFiniteSet(pool.byHash) /\ pool.byHash \subseteq Tx
  BY SignedFinite DEF PoolInv, PoolOK
<1>3. template' \in Seq(Signed)
  <2>1. Lists(template', pool.byHash)
    BY <1>1, <1>2, TemplateIsFair DEF FairFrom
  <2> QED BY <1>2, <2>1 DEF Lists
<1>4. PoolOK(pool, clock)' /\ MinedLeaves'
  BY <1>1 DEF PoolInv, PoolOK, MinedLeaves
<1> QED BY <1>1, <1>3, <1>4 DEF PoolInv

\* Executing a block: the types, and which transactions count as executed.
LEMMA ExecuteOK ==
  ASSUME PoolInv, NEW s \in Seq(Signed), Execute(Run(s))
  PROVE  /\ bal' \in [Account -> Nat] /\ runs' \in [Tx -> 0..2]
         /\ Run(s).applied \subseteq ToSet(s) /\ ToSet(s) \subseteq Signed
         /\ \A t \in Tx : runs'[t] > 0 => runs[t] > 0 \/ t \in Run(s).applied
<1>1. s \in Seq(Tx) /\ bal \in [Account -> Nat] /\ runs \in [Tx -> 0..2]
  BY SignedFinite DEF PoolInv
<1>2. Run(s) \in Outcome(s)
  BY <1>1, RunTyped
<1>3. ToSet(s) \subseteq Signed
  BY DEF ToSet
<1>4. bal' = Run(s).bal
      /\ runs' = [t \in Tx |-> IF t \in Run(s).applied /\ runs[t] < 2 THEN runs[t] + 1 ELSE runs[t]]
  BY DEF Execute
<1> QED BY <1>1, <1>2, <1>3, <1>4 DEF Outcome

LEMMA MineBlockStep ==
  ASSUME PoolInv, MineBlock
  PROVE  PoolInv'
<1>1. /\ template # <<>> /\ template' = <<>> /\ UNCHANGED <<pool, clock>>
      /\ leaving' = [leaving EXCEPT !["miner"] = Run(template).applied]
      /\ Execute(Run(template))
  BY DEF MineBlock
<1>2. template \in Seq(Signed) /\ leaving["miner"] = {} /\ leaving \in [Task -> SUBSET Signed]
      /\ MinedLeaves /\ pool.byHash \subseteq Tx
  BY <1>1, SignedFinite DEF PoolInv, PoolOK
<1>3. /\ bal' \in [Account -> Nat] /\ runs' \in [Tx -> 0..2]
      /\ Run(template).applied \subseteq Signed
      /\ \A t \in Tx : runs'[t] > 0 => runs[t] > 0 \/ t \in Run(template).applied
  <2>1. /\ bal' \in [Account -> Nat] /\ runs' \in [Tx -> 0..2]
        /\ Run(template).applied \subseteq ToSet(template) /\ ToSet(template) \subseteq Signed
        /\ \A t \in Tx : runs'[t] > 0 => runs[t] > 0 \/ t \in Run(template).applied
    BY <1>1, <1>2, ExecuteOK
  <2> QED BY <2>1
<1>4. /\ leaving' \in [Task -> SUBSET Signed]
      /\ leaving'["miner"] = Run(template).applied /\ leaving'["importer"] = leaving["importer"]
  BY <1>1, <1>2, <1>3 DEF Task
<1>5. MinedLeaves'
  <2>1. UNION Range(leaving) = leaving["importer"]
    BY <1>2 DEF Range, Task
  <2>2. UNION Range(leaving') = leaving["importer"] \cup Run(template).applied
    BY <1>4 DEF Range, Task
  <2> QED BY <1>1, <1>2, <1>3, <2>1, <2>2 DEF MinedLeaves
<1>6. PoolOK(pool, clock)' /\ template' \in Seq(Signed) /\ clock' \in 0..Cardinality(Tx)
  BY <1>1 DEF PoolInv, PoolOK
<1> QED BY <1>1, <1>3, <1>4, <1>5, <1>6 DEF PoolInv

LEMMA PeerBlockStep ==
  ASSUME PoolInv, NEW s \in PeerBody, NEW all \in BOOLEAN, PeerBlock(s, all)
  PROVE  PoolInv'
<1> DEFINE out == IF all THEN ToSet(s) ELSE Run(s).applied
<1>1. /\ leaving["importer"] = {} /\ Execute(Run(s))
      /\ leaving' = [leaving EXCEPT !["importer"] = out]
      /\ UNCHANGED <<pool, clock, template>>
  BY DEF PeerBlock
<1>2. s \in Seq(Signed)
  BY MempoolAssumption
<1>3. /\ bal' \in [Account -> Nat] /\ runs' \in [Tx -> 0..2]
      /\ Run(s).applied \subseteq ToSet(s) /\ ToSet(s) \subseteq Signed
      /\ \A t \in Tx : runs'[t] > 0 => runs[t] > 0 \/ t \in Run(s).applied
  BY <1>1, <1>2, ExecuteOK
<1>4. out \subseteq Signed /\ Run(s).applied \subseteq out
  BY <1>3
<1> HIDE DEF out
<1>5. leaving \in [Task -> SUBSET Signed] /\ MinedLeaves /\ pool.byHash \subseteq Tx
  BY SignedFinite DEF PoolInv, PoolOK
<1>6. /\ leaving' \in [Task -> SUBSET Signed]
      /\ leaving'["importer"] = out /\ leaving'["miner"] = leaving["miner"]
  BY <1>1, <1>4, <1>5 DEF Task
<1>7. MinedLeaves'
  <2>1. UNION Range(leaving) = leaving["miner"]
    BY <1>1, <1>5 DEF Range, Task
  <2>2. UNION Range(leaving') = leaving["miner"] \cup out
    BY <1>6 DEF Range, Task
  <2> QED BY <1>1, <1>3, <1>4, <1>5, <2>1, <2>2 DEF MinedLeaves
<1>8. PoolOK(pool, clock)' /\ template' \in Seq(Signed) /\ clock' \in 0..Cardinality(Tx)
      /\ (template' # <<>> => leaving'["miner"] = {})
  BY <1>1, <1>6 DEF PoolInv, PoolOK
<1> QED BY <1>3, <1>6, <1>7, <1>8 DEF PoolInv

LEMMA RemoveStep ==
  ASSUME PoolInv, NEW k \in Task, RemoveApplied(k)
  PROVE  PoolInv'
<1>1. /\ leaving' = [leaving EXCEPT ![k] = {}]
      /\ UNCHANGED <<clock, bal, runs, template>>
      /\ pool' = RemoveAll(pool, leaving[k])
  BY DEF RemoveApplied
<1>2. PoolOK(pool, clock) /\ clock \in Nat /\ leaving \in [Task -> SUBSET Signed] /\ MinedLeaves
  BY SignedFinite DEF PoolInv
<1>3. PoolOK(pool', clock) /\ pool'.byHash = pool.byHash \ leaving[k]
  BY <1>1, <1>2, RemoveAllOK
<1>4. /\ leaving' \in [Task -> SUBSET Signed]
      /\ \A j \in Task : leaving'[j] = IF j = k THEN {} ELSE leaving[j]
  BY <1>1, <1>2
<1>5. MinedLeaves'
  <2> SUFFICES ASSUME NEW t \in pool'.byHash, runs'[t] > 0, t \notin Resent
               PROVE  t \in UNION Range(leaving')
    BY DEF MinedLeaves
  <2>1. t \in UNION Range(leaving) /\ t \notin leaving[k]
    BY <1>1, <1>2, <1>3 DEF MinedLeaves
  <2>2. PICK j \in Task : t \in leaving[j]
    BY <1>2, <2>1 DEF Range
  <2>3. j # k /\ t \in leaving'[j]
    BY <1>4, <2>1, <2>2
  <2> QED BY <1>4, <2>3 DEF Range
<1>6. PoolOK(pool, clock)'
  BY <1>1, <1>3 DEF PoolOK
<1>7. template' # <<>> => leaving'["miner"] = {}
  BY <1>1, <1>4 DEF PoolInv, Task
<1> QED BY <1>1, <1>4, <1>5, <1>6, <1>7 DEF PoolInv

LEMMA PoolStep == PoolInv /\ [PoolNext]_poolVars => PoolInv'
<1> SUFFICES ASSUME PoolInv, [PoolNext]_poolVars PROVE PoolInv'
  OBVIOUS
<1>1. ASSUME NEW t \in Tx, Submit(t) PROVE PoolInv'
  BY <1>1, SubmitStep
<1>2. CASE Tick
  BY <1>2, TickStep
<1>3. CASE Mine
  <2>1. "miner" \in Task
    BY DEF Task
  <2> QED BY <1>3, <2>1, TakeTemplateStep, MineBlockStep, RemoveStep DEF Mine
<1>4. ASSUME NEW s \in PeerBody, NEW all \in BOOLEAN, PeerBlock(s, all) PROVE PoolInv'
  BY <1>4, PeerBlockStep
<1>5. CASE RemoveApplied("importer")
  <2>1. "importer" \in Task
    BY DEF Task
  <2> QED BY <1>5, <2>1, RemoveStep
<1>6. CASE UNCHANGED poolVars
  BY <1>6 DEF poolVars, PoolInv, PoolOK, MinedLeaves
<1> QED BY <1>1, <1>2, <1>3, <1>4, <1>5, <1>6 DEF PoolNext

LEMMA PoolIsSound == PoolInv => PoolSound
<1> SUFFICES ASSUME PoolInv PROVE PoolSound
  OBVIOUS
<1>1. PoolOK(pool, clock) /\ pool.queue \in [pool.byHash -> 0..clock] /\ clock \in Nat
      /\ pool.byHash \subseteq Tx /\ IsFiniteSet(pool.byHash) /\ DOMAIN pool.queue = pool.byHash
      /\ pool.count = Cardinality(pool.byHash)
  BY SignedFinite DEF PoolInv, PoolOK
<1>2. PoolTypeOK
  BY <1>1 DEF PoolInv, PoolOK, PoolTypeOK
<1>3. TemplateFair
  <2> SUFFICES ASSUME NEW s \in Templates(pool.queue)
               PROVE  /\ IsInjective(s)
                      /\ Len(s) = IF pool.count < MaxTotal THEN pool.count ELSE MaxTotal
                      /\ \A t \in pool.byHash \ ToSet(s) :
                           Cardinality({u \in ToSet(s) : ~Before(pool.queue, t, u)})
                             >= MaxTotal - Slots
                      /\ \A t \in ZeroFee(pool.byHash \ ToSet(s)) :
                           Cardinality({u \in ZeroFee(ToSet(s)) : pool.queue[u] <= pool.queue[t]})
                             >= Slots
    BY <1>1 DEF TemplateFair
  <2>1. pool.queue \in [pool.byHash -> Nat]
    BY <1>1
  <2>2. FairFrom(pool.byHash, pool.queue, s)
    BY <1>1, <2>1, TemplateIsFair
  <2> QED BY <1>1, <2>2 DEF FairFrom, Lists
<1> QED BY <1>2, <1>3 DEF PoolSound

\* For any transactions, accounts and limits, whatever several tasks admit,
\* evict, mine and remove: the parts of the pool agree and are within the
\* limits, and the templates it gives are fair (mempool/src/pool.rs).
THEOREM PoolStaysSound == PoolSpec => []PoolSound
<1>1. PoolSpec => []PoolInv
  BY PoolStart, PoolStep, PTL DEF PoolSpec
<1> QED BY <1>1, PoolIsSound, PTL

\* What was executed is in the pool only until the task that executed it gets
\* the pool's lock, or because it was sent again (the removals after
\* apply_block_transactions).
THEOREM ExecutedLeavesPool == PoolSpec => []MinedLeaves
<1>1. PoolSpec => []PoolInv
  BY PoolStart, PoolStep, PTL DEF PoolSpec
<1>2. PoolInv => MinedLeaves
  BY DEF PoolInv
<1> QED BY <1>1, <1>2, PTL
===============================================================================
