----------------------------- MODULE ReorgProofs -----------------------------
(***************************************************************************)
(* Theorems about Reorg for every block tree, any bodies, any number of    *)
(* importers, miners and attempts and any number of crashes.  What the     *)
(* chain keeps does not depend on the ledger, so neither do those proofs;  *)
(* what the ledger keeps needs bodies that can be unwound.                 *)
(***************************************************************************)
EXTENDS Reorg, BlockTreeProofs, FiniteSetTheorems

(* The inductive invariant: what an attempt still owes the chain. *)

Going(j) == j.at \in {"unwind", "store", "apply", "switch"}

\* The blocks of the new branch that attempt j has yet to store.
Pending(j) ==
  CASE j.at \in {"unwind", "store"} -> j.new
    [] j.at = "apply" -> j.new \ {Lowest(j.new)}
    [] OTHER -> {}

\* There is a next block to store and to apply.
SomeNew == \A r \in Attempt : job[r].at \in {"unwind", "store", "apply"} => job[r].new # {}

\* What is not to be stored any more is on disk.
NewCovered ==
  \A r \in Attempt : Going(job[r]) => Path[job[r].target] \subseteq stored \cup Pending(job[r])

\* The buffer never holds the genesis block: that one is on every branch.
NoGenesis == \A h \in Heights : buffer[h] # Genesis

ChainInv == TypeOK /\ TipLinked /\ SomeNew /\ NewCovered /\ NoGenesis

\* Until somebody is disturbed, at most one task is in the middle of something,
\* what an attempt has read is still so, and the branch it switches to leaves
\* the chain at or above the anchor.
Alone == \A x, y \in Active : x = y

AsRead ==
  \A r \in Attempt : job[r].at = "compare" =>
    /\ job[r].base = tip
    /\ job[r].alt = IF job[r].buffered THEN Buffered ELSE {}

Anchored(b) == \E c \in Path[tip] \cap Path[b] : Height[c] >= MinAnchor

\* The target is a heavier branch, or lies ahead of the tip, which then follows
\* the blocks as they are stored.
Fork(j) == tip \notin Path[j.target] /\ PathWork[j.target] > PathWork[tip]
Ahead(j) == tip \in Path[j.target] /\ Path[j.target] \ Path[tip] = Pending(j)

Justified(r) ==
  Going(job[r]) =>
    /\ job[r].new \subseteq Path[job[r].target]
    /\ Anchored(job[r].target)
    /\ Fork(job[r]) \/ Ahead(job[r])

QuietInv == upsets = 0 => Alone /\ AsRead /\ \A r \in Attempt : Justified(r)

-----------------------------------------------------------------------------
(* Facts about the operators. *)

\* The lowest block of a set is one of it.
LEMMA LowestIn ==
  ASSUME NEW S \in SUBSET Block, S # {}
  PROVE  Lowest(S) \in S /\ \A d \in S : Height[Lowest(S)] <= Height[d]
BY LowestExists DEF Lowest

\* store_block keeps the branch of the tip on disk.
LEMMA StoreKeepsLinked ==
  ASSUME TypeOK, TipLinked, NEW b \in Block, StoreBlock(b)
  PROVE  /\ stored' = stored \cup {b} /\ stored' \subseteq Block /\ tip' \in Block
         /\ TipLinked'
<1>1. stored' = stored \cup {b} /\ (tip' = tip \/ (tip' = b /\ Parent[b] = tip))
  BY DEF StoreBlock, IsNewBest
<1>2. ASSUME tip' = b, Parent[b] = tip PROVE Path[b] \subseteq stored \cup {b}
  BY <1>2, BlockTreeAssumption DEF TipLinked, Linked
<1> QED BY <1>1, <1>2 DEF TypeOK, TipLinked, Linked

\* The new branch of an attempt is never empty.
LEMMA BranchesDiffer ==
  ASSUME TypeOK, NEW r \in Attempt,
         AnchoredCase(job[r]) \/ CompleteCase(job[r])
  PROVE  /\ AnchoredCase(job[r]) =>
              Path[job[r].target] \ Path[CommonAncestor(tip, job[r].target)] # {}
         /\ ~ AnchoredCase(job[r]) => FromGenesis(job[r].target) # {}
<1> DEFINE j == job[r]
           c == CommonAncestor(tip, j.target)
<1>1. /\ j.target \in Block /\ j.base \in Block /\ tip \in Block
      /\ c \in Path[tip] /\ c \in Path[j.target] /\ c \in Block
  BY CommonBranch, PathEnds DEF TypeOK
<1> HIDE DEF c, j
<1>2. ASSUME AnchoredCase(j), Path[j.target] \subseteq Path[c] PROVE FALSE
  <2>1. /\ Heavier(PathWork[j.target] - PathWork[c], OldWork(j, c))
        /\ Height[j.base] <= Height[tip]
    BY <1>2 DEF AnchoredCase, c
  <2>2. j.target \in Path[c] /\ PathWork[j.target] \in Nat /\ PathWork[c] \in Nat
    BY <1>1, <1>2, PathEnds, BlockTreeAssumption
  <2>3. PathWork[j.target] = PathWork[c]
    BY <1>1, <2>2, PathBelow DEF Below
  <2>4. OldWork(j, c) \in Nat
    <3>1. CASE Height[c] < Height[j.base]
      <4> DEFINE d == BlockAt(tip, Height[j.base])
      <4>1. Height[j.base] \in 0..Height[tip] /\ Height[tip] \in Nat /\ Height[c] \in Nat
        BY <1>1, <2>1, BlockTreeAssumption
      <4>2. d \in Path[tip] /\ Height[d] = Height[j.base] /\ d \in Block
        BY <1>1, <4>1, BlockAtHeight, PathEnds
      <4>3. c \in Path[d]
        BY <1>1, <3>1, <4>1, <4>2, PathChain DEF Chained
      <4>4. PathWork[c] <= PathWork[d] /\ PathWork[d] \in Nat
        BY <4>2, <4>3, PathBelow, BlockTreeAssumption DEF Below
      <4>5. PathWork[d] - PathWork[c] \in Nat
        BY <2>2, <4>4
      <4> QED BY <3>1, <4>5 DEF OldWork
    <3>2. CASE ~ (Height[c] < Height[j.base])
      BY <3>2 DEF OldWork
    <3> QED BY <3>1, <3>2
  <2>5. ~ (0 > OldWork(j, c) + OldWork(j, c) \div 200)
    BY <2>4
  <2> QED BY <2>1, <2>2, <2>3, <2>5 DEF Heavier
<1>3. ASSUME CompleteCase(j), Path[j.target] \subseteq {Genesis} PROVE FALSE
  <2>1. Genesis \in Path[tip]
    BY <1>1, PathEnds
  <2> QED BY <1>3, <2>1 DEF CompleteCase, Reachable
<1>4. ASSUME AnchoredCase(j) PROVE Path[j.target] \ Path[c] # {}
  BY <1>2, <1>4
<1>5. ASSUME CompleteCase(j) PROVE FromGenesis(j.target) # {}
  BY <1>3, <1>5 DEF FromGenesis
<1> QED BY <1>4, <1>5 DEF j, c

-----------------------------------------------------------------------------
(* The chain: no assumption on who is disturbed. *)

JobType ==
  [at : {"idle", "compare", "unwind", "store", "apply", "switch"},
   target : Block, base : Block, buffered : BOOLEAN, alt : SUBSET Block,
   full : BOOLEAN, old : SUBSET (Block \ {Genesis}), new : SUBSET (Block \ {Genesis})]

\* What compare_chains hands on are blocks other than the genesis block.
LEMMA CompareType ==
  ASSUME TypeOK, NEW r \in Attempt, Compare(r)
  PROVE  job' \in [Attempt -> JobType]
<1> DEFINE j == job[r]
           c == CommonAncestor(tip, j.target)
<1>1. /\ j \in JobType /\ j.target \in Block /\ j.base \in Block /\ tip \in Block
      /\ job \in [Attempt -> JobType]
  BY DEF TypeOK, JobType
<1>2. /\ Path[tip] \subseteq Block /\ Path[j.target] \subseteq Block /\ Path[j.base] \subseteq Block
      /\ c \in Block /\ Genesis \in Path[c]
  BY <1>1, CommonBranch, PathEnds
<1>3. OldBranch(j, c) \subseteq Block \ {Genesis}
  <2>1. Height[c] \in Nat /\ Height[Genesis] = 0
    BY <1>2, BlockTreeAssumption
  <2>2. ~ (Height[c] < Height[Genesis])
    BY <2>1
  <2> QED BY <1>2, <2>2 DEF OldBranch
<1>4. Path[j.target] \ Path[c] \subseteq Block \ {Genesis}
  BY <1>2
<1>5. FromGenesis(j.base) \subseteq Block \ {Genesis} /\ FromGenesis(j.target) \subseteq Block \ {Genesis}
  BY <1>2 DEF FromGenesis
<1>6. IdleJob \in JobType
  BY BlockTreeAssumption DEF IdleJob, JobType
<1> HIDE DEF c
<1>7. [j EXCEPT !.at = "unwind", !.old = OldBranch(j, c), !.new = Path[j.target] \ Path[c]] \in JobType
  BY <1>1, <1>3, <1>4 DEF JobType
<1>8. [j EXCEPT !.at = "unwind", !.full = TRUE, !.old = FromGenesis(j.base),
               !.new = FromGenesis(j.target)] \in JobType
  BY <1>1, <1>5 DEF JobType
<1> HIDE DEF j
<1>9. \E k \in JobType : job' = [job EXCEPT ![r] = k]
  BY <1>6, <1>7, <1>8 DEF Compare, j, c
<1> QED BY <1>1, <1>9

TaskType == [at : {"idle", "store", "apply"}, blk : Block \cup {NoBlock}]
Busy(k) == k.at # "idle" => k.blk \in Block \ {Genesis}
BufferType == [Heights -> Block \cup {NoBlock}]

\* TypeOK but for the history.
Types ==
  /\ stored \subseteq Block /\ tip \in Block
  /\ buffer \in BufferType
  /\ task \in [Task -> TaskType] /\ \A t \in Task : Busy(task[t])
  /\ job \in [Attempt -> JobType]
  /\ crashes \in 0..MaxCrashes

\* A step of an importer or the miner keeps the types.
LEMMA TaskTypeStep ==
  ASSUME Types, TipLinked, NoGenesis,
         (\E i \in Importer : ImporterStep(i)) \/ (\E m \in Miner : MinerStep(m))
  PROVE  Types'
<1> USE BlockTreeAssumption, ReorgAssumption
<1>0. Importer \subseteq Task /\ Miner \subseteq Task
  BY DEF Task
<1>1. ASSUME NEW t \in Task, NEW k \in TaskType, Busy(k), task' = [task EXCEPT ![t] = k]
      PROVE  task' \in [Task -> TaskType] /\ \A u \in Task : Busy(task'[u])
  BY <1>1 DEF Types
<1>2. IdleTask \in TaskType /\ Busy(IdleTask)
  BY DEF IdleTask, TaskType, Busy
<1>3. ASSUME NEW b \in Block \ {Genesis}, NEW at \in {"store", "apply"}
      PROVE  [at |-> at, blk |-> b] \in TaskType /\ Busy([at |-> at, blk |-> b])
  BY <1>3 DEF TaskType, Busy
<1>4. ASSUME NEW t \in Task, task[t].at # "idle"
      PROVE  /\ task[t].blk \in Block \ {Genesis}
             /\ [task[t] EXCEPT !.at = "apply"] = [at |-> "apply", blk |-> task[t].blk]
  BY <1>4 DEF Types, TaskType, Busy
<1>5. ASSUME NEW t \in Task, NEW b \in Block,
             b # Genesis, task' = [task EXCEPT ![t] = [at |-> "store", blk |-> b]],
             UNCHANGED <<chain, buffer, job, crashes>>
      PROVE  Types'
  BY <1>1, <1>3, <1>5 DEF Types, chain
<1>6. ASSUME NEW i \in Importer, NEW b \in Block, BufferBlock(i, b) PROVE Types'
  BY <1>6 DEF BufferBlock, Types, chain, BufferType, Heights
<1>7. ASSUME NEW i \in Importer, NEW b \in Block, Drain(i, b) PROVE Types'
  <2>1. b # Genesis
    BY <1>7 DEF Drain, NoGenesis
  <2>2. buffer' \in BufferType /\ UNCHANGED <<chain, job, crashes>>
    BY <1>7 DEF Drain, Types, BufferType
  <2>3. task' = [task EXCEPT ![i] = [at |-> "store", blk |-> b]] \/ task' = task
    BY <1>7 DEF Drain
  <2>4. task' \in [Task -> TaskType] /\ \A u \in Task : Busy(task'[u])
    BY ZenonT(30), <1>0, <1>1, <1>3, <2>1, <2>3 DEF Types
  <2> QED BY <2>2, <2>4 DEF Types, chain
<1>8. ASSUME NEW t \in Task, task[t].at = "store", StoreBlock(task[t].blk),
             \/ task' = [task EXCEPT ![t] = [task[t] EXCEPT !.at = "apply"]]
             \/ task' = [task EXCEPT ![t] = IdleTask],
             UNCHANGED <<buffer, job, crashes>>
      PROVE  Types'
  <2>1. task[t].blk \in Block \ {Genesis}
    BY <1>4, <1>8
  <2>2. stored' \subseteq Block /\ tip' \in Block
    BY <1>8, <2>1 DEF StoreBlock, Types
  <2>3. \E k \in TaskType : Busy(k) /\ task' = [task EXCEPT ![t] = k]
    <3> DEFINE k == [at |-> "apply", blk |-> task[t].blk]
    <3>1. task[t].blk \in Block \ {Genesis} /\ [task[t] EXCEPT !.at = "apply"] = k
      BY <1>4, <1>8
    <3>2. k \in TaskType /\ Busy(k)
      BY <1>3, <3>1
    <3> QED BY <1>2, <1>8, <3>1, <3>2
  <2>4. task' \in [Task -> TaskType] /\ \A u \in Task : Busy(task'[u])
    BY <1>1, <2>3
  <2> QED BY <1>8, <2>2, <2>4 DEF Types
<1>9. ASSUME NEW t \in Task, ApplyStored(t) PROVE Types'
  BY <1>1, <1>2, <1>9 DEF ApplyStored, Types, chain
<1>10. ASSUME NEW i \in Importer, StoreAccepted(i) PROVE Types'
  BY <1>0, <1>8, <1>10 DEF StoreAccepted
<1>11. ASSUME NEW m \in Miner, StoreMined(m) PROVE Types'
  BY <1>0, <1>8, <1>11 DEF StoreMined
<1>12. ASSUME NEW i \in Importer, NEW b \in Block, Accept(i, b) PROVE Types'
  BY <1>0, <1>5, <1>12 DEF Accept
<1>13. ASSUME NEW m \in Miner, NEW b \in Block, MineBlock(m, b) PROVE Types'
  BY <1>0, <1>5, <1>13 DEF MineBlock
<1> QED BY <1>0, <1>6, <1>7, <1>9, <1>10, <1>11, <1>12, <1>13 DEF ImporterStep, MinerStep

\* A step of an attempt keeps the types.
LEMMA AttemptTypeStep ==
  ASSUME TypeOK, TipLinked, SomeNew, NEW r \in Attempt, AttemptStep(r)
  PROVE  Types'
<1> DEFINE j == job[r]
<1>0. /\ job \in [Attempt -> JobType] /\ j \in JobType /\ tip \in Block /\ stored \subseteq Block
      /\ buffer \in BufferType /\ task \in [Task -> TaskType] /\ crashes \in 0..MaxCrashes
      /\ \A t \in Task : Busy(task[t])
  BY DEF TypeOK, JobType, BufferType, TaskType, Busy
<1>1. ASSUME job' \in [Attempt -> JobType], stored' \subseteq Block, tip' \in Block,
             UNCHANGED <<buffer, task, crashes>>
      PROVE  Types'
  BY <1>0, <1>1 DEF Types
<1>2. ASSUME NEW k \in JobType, job' = [job EXCEPT ![r] = k] PROVE job' \in [Attempt -> JobType]
  BY <1>0, <1>2
<1>3. IdleJob \in JobType
  BY BlockTreeAssumption DEF IdleJob, JobType
<1>4. ASSUME NEW b \in Block, NEW buffered \in BOOLEAN, StartAttempt(r, b, buffered) PROVE Types'
  <2>1. Buffered \subseteq Block
    BY <1>0, ReorgAssumption DEF Buffered, BufferType
  <2>2. [IdleJob EXCEPT !.at = "compare", !.target = b, !.base = tip, !.buffered = buffered,
                        !.alt = IF buffered THEN Buffered ELSE {}] \in JobType
    BY ZenonT(30), <1>0, <2>1, BlockTreeAssumption DEF IdleJob, JobType
  <2> QED BY <1>0, <1>1, <1>2, <1>4, <2>2 DEF StartAttempt, chain
<1>5. CASE Compare(r)
  BY <1>0, <1>1, <1>5, CompareType DEF Compare, chain
<1>6. CASE Unwind(r)
  <2>1. [j EXCEPT !.old = @ \ {NextToUnwind(j)}] \in JobType
    BY <1>0 DEF JobType
  <2> QED BY <1>0, <1>1, <1>2, <1>6, <2>1 DEF Unwind, chain
<1>7. CASE Validate(r)
  <2>1. [j EXCEPT !.at = "store"] \in JobType
    BY <1>0 DEF JobType
  <2> QED BY <1>0, <1>1, <1>2, <1>3, <1>7, <2>1 DEF Validate, chain
<1>8. CASE StoreNew(r)
  <2>1. [j EXCEPT !.at = "apply"] \in JobType
    BY <1>0 DEF JobType
  <2>2. j.new \subseteq Block /\ j.new # {}
    BY <1>0, <1>8 DEF JobType, SomeNew, StoreNew
  <2>3. Lowest(j.new) \in Block
    BY <2>2, LowestIn
  <2>4. stored' \subseteq Block /\ tip' \in Block
    BY <1>8, <2>3, StoreKeepsLinked DEF StoreNew
  <2> QED BY <1>1, <1>2, <1>8, <2>1, <2>4 DEF StoreNew
<1>9. CASE ApplyNew(r)
  <2> DEFINE rest == j.new \ {Lowest(j.new)}
  <2>1. [j EXCEPT !.new = rest, !.at = IF rest = {} THEN "switch" ELSE "store"] \in JobType
    BY <1>0 DEF JobType
  <2> HIDE DEF rest
  <2>2. job' = [job EXCEPT ![r] = [j EXCEPT !.new = rest,
                                            !.at = IF rest = {} THEN "switch" ELSE "store"]]
    BY <1>0, <1>9 DEF ApplyNew, rest
  <2> QED BY <1>0, <1>1, <1>2, <1>9, <2>1, <2>2 DEF ApplyNew, chain
<1>10. CASE SwitchTip(r)
  <2>1. j.target \in Block
    BY <1>0 DEF JobType
  <2> QED BY <1>0, <1>1, <1>2, <1>3, <1>10, <2>1 DEF SwitchTip
<1> QED BY <1>4, <1>5, <1>6, <1>7, <1>8, <1>9, <1>10 DEF AttemptStep

\* Every step keeps the types.
LEMMA TypeStep == ChainInv /\ [Next]_vars => TypeOK'
<1> SUFFICES ASSUME ChainInv, [Next]_vars PROVE TypeOK'
  OBVIOUS
<1>1. TypeOK /\ TipLinked /\ SomeNew /\ NoGenesis
  BY DEF ChainInv
<1>2. Types
  BY <1>1 DEF TypeOK, Types, JobType, BufferType, TaskType, Busy
<1>3. CASE Next
  <2>1. Types'
    <3>1. CASE Crash
      <4>1. crashes' \in 0..MaxCrashes
        BY <1>2, <3>1, ReorgAssumption DEF Crash, Types
      <4> QED BY <1>2, <3>1, <4>1, BlockTreeAssumption
              DEF Crash, chain, Types, JobType, BufferType, TaskType, Busy, IdleJob, IdleTask
    <3> QED BY <1>1, <1>2, <1>3, <3>1, TaskTypeStep, AttemptTypeStep DEF Next, Step
  <2>2. upsets' \in 0..MaxUpsets
    BY <1>1, <1>3, ReorgAssumption DEF Next, TypeOK
  <2> QED BY <2>1, <2>2 DEF TypeOK, Types, JobType, BufferType, TaskType, Busy
<1>4. CASE UNCHANGED vars
  BY <1>1, <1>4 DEF vars, TypeOK, Heights
<1> QED BY <1>3, <1>4

\* How a step moves the chain: not at all, by storing a block, or by a switch to
\* what an attempt is done with.
LEMMA ChainSteps ==
  ASSUME ChainInv, Step
  PROVE  \/ UNCHANGED <<stored, tip>>
         \/ \E b \in Block \ {Genesis} : StoreBlock(b)
         \/ \E r \in Attempt : SwitchTip(r)
<1>1. TypeOK /\ SomeNew
  BY DEF ChainInv
<1>2. ASSUME NEW t \in Task, task[t].at = "store", StoreBlock(task[t].blk)
      PROVE  \E b \in Block \ {Genesis} : StoreBlock(b)
  BY <1>1, <1>2 DEF TypeOK
<1>3. ASSUME NEW r \in Attempt, StoreNew(r) PROVE \E b \in Block \ {Genesis} : StoreBlock(b)
  <2>1. job[r].new \subseteq Block \ {Genesis} /\ job[r].new # {}
    BY <1>1, <1>3 DEF TypeOK, SomeNew, StoreNew
  <2>2. Lowest(job[r].new) \in Block \ {Genesis}
    BY <2>1, LowestIn
  <2> QED BY <1>3, <2>2 DEF StoreNew
<1>4. Importer \subseteq Task /\ Miner \subseteq Task
  BY DEF Task
<1> QED
  BY <1>2, <1>3, <1>4 DEF Step, chain, ImporterStep, MinerStep, AttemptStep, Crash, Accept,
     BufferBlock, Drain, StoreAccepted, ApplyStored, MineBlock, StoreMined, StartAttempt, Compare,
     Unwind, Validate, StoreNew, ApplyNew

\* Every step keeps the branch of the tip on disk, and takes nothing off it.
LEMMA LinkedStep ==
  ASSUME ChainInv, [Next]_vars
  PROVE  TipLinked' /\ stored \subseteq stored'
<1>1. TypeOK /\ TipLinked /\ NewCovered
  BY DEF ChainInv
<1>2. ASSUME NEW r \in Attempt, SwitchTip(r) PROVE TipLinked' /\ stored' = stored
  <2>1. Path[job[r].target] \subseteq stored
    BY <1>1, <1>2 DEF SwitchTip, NewCovered, Going, Pending
  <2> QED BY <1>2, <2>1 DEF SwitchTip, TipLinked, Linked
<1>3. ASSUME UNCHANGED <<stored, tip>> PROVE TipLinked'
  BY <1>1, <1>3 DEF TipLinked, Linked
<1>4. ASSUME NEW b \in Block, StoreBlock(b) PROVE TipLinked' /\ stored \subseteq stored'
  BY <1>1, <1>4, StoreKeepsLinked
<1> QED BY <1>2, <1>3, <1>4, ChainSteps DEF Next, vars

\* The genesis block is never buffered.
LEMMA GenesisStep ==
  ASSUME ChainInv, [Next]_vars
  PROVE  NoGenesis'
<1>1. TypeOK /\ NoGenesis /\ Genesis # NoBlock /\ Genesis \in Path[tip]
  BY BlockTreeAssumption, ReorgAssumption, PathEnds DEF ChainInv, TypeOK
<1>2. ASSUME NEW i \in Importer, NEW b \in Block, BufferBlock(i, b) PROVE NoGenesis'
  BY <1>1, <1>2 DEF BufferBlock, NoGenesis, TypeOK
<1>3. ASSUME NEW i \in Importer, NEW b \in Block, Drain(i, b) PROVE NoGenesis'
  BY <1>1, <1>3 DEF Drain, NoGenesis, TypeOK
<1>4. CASE Crash
  BY <1>1, <1>4 DEF Crash, NoGenesis
<1>5. CASE buffer' = buffer
  BY <1>1, <1>5 DEF NoGenesis
<1> QED
  BY <1>2, <1>3, <1>4, <1>5 DEF Next, vars, Step, ImporterStep, MinerStep, AttemptStep, Accept,
     StoreAccepted, ApplyStored, MineBlock, StoreMined, StartAttempt, Compare,
     Unwind, Validate, StoreNew, ApplyNew, SwitchTip

\* A step is one of attempt r, or leaves r's job alone, or ends it.
LEMMA JobSteps ==
  ASSUME TypeOK, [Next]_vars, NEW r \in Attempt
  PROVE  AttemptStep(r) \/ job'[r] = job[r] \/ job'[r] = IdleJob
<1>1. job \in [Attempt -> JobType]
  BY DEF TypeOK, JobType
<1>2. ASSUME NEW s \in Attempt, s # r, AttemptStep(s) PROVE job'[r] = job[r]
  BY <1>1, <1>2 DEF AttemptStep, StartAttempt, Compare, Unwind, Validate, StoreNew, ApplyNew, SwitchTip
<1>3. CASE Crash
  BY <1>3 DEF Crash
<1>4. ASSUME NEW i \in Importer, ImporterStep(i) PROVE job' = job
  BY <1>4 DEF ImporterStep, Accept, BufferBlock, Drain, StoreAccepted, ApplyStored
<1>5. ASSUME NEW m \in Miner, MinerStep(m) PROVE job' = job
  BY <1>5 DEF MinerStep, MineBlock, StoreMined, ApplyStored
<1> QED BY <1>2, <1>3, <1>4, <1>5 DEF Next, Step, vars

\* r's job is one that has a branch, and what it need not store is on disk.
Owes(r) ==
  /\ job[r].at \in {"unwind", "store", "apply"} => job[r].new # {}
  /\ Going(job[r]) => Path[job[r].target] \subseteq stored \cup Pending(job[r])

\* compare_chains hands on a branch that is not empty; what it leaves out of it
\* is on disk.
LEMMA CompareOwes ==
  ASSUME ChainInv, NEW r \in Attempt, Compare(r)
  PROVE  Owes(r)'
<1> DEFINE j == job[r]
           c == CommonAncestor(tip, j.target)
<1>1. /\ TypeOK /\ job \in [Attempt -> JobType] /\ tip \in Block /\ j.target \in Block
      /\ Path[tip] \subseteq stored /\ stored' = stored
  BY DEF ChainInv, TypeOK, JobType, TipLinked, Linked, Compare, chain
<1>2. Path[c] \subseteq stored /\ Genesis \in stored
  BY <1>1, CommonBranch, PathEnds
<1>3. CASE AnchoredCase(j)
  <2>1. /\ job'[r].at = "unwind" /\ job'[r].target = j.target
        /\ job'[r].new = Path[j.target] \ Path[c]
    BY <1>1, <1>3 DEF Compare, JobType
  <2>2. Path[j.target] \ Path[c] # {}
    BY <1>1, <1>3, BranchesDiffer
  <2> QED BY <1>1, <1>2, <2>1, <2>2 DEF Owes, Going, Pending
<1>4. CASE ~ AnchoredCase(j) /\ CompleteCase(j)
  <2>1. /\ job'[r].at = "unwind" /\ job'[r].target = j.target
        /\ job'[r].new = FromGenesis(j.target)
    BY <1>1, <1>4 DEF Compare, JobType
  <2>2. FromGenesis(j.target) # {}
    BY <1>1, <1>4, BranchesDiffer
  <2> QED BY <1>1, <1>2, <2>1, <2>2 DEF Owes, Going, Pending, FromGenesis
<1>5. CASE ~ AnchoredCase(j) /\ ~ CompleteCase(j)
  <2>1. job'[r] = IdleJob
    BY <1>1, <1>5 DEF Compare
  <2> QED BY <2>1 DEF Owes, Going, IdleJob
<1> QED BY <1>3, <1>4, <1>5

\* Every step keeps the new branches covered.
LEMMA OwesStep ==
  ASSUME ChainInv, [Next]_vars, NEW r \in Attempt
  PROVE  Owes(r)'
<1> DEFINE j == job[r]
<1>1. /\ job \in [Attempt -> JobType] /\ j \in JobType /\ Owes(r) /\ stored \subseteq stored'
  BY LinkedStep DEF ChainInv, TypeOK, JobType, SomeNew, NewCovered, Owes
<1>2. CASE job'[r] = job[r]
  BY <1>1, <1>2 DEF Owes, Pending
<1>3. CASE job'[r] = IdleJob
  BY <1>3 DEF Owes, Going, IdleJob
<1>4. ASSUME NEW b \in Block, NEW buffered \in BOOLEAN, StartAttempt(r, b, buffered)
      PROVE  Owes(r)'
  <2>1. job'[r].at = "compare"
    BY <1>1, <1>4 DEF StartAttempt, IdleJob
  <2> QED BY <2>1 DEF Owes, Going
<1>5. CASE Compare(r)
  BY <1>5, CompareOwes
<1>6. CASE Unwind(r)
  <2>1. /\ j.at = "unwind" /\ job'[r].at = j.at /\ job'[r].target = j.target
        /\ job'[r].new = j.new
    BY <1>1, <1>6 DEF Unwind, JobType
  <2> QED BY <1>1, <2>1 DEF Owes, Going, Pending
<1>7. CASE Validate(r)
  <2>1. CASE j.full \/ j.new \subseteq Valid
    <3>1. /\ j.at = "unwind" /\ job'[r].at = "store" /\ job'[r].target = j.target
          /\ job'[r].new = j.new
      BY <1>1, <1>7, <2>1 DEF Validate, JobType
    <3> QED BY <1>1, <3>1 DEF Owes, Going, Pending
  <2>2. CASE ~ (j.full \/ j.new \subseteq Valid)
    BY <1>1, <1>3, <1>7, <2>2 DEF Validate
  <2> QED BY <2>1, <2>2
<1>8. CASE StoreNew(r)
  <2>1. /\ j.at = "store" /\ job'[r].at = "apply" /\ job'[r].target = j.target
        /\ job'[r].new = j.new /\ stored' = stored \cup {Lowest(j.new)}
    BY <1>1, <1>8 DEF StoreNew, StoreBlock, JobType
  <2> QED BY <1>1, <2>1 DEF Owes, Going, Pending
<1>9. CASE ApplyNew(r)
  <2> DEFINE rest == j.new \ {Lowest(j.new)}
  <2>1. /\ j.at = "apply" /\ job'[r].target = j.target /\ job'[r].new = rest
        /\ job'[r].at = IF rest = {} THEN "switch" ELSE "store"
        /\ stored' = stored
    BY <1>1, <1>9 DEF ApplyNew, JobType, chain
  <2>2. Path[j.target] \subseteq stored \cup rest
    BY <1>1, <2>1 DEF Owes, Going, Pending
  <2> HIDE DEF rest
  <2>3. CASE rest = {}
    BY <2>1, <2>2, <2>3 DEF Owes, Going, Pending
  <2>4. CASE rest # {}
    BY <2>1, <2>2, <2>4 DEF Owes, Going, Pending
  <2> QED BY <2>3, <2>4
<1>10. CASE SwitchTip(r)
  BY <1>1, <1>3, <1>10 DEF SwitchTip
<1> QED
  BY <1>2, <1>3, <1>4, <1>5, <1>6, <1>7, <1>8, <1>9, <1>10, JobSteps DEF ChainInv, AttemptStep

\* A node starts with the genesis block and nothing under way.
LEMMA ChainInit == Init => ChainInv
<1> SUFFICES ASSUME Init PROVE ChainInv
  OBVIOUS
<1> USE BlockTreeAssumption, ReorgAssumption
<1>1. IdleJob \in JobType
  BY DEF IdleJob, JobType
<1>2. TypeOK
  BY <1>1 DEF Init, TypeOK, IdleTask, JobType
<1>3. TipLinked
  BY DEF Init, TipLinked, Linked
<1>4. SomeNew /\ NewCovered /\ NoGenesis
  BY DEF Init, SomeNew, NewCovered, Going, IdleJob, NoGenesis
<1> QED BY <1>2, <1>3, <1>4 DEF ChainInv

\* Every step keeps the invariant.
LEMMA ChainStep == ChainInv /\ [Next]_vars => ChainInv'
<1> SUFFICES ASSUME ChainInv, [Next]_vars PROVE ChainInv'
  OBVIOUS
<1>1. SomeNew' /\ NewCovered'
  BY OwesStep DEF Owes, SomeNew, NewCovered
<1> QED BY <1>1, TypeStep, LinkedStep, GenesisStep DEF ChainInv

\* The inductive invariant holds throughout.
LEMMA ChainAlways == Spec => []ChainInv
  BY ChainInit, ChainStep, PTL DEF Spec

\* Wherever importers, the miner and any number of reorganizations interleave,
\* and wherever the process dies, the types hold and the branch of the tip is on
\* disk (fork.rs, reorganize_chain: a switch comes after all of its branch).
THEOREM ReorgKeepsChain == Spec => []ChainSound
<1>1. ChainInv => ChainSound
  BY DEF ChainInv, ChainSound
<1> QED BY <1>1, ChainAlways, PTL

-----------------------------------------------------------------------------
(* Refinement of CanonicalChain. *)

\* The jobs that are asked for change with the attempt that steps only.
LEMMA AskedSteps ==
  ASSUME TypeOK, NEW r \in Attempt, NEW k \in JobType, job' = [job EXCEPT ![r] = k]
  PROVE  /\ k.at # "switch" /\ job[r].at # "switch" => Asked' = Asked
         /\ k.at = "switch" /\ job[r].at # "switch" => Asked' = Asked \cup {k.target}
         /\ k.at # "switch" /\ job[r].at = "switch" => Asked' \in {Asked, Asked \ {job[r].target}}
<1>1. /\ job \in [Attempt -> JobType] /\ job'[r] = k
      /\ \A s \in Attempt \ {r} : job'[s] = job[s]
  BY DEF TypeOK, JobType
<1>2. ASSUME k.at # "switch", job[r].at # "switch" PROVE Asked' = Asked
  BY <1>1, <1>2 DEF Asked
<1>3. ASSUME k.at = "switch", job[r].at # "switch" PROVE Asked' = Asked \cup {k.target}
  BY <1>1, <1>3 DEF Asked
<1>4. ASSUME k.at # "switch", job[r].at = "switch"
      PROVE  Asked' = Asked \/ Asked' = Asked \ {job[r].target}
  <2>1. CASE \E s \in Attempt \ {r} : job[s].at = "switch" /\ job[s].target = job[r].target
    <3>1. Asked' = Asked
      BY <1>1, <1>4, <2>1 DEF Asked
    <3> QED BY <3>1
  <2>2. CASE ~ \E s \in Attempt \ {r} : job[s].at = "switch" /\ job[s].target = job[r].target
    <3>1. Asked' = Asked \ {job[r].target}
      BY <1>1, <1>4, <2>2 DEF Asked
    <3> QED BY <3>1
  <2> QED BY <2>1, <2>2
<1> QED BY <1>2, <1>3, <1>4

\* store_block extends the chain or adds to what is known.
LEMMA StoreRefines ==
  ASSUME NEW b \in Block \ {Genesis}, StoreBlock(b), Asked' = Asked
  PROVE  Canonical!Learn(b) \/ Canonical!Extend(b)
BY DEF StoreBlock, IsNewBest, Canonical!Learn, Canonical!Extend

\* An attempt's step is a store, a request, a switch, or nothing.
LEMMA AttemptRefines ==
  ASSUME ChainInv, [Next]_vars, NEW r \in Attempt, AttemptStep(r)
  PROVE  Canonical!Next \/ UNCHANGED <<stored, tip, Asked>>
<1> DEFINE j == job[r]
<1>1. /\ TypeOK /\ job \in [Attempt -> JobType] /\ j \in JobType
  BY DEF ChainInv, TypeOK, JobType
<1>2. IdleJob \in JobType /\ IdleJob.at = "idle"
  BY BlockTreeAssumption DEF IdleJob, JobType
<1>3. ASSUME NEW k \in JobType, job' = [job EXCEPT ![r] = k],
             k.at # "switch", j.at # "switch", UNCHANGED <<stored, tip>>
      PROVE  UNCHANGED <<stored, tip, Asked>>
  BY <1>1, <1>3, AskedSteps
<1>4. job' \in [Attempt -> JobType]
  BY AttemptTypeStep, <1>1 DEF ChainInv, Types
<1>5. CASE StoreNew(r)
  <2>1. j.at = "store" /\ job' = [job EXCEPT ![r] = [j EXCEPT !.at = "apply"]]
    BY <1>1, <1>5 DEF StoreNew
  <2>2. [j EXCEPT !.at = "apply"] \in JobType /\ [j EXCEPT !.at = "apply"].at = "apply"
    BY <1>1 DEF JobType
  <2>3. Asked' = Asked
    BY <1>1, <2>1, <2>2, AskedSteps
  <2>4. j.new \in SUBSET Block /\ j.new # {} /\ Genesis \notin j.new
    BY <1>1, <2>1 DEF ChainInv, SomeNew, JobType
  <2>5. Lowest(j.new) \in Block \ {Genesis}
    BY <2>4, LowestIn
  <2> QED BY <1>5, <2>3, <2>5, StoreRefines DEF StoreNew, Canonical!Next
<1>6. CASE ApplyNew(r)
  <2> DEFINE k == job'[r]
  <2>1. /\ k \in JobType /\ job' = [job EXCEPT ![r] = k] /\ j.at = "apply"
        /\ k.at \in {"switch", "store"} /\ k.target = j.target /\ UNCHANGED <<stored, tip>>
    BY <1>1, <1>4, <1>6 DEF ApplyNew, JobType, chain
  <2>2. CASE k.at = "store"
    BY <1>3, <2>1, <2>2
  <2>3. CASE k.at = "switch"
    <3>1. Asked' = Asked \cup {j.target} /\ j.target \in Block
      BY <1>1, <2>1, <2>3, AskedSteps DEF JobType
    <3>2. Path[j.target] \subseteq stored
      <4>1. Path[k.target] \subseteq stored' \cup {}
        BY <2>3, OwesStep DEF Owes, Going, Pending
      <4> QED BY <2>1, <4>1
    <3>3. Canonical!Ask(j.target)
      BY <2>1, <3>1, <3>2 DEF Canonical!Ask, Canonical!Linked, Linked
    <3> QED BY <3>1, <3>3 DEF Canonical!Next
  <2> QED BY <2>1, <2>2, <2>3
<1>7. CASE SwitchTip(r)
  <2>1. /\ j.at = "switch" /\ job' = [job EXCEPT ![r] = IdleJob]
        /\ tip' = j.target /\ stored' = stored /\ j.target \in Block
    BY <1>1, <1>7 DEF SwitchTip, JobType
  <2>2. j.target \in Asked /\ Asked' \in {Asked, Asked \ {j.target}}
    BY <1>1, <1>2, <2>1, AskedSteps DEF Asked
  <2> QED BY <2>1, <2>2 DEF Canonical!Next, Canonical!Reorganize
<1>8. CASE ~ (StoreNew(r) \/ ApplyNew(r) \/ SwitchTip(r))
  <2> DEFINE k == job'[r]
  <2>1. job' = [job EXCEPT ![r] = k] /\ UNCHANGED <<stored, tip>>
    BY <1>1, <1>8 DEF AttemptStep, StartAttempt, Compare, Unwind, Validate, chain
  <2>2. j.at # "switch"
    BY <1>8 DEF AttemptStep, StartAttempt, Compare, Unwind, Validate
  <2>3. k.at # "switch"
    <3>1. ASSUME NEW b \in Block, NEW buffered \in BOOLEAN, StartAttempt(r, b, buffered)
          PROVE  k.at = "compare"
      BY <1>1, <3>1 DEF StartAttempt, IdleJob
    <3>2. CASE Compare(r)
      <4>1. k = IdleJob \/ k.at = "unwind"
        BY <1>1, <3>2 DEF Compare, JobType
      <4> QED BY <1>2, <4>1
    <3>3. CASE Unwind(r)
      <4>1. k.at = "unwind"
        BY <1>1, <3>3 DEF Unwind, JobType
      <4> QED BY <4>1
    <3>4. CASE Validate(r)
      <4>1. k = IdleJob \/ k.at = "store"
        BY <1>1, <3>4 DEF Validate, JobType
      <4> QED BY <1>2, <4>1
    <3> QED BY <1>8, <3>1, <3>2, <3>3, <3>4 DEF AttemptStep
  <2> QED BY <1>3, <1>4, <2>1, <2>2, <2>3
<1> QED BY <1>5, <1>6, <1>7, <1>8

\* Every step is one of the canonical chain, or nothing to it.
LEMMA RefineStep ==
  ASSUME ChainInv, [Next]_vars
  PROVE  [Canonical!Next]_<<stored, tip, Asked>>
<1>1. TypeOK
  BY DEF ChainInv
<1>2. ASSUME NEW t \in Task, task[t].at = "store", StoreBlock(task[t].blk), job' = job
      PROVE  Canonical!Next
  <2>1. task[t].blk \in Block \ {Genesis} /\ Asked' = Asked
    BY <1>1, <1>2 DEF TypeOK, Asked
  <2> QED BY <1>2, <2>1, StoreRefines DEF Canonical!Next
<1>3. ASSUME UNCHANGED <<stored, tip, job>> PROVE UNCHANGED <<stored, tip, Asked>>
  BY <1>3 DEF Asked
<1>4. ASSUME NEW i \in Importer, ImporterStep(i)
      PROVE  Canonical!Next \/ UNCHANGED <<stored, tip, job>>
  BY <1>2, <1>4 DEF ImporterStep, Accept, BufferBlock, Drain, StoreAccepted, ApplyStored, chain, Task
<1>5. ASSUME NEW m \in Miner, MinerStep(m)
      PROVE  Canonical!Next \/ UNCHANGED <<stored, tip, job>>
  BY <1>2, <1>5 DEF MinerStep, MineBlock, StoreMined, ApplyStored, chain, Task
<1>6. CASE Crash
  <2>1. Asked' = {} /\ UNCHANGED <<stored, tip>>
    BY <1>6 DEF Crash, Asked, IdleJob, chain
  <2> QED BY <2>1 DEF Canonical!Next, Canonical!Forget
<1> QED BY <1>3, <1>4, <1>5, <1>6, AttemptRefines DEF Next, Step, vars

\* It starts as one.
LEMMA RefineInit == Init => Canonical!Init
BY BlockTreeAssumption DEF Init, Canonical!Init, Asked, IdleJob

\* The chain a node keeps under every interleaving of its tasks, and through
\* crashes, is the chain ChainState promises: it moves by successors and by
\* switches to branches that were complete on disk when they were asked for
\* (fork.rs, reorganize_chain with update_best_chain).
THEOREM ReorgRefinesChain == Spec => RefinesCanonicalChain
<1>1. ChainInv /\ [Next]_vars => [Canonical!Next]_<<stored, tip, Asked>>
  BY RefineStep
<1> QED BY <1>1, ChainAlways, RefineInit, PTL DEF Spec, RefinesCanonicalChain, Canonical!Spec

-----------------------------------------------------------------------------
(* Undisturbed nodes. *)

\* As long as nobody was disturbed, every step was an undisturbed one.
LEMMA QuietSteps ==
  ASSUME TypeOK, [Next]_vars, upsets' = 0
  PROVE  upsets = 0 /\ (UNCHANGED vars \/ (Step /\ Undisturbed))
<1>1. upsets \in Nat
  BY ReorgAssumption DEF TypeOK
<1>2. CASE Next
  BY <1>1, <1>2 DEF Next
<1>3. CASE UNCHANGED vars
  BY <1>3 DEF vars
<1> QED BY <1>2, <1>3

\* A step makes at most the task active whose step it is.
LEMMA ActiveSteps ==
  ASSUME TypeOK, Step
  PROVE  \E t : Active' \subseteq Active \cup {t}
<1>1. job \in [Attempt -> JobType] /\ task \in [Task -> TaskType]
  BY DEF TypeOK, JobType, TaskType
<1>2. Importer \subseteq Task /\ Miner \subseteq Task
  BY DEF Task
<1>3. ASSUME NEW i \in Importer, ImporterStep(i) PROVE Active' \subseteq Active \cup {i}
  <2>1. job' = job /\ \A t \in Task \ {i} : task'[t] = task[t]
    BY <1>1, <1>2, <1>3
       DEF ImporterStep, Accept, BufferBlock, Drain, StoreAccepted, ApplyStored
  <2> QED BY <1>2, <2>1 DEF Active
<1>4. ASSUME NEW m \in Miner, MinerStep(m) PROVE Active' \subseteq Active \cup {m}
  <2>1. job' = job /\ \A t \in Task \ {m} : task'[t] = task[t]
    BY <1>1, <1>2, <1>4 DEF MinerStep, MineBlock, StoreMined, ApplyStored
  <2> QED BY <1>2, <2>1 DEF Active
<1>5. ASSUME NEW r \in Attempt, AttemptStep(r) PROVE Active' \subseteq Active \cup {r}
  <2>1. task' = task /\ \A s \in Attempt \ {r} : job'[s] = job[s]
    BY <1>1, <1>5
       DEF AttemptStep, StartAttempt, Compare, Unwind, Validate, StoreNew, ApplyNew, SwitchTip
  <2> QED BY <2>1 DEF Active
<1>6. CASE Crash
  BY <1>2, <1>6 DEF Crash, Active, IdleTask, IdleJob
<1> QED BY <1>3, <1>4, <1>5, <1>6 DEF Step

\* So an undisturbed step leaves at most one of them active.
LEMMA AloneStep ==
  ASSUME TypeOK, Alone, Step, Undisturbed
  PROVE  Alone'
<1> SUFFICES ASSUME NEW x \in Active', NEW y \in Active', x # y PROVE FALSE
  BY DEF Alone
<1>1. PICK t : Active' \subseteq Active \cup {t}
  BY ActiveSteps
<1>2. IsFiniteSet(Active')
  <2>1. \E z : Active \subseteq {z}
    BY DEF Alone
  <2>2. PICK z : Active' \subseteq {z, t}
    BY <1>1, <2>1
  <2>3. IsFiniteSet({z}) /\ IsFiniteSet({z} \cup {t})
    BY FS_Singleton, FS_AddElement
  <2>4. {z, t} = {z} \cup {t}
    OBVIOUS
  <2> QED BY <2>2, <2>3, <2>4, FS_Subset
<1>3. Cardinality({x, y}) = 2
  <2>1. IsFiniteSet({x}) /\ Cardinality({x}) = 1
    BY FS_Singleton
  <2>2. Cardinality({x} \cup {y}) = Cardinality({x}) + 1
    BY <2>1, FS_AddElement
  <2>3. {x, y} = {x} \cup {y}
    OBVIOUS
  <2> QED BY <2>1, <2>2, <2>3
<1>4. Cardinality({x, y}) <= Cardinality(Active') /\ Cardinality(Active') \in Nat
  <2>1. {x, y} \subseteq Active'
    OBVIOUS
  <2> QED BY <1>2, <2>1, FS_Subset, FS_CardinalityType
<1>5. Active' \subseteq Active
  BY <1>3, <1>4 DEF Undisturbed
<1> QED BY <1>5 DEF Alone

\* While an attempt is under way, an undisturbed step is its own, or does not
\* concern the chain.
LEMMA QuietActor ==
  ASSUME TypeOK, Alone, Alone', Step, NEW r \in Attempt, job[r].at # "idle", job'[r].at # "idle"
  PROVE  AttemptStep(r) \/ UNCHANGED <<stored, tip, job>>
<1>1. /\ job \in [Attempt -> JobType] /\ task \in [Task -> TaskType]
      /\ Importer \subseteq Task /\ Miner \subseteq Task
      /\ r \in Active /\ r \in Active'
  BY DEF TypeOK, JobType, TaskType, Task, Active
<1>2. ASSUME NEW t, t \in Active \/ t \in Active' PROVE t = r
  BY <1>1, <1>2 DEF Alone
<1>3. \A t \in Importer \cup Miner : t # r
  BY ReorgAssumption
<1>4. ASSUME NEW i \in Importer, ImporterStep(i) PROVE UNCHANGED <<stored, tip, job>>
  <2>1. task[i].at = "idle"
    BY <1>2, <1>3 DEF Active
  <2> QED BY <1>4, <2>1 DEF ImporterStep, Accept, BufferBlock, Drain, StoreAccepted, ApplyStored, chain
<1>5. ASSUME NEW m \in Miner, MinerStep(m) PROVE UNCHANGED <<stored, tip, job>>
  <2>1. task'[m].at # "apply"
    BY <1>2, <1>3 DEF Active
  <2>2. ~ StoreMined(m)
    BY <1>1, <2>1 DEF StoreMined, TaskType
  <2> QED BY <1>5, <2>2 DEF MinerStep, MineBlock, ApplyStored, chain
<1>6. ASSUME NEW s \in Attempt, AttemptStep(s), s # r PROVE FALSE
  <2>1. job[s].at = "idle" /\ job'[s].at = "idle"
    BY <1>2, <1>6 DEF Active
  <2>2. PICK b \in Block, buffered \in BOOLEAN : StartAttempt(s, b, buffered)
    BY <1>6, <2>1
       DEF AttemptStep, Compare, Unwind, Validate, StoreNew, ApplyNew, SwitchTip
  <2>3. job'[s].at = "compare"
    BY <1>1, <2>2 DEF StartAttempt, IdleJob
  <2> QED BY <2>1, <2>3
<1>7. CASE Crash
  BY <1>7 DEF Crash, IdleJob
<1> QED BY <1>4, <1>5, <1>6, <1>7 DEF Step

\* What an attempt has read is still so when it decides.
LEMMA AsReadStep ==
  ASSUME TypeOK, Alone, Alone', AsRead, [Next]_vars, Step, Undisturbed
  PROVE  AsRead'
<1> SUFFICES ASSUME NEW r \in Attempt, job'[r].at = "compare"
             PROVE  /\ job'[r].base = tip'
                    /\ job'[r].alt = IF job'[r].buffered THEN Buffered' ELSE {}
  BY DEF AsRead
<1>1. job \in [Attempt -> JobType] /\ job[r] \in JobType
  BY DEF TypeOK, JobType
<1>2. ASSUME NEW b \in Block, NEW buffered \in BOOLEAN, StartAttempt(r, b, buffered)
      PROVE  /\ job'[r].base = tip'
             /\ job'[r].alt = IF job'[r].buffered THEN Buffered' ELSE {}
  BY <1>1, <1>2 DEF StartAttempt, chain, IdleJob, Buffered
<1>3. CASE job'[r] = job[r]
  <2>1. UNCHANGED tip
    BY <1>1, <1>3, QuietActor
       DEF AttemptStep, StartAttempt, Compare, Unwind, Validate, StoreNew, ApplyNew, SwitchTip, chain
  <2>2. buffer' = buffer
    BY <1>3 DEF Undisturbed
  <2> QED BY ZenonT(30), <1>3, <2>1, <2>2 DEF AsRead, Buffered
<1>4. AttemptStep(r) \/ job'[r] = job[r]
  BY JobSteps DEF IdleJob
<1>5. CASE AttemptStep(r) /\ job'[r] # job[r]
  <2>1. ~ Compare(r)
    <3> SUFFICES ASSUME Compare(r) PROVE FALSE
      OBVIOUS
    <3>1. job'[r] = IdleJob \/ job'[r].at = "unwind"
      BY <1>1 DEF Compare, JobType
    <3> QED BY <3>1 DEF IdleJob
  <2>2. ~ Unwind(r)
    <3>1. Unwind(r) => job'[r].at = "unwind"
      BY <1>1 DEF Unwind, JobType
    <3> QED BY <3>1
  <2>3. ~ Validate(r)
    <3>1. Validate(r) => job'[r] = IdleJob \/ job'[r].at = "store"
      BY <1>1 DEF Validate, JobType
    <3> QED BY <3>1 DEF IdleJob
  <2>4. ~ StoreNew(r) /\ ~ SwitchTip(r)
    BY <1>1 DEF StoreNew, SwitchTip, IdleJob, JobType
  <2>5. ~ ApplyNew(r)
    <3>1. ApplyNew(r) => job'[r].at \in {"switch", "store"}
      BY <1>1 DEF ApplyNew, JobType
    <3> QED BY <3>1
  <2> QED BY <1>2, <1>5, <2>1, <2>2, <2>3, <2>4, <2>5 DEF AttemptStep
<1> QED BY <1>3, <1>4, <1>5

\* compare_chains, with tip and buffer still as read, decides for a heavier or a
\* longer branch that meets the chain at or above the anchor.
LEMMA CompareJustified ==
  ASSUME ChainInv, AsRead, NEW r \in Attempt, Compare(r)
  PROVE  Justified(r)'
<1> DEFINE j == job[r]
           c == CommonAncestor(tip, j.target)
<1>1. /\ job \in [Attempt -> JobType] /\ tip \in Block /\ j.target \in Block
      /\ j.at = "compare" /\ j.base = tip /\ tip' = tip
      /\ j.alt = IF j.buffered THEN Buffered ELSE {}
  BY DEF ChainInv, TypeOK, JobType, AsRead, Compare, chain
<1>2. /\ c \in Path[tip] /\ c \in Path[j.target] /\ Path[tip] \cap Path[j.target] = Path[c]
      /\ c \in Block /\ tip \in Path[tip]
  <2>1. c \in Path[tip] \cap Path[j.target] /\ Path[tip] \cap Path[j.target] = Path[c]
    BY <1>1, CommonBranch
  <2>2. Path[tip] \subseteq Block /\ tip \in Path[tip]
    BY <1>1, PathEnds
  <2> HIDE DEF c, j
  <2> QED BY <2>1, <2>2
<1>3. ~ CompleteCase(j)
  BY <1>1, PathEnds DEF CompleteCase, Reachable
<1> HIDE DEF c
<1>4. CASE AnchoredCase(j)
  <2>1. /\ job'[r].at = "unwind" /\ job'[r].target = j.target
        /\ job'[r].new = Path[j.target] \ Path[c]
    BY <1>1, <1>4 DEF Compare, JobType, c
  <2>2. /\ Height[c] >= MinAnchor
        /\ Heavier(PathWork[j.target] - PathWork[c], OldWork(j, c))
    BY <1>4 DEF AnchoredCase, c
  <2>3. Anchored(j.target)
    BY <1>2, <2>2 DEF Anchored
  <2>4. CASE tip \in Path[j.target]
    <3>1. Path[c] = Path[tip]
      <4>1. Path[tip] \subseteq Path[j.target]
        BY <1>1, <2>4, PathBelow DEF Below
      <4> QED BY <1>2, <4>1
    <3> QED BY <1>1, <2>1, <2>3, <2>4, <3>1 DEF Justified, Going, Ahead, Pending, Anchored
  <2>5. CASE tip \notin Path[j.target]
    <3>1. c # tip
      BY <1>2, <2>5
    <3>2. Height[c] < Height[tip]
      <4>1. Height[c] <= Height[tip] /\ (Height[c] = Height[tip] => c = tip)
        BY <1>1, <1>2, PathBelow DEF Below
      <4>2. Height[c] \in Nat /\ Height[tip] \in Nat
        BY <1>1, <1>2, BlockTreeAssumption
      <4> QED BY <3>1, <4>1, <4>2
    <3>3. BlockAt(tip, Height[tip]) = tip
      <4>1. Height[tip] \in 0..Height[tip]
        BY <1>1, BlockTreeAssumption
      <4> QED BY <1>1, <1>2, <4>1, BlockAtHeight
    <3>4. OldWork(j, c) = PathWork[tip] - PathWork[c]
      BY <1>1, <3>2, <3>3 DEF OldWork
    <3>5. /\ PathWork[tip] \in Nat /\ PathWork[c] \in Nat /\ PathWork[j.target] \in Nat
          /\ PathWork[c] <= PathWork[tip]
      BY <1>1, <1>2, PathBelow, BlockTreeAssumption DEF Below
    <3>6. PathWork[j.target] > PathWork[tip]
      BY <2>2, <3>4, <3>5 DEF Heavier
    <3>7. job'[r].new \subseteq Path[j.target]
      BY <2>1
    <3> QED BY <1>1, <2>1, <2>3, <2>5, <3>6, <3>7 DEF Justified, Fork, Anchored
  <2> QED BY <2>4, <2>5
<1>5. CASE ~ AnchoredCase(j)
  <2>1. job'[r] = IdleJob
    BY <1>1, <1>3, <1>5 DEF Compare
  <2> QED BY <2>1 DEF Justified, Going, IdleJob
<1> QED BY <1>4, <1>5

\* The lowest block above the tip on a branch the tip is on is its successor.
LEMMA LowestIsNext ==
  ASSUME NEW t \in Block, NEW b \in Block, t \in Path[b],
         NEW n \in Path[b] \ Path[t],
         \A d \in Path[b] \ Path[t] : Height[n] <= Height[d]
  PROVE  n \in Block \ {Genesis} /\ Parent[n] = t /\ Path[n] = Path[t] \cup {n}
<1>1. n \in Block \ {Genesis}
  BY PathEnds
<1>2. /\ Parent[n] \in Block /\ Path[n] = Path[Parent[n]] \cup {n}
      /\ Height[n] = Height[Parent[n]] + 1
      /\ Height[Parent[n]] \in Nat /\ Height[t] \in Nat
  BY <1>1, BlockTreeAssumption
<1>3. Parent[n] \in Path[b]
  <2>1. Parent[n] \in Path[n]
    BY <1>2, PathEnds
  <2>2. Path[n] \subseteq Path[b]
    BY PathBelow DEF Below
  <2> QED BY <2>1, <2>2
<1>4. Parent[n] \in Path[t]
  <2>1. ~ (Height[n] <= Height[Parent[n]])
    BY <1>2
  <2> QED BY <1>3, <2>1
<1>5. Height[n] > Height[t]
  <2>1. ~ (Height[n] <= Height[t])
    BY PathChain DEF Chained
  <2> QED BY <1>2, <2>1
<1>6. Height[Parent[n]] = Height[t]
  <2>1. Height[Parent[n]] <= Height[t]
    BY <1>4, PathBelow DEF Below
  <2> QED BY <1>2, <1>5, <2>1
<1>7. Parent[n] = t
  BY <1>4, <1>6, PathBelow DEF Below
<1> QED BY <1>1, <1>2, <1>7

\* Storing the next block of the new branch moves the tip along it, or not at all.
LEMMA StoreJustified ==
  ASSUME ChainInv, NEW r \in Attempt, Justified(r), StoreNew(r)
  PROVE  Justified(r)'
<1> DEFINE j == job[r]
           n == Lowest(j.new)
<1>1. /\ job \in [Attempt -> JobType] /\ tip \in Block /\ j.target \in Block
      /\ j.at = "store" /\ j.new # {} /\ j.new \in SUBSET (Block \ {Genesis})
  BY DEF ChainInv, TypeOK, JobType, SomeNew, StoreNew
<1>2. n \in j.new /\ n \in Block /\ \A d \in j.new : Height[n] <= Height[d]
  BY <1>1, LowestIn
<1>3. /\ job'[r].at = "apply" /\ job'[r].target = j.target /\ job'[r].new = j.new
      /\ tip' = IF Parent[n] = tip THEN n ELSE tip
  BY <1>1 DEF StoreNew, StoreBlock, IsNewBest, JobType
<1>4. /\ Going(j) /\ j.new \subseteq Path[j.target] /\ Anchored(j.target)
      /\ Fork(j) \/ Ahead(j)
      /\ Pending(j) = j.new
  BY <1>1 DEF Justified, Going, Pending
<1>5. Going(job'[r]) /\ Pending(job'[r]) = j.new \ {n}
  BY <1>3 DEF Going, Pending
<1> HIDE DEF n
<1>6. CASE Fork(j)
  <2>1. tip \notin Path[j.target] /\ PathWork[j.target] > PathWork[tip]
    BY <1>6 DEF Fork
  <2>2. Parent[n] # tip
    <3>1. Path[n] \subseteq Path[j.target] /\ Parent[n] \in Path[Parent[n]] /\ n # Genesis
      BY <1>1, <1>2, <1>4, PathEnds, PathBelow, BlockTreeAssumption DEF Below
    <3>2. Parent[n] \in Path[n]
      BY <1>2, <3>1, BlockTreeAssumption
    <3> QED BY <2>1, <3>1, <3>2
  <2>3. tip' = tip
    BY <1>3, <2>2
  <2> QED BY <1>3, <1>4, <2>1, <2>3 DEF Justified, Fork, Anchored
<1>7. CASE Ahead(j)
  <2>1. tip \in Path[j.target] /\ Path[j.target] \ Path[tip] = j.new
    BY <1>4, <1>7 DEF Ahead
  <2>2. Parent[n] = tip /\ Path[n] = Path[tip] \cup {n}
    BY <1>1, <1>2, <2>1, LowestIsNext
  <2>3. tip' = n
    BY <1>3, <2>2
  <2>4. n \in Path[j.target] /\ Path[j.target] \ Path[n] = j.new \ {n}
    BY <1>2, <2>1, <2>2
  <2>5. \E c \in Path[tip'] \cap Path[j.target] : Height[c] >= MinAnchor
    BY <1>4, <2>2, <2>3 DEF Anchored
  <2> QED BY <1>3, <1>4, <1>5, <2>3, <2>4, <2>5 DEF Justified, Ahead, Anchored
<1> QED BY <1>4, <1>6, <1>7

\* An undisturbed step keeps every attempt justified.
LEMMA JustifiedStep ==
  ASSUME ChainInv, Alone, Alone', AsRead, [Next]_vars, Step, NEW r \in Attempt, Justified(r)
  PROVE  Justified(r)'
<1> SUFFICES ASSUME Going(job'[r]) PROVE Justified(r)'
  BY DEF Justified
<1> DEFINE j == job[r]
<1>1. /\ TypeOK /\ job \in [Attempt -> JobType] /\ j \in JobType /\ job'[r].at # "idle"
  BY DEF ChainInv, TypeOK, JobType, Going
<1>2. ASSUME tip' = tip, job'[r].target = j.target, job'[r].new \subseteq j.new,
             Going(j), Pending(job'[r]) = Pending(j)
      PROVE  Justified(r)'
  <2>1. /\ j.new \subseteq Path[j.target] /\ Anchored(j.target)
        /\ Fork(j) \/ Ahead(j)
    BY <1>2 DEF Justified
  <2> QED BY <1>2, <2>1 DEF Justified, Fork, Ahead, Anchored
<1>3. ASSUME job'[r] = j PROVE Justified(r)'
  <2>1. tip' = tip
    <3>1. AttemptStep(r) \/ UNCHANGED <<stored, tip, job>>
      BY <1>1, <1>3, QuietActor
    <3>2. ~ StoreNew(r) /\ ~ SwitchTip(r)
      BY <1>1, <1>3 DEF StoreNew, SwitchTip, IdleJob, JobType
    <3> QED BY <3>1, <3>2
            DEF AttemptStep, StartAttempt, Compare, Unwind, Validate, ApplyNew, chain
  <2> QED BY <1>2, <1>3, <2>1
<1>4. ASSUME NEW b \in Block, NEW buffered \in BOOLEAN, StartAttempt(r, b, buffered)
      PROVE  FALSE
  BY <1>1, <1>4 DEF StartAttempt, IdleJob, Going
<1>5. CASE Compare(r)
  BY <1>5, CompareJustified
<1>6. CASE Unwind(r)
  <2>1. /\ j.at = "unwind" /\ job'[r].at = j.at /\ job'[r].target = j.target
        /\ job'[r].new = j.new /\ tip' = tip
    BY <1>1, <1>6 DEF Unwind, JobType, chain
  <2> QED BY <1>2, <2>1 DEF Going, Pending
<1>7. CASE Validate(r)
  <2>1. job'[r] # IdleJob
    BY <1>1 DEF IdleJob
  <2>2. /\ j.at = "unwind" /\ job'[r].at = "store" /\ job'[r].target = j.target
        /\ job'[r].new = j.new /\ tip' = tip
    BY <1>1, <1>7, <2>1 DEF Validate, JobType, chain
  <2> QED BY <1>2, <2>2 DEF Going, Pending
<1>8. CASE StoreNew(r)
  BY <1>8, StoreJustified
<1>9. CASE ApplyNew(r)
  <2> DEFINE rest == j.new \ {Lowest(j.new)}
  <2>1. /\ j.at = "apply" /\ job'[r].target = j.target /\ job'[r].new = rest
        /\ job'[r].at = IF rest = {} THEN "switch" ELSE "store"
        /\ tip' = tip /\ Pending(j) = rest
    BY <1>1, <1>9 DEF ApplyNew, JobType, chain, Pending
  <2>2. rest \subseteq j.new
    OBVIOUS
  <2> HIDE DEF rest
  <2>3. Pending(job'[r]) = rest
    BY <2>1 DEF Pending
  <2> QED BY <1>2, <2>1, <2>2, <2>3 DEF Going
<1>10. CASE SwitchTip(r)
  BY <1>1, <1>10 DEF SwitchTip, IdleJob
<1>11. job'[r] # IdleJob
  BY <1>1 DEF IdleJob
<1> QED
  BY <1>1, <1>3, <1>4, <1>5, <1>6, <1>7, <1>8, <1>9, <1>10, <1>11, JobSteps DEF AttemptStep

\* In the beginning nothing is under way.
LEMMA QuietInit == Init => QuietInv
BY DEF Init, QuietInv, Alone, AsRead, Justified, Active, IdleTask, IdleJob, Going, Task

\* Every step keeps what holds of undisturbed nodes.
LEMMA QuietStep == ChainInv /\ QuietInv /\ [Next]_vars => QuietInv'
<1> SUFFICES ASSUME ChainInv, QuietInv, [Next]_vars, upsets' = 0
             PROVE  Alone' /\ AsRead' /\ \A r \in Attempt : Justified(r)'
  BY DEF QuietInv
<1>1. TypeOK
  BY DEF ChainInv
<1>2. /\ Alone /\ AsRead /\ \A r \in Attempt : Justified(r)
      /\ UNCHANGED vars \/ (Step /\ Undisturbed)
  BY <1>1, QuietSteps DEF QuietInv
<1>3. CASE UNCHANGED vars
  <2>1. Alone'
    BY <1>2, <1>3 DEF vars, Alone, Active
  <2>2. AsRead'
    BY <1>2, <1>3 DEF vars, AsRead, Buffered
  <2>3. \A r \in Attempt : Justified(r)'
    BY <1>2, <1>3 DEF vars, Justified, Fork, Ahead, Anchored
  <2> QED BY <2>1, <2>2, <2>3
<1>4. CASE Step /\ Undisturbed
  <2>1. Alone'
    BY <1>1, <1>2, <1>4, AloneStep
  <2>2. AsRead'
    BY <1>1, <1>2, <1>4, <2>1, AsReadStep
  <2>3. \A r \in Attempt : Justified(r)'
    BY <1>2, <1>4, <2>1, JustifiedStep
  <2> QED BY <2>1, <2>2, <2>3
<1> QED BY <1>2, <1>3, <1>4

\* Blocks whose branches meet at or above the anchor have the same block there.
LEMMA SameAnchor ==
  ASSUME NEW a \in Block, NEW b \in Block, NEW c \in Path[a] \cap Path[b], Height[c] >= MinAnchor
  PROVE  Height[b] >= MinAnchor /\ BlockAt(b, MinAnchor) = BlockAt(a, MinAnchor)
<1>1. /\ c \in Block /\ Height[c] \in Nat /\ Height[b] \in Nat /\ MinAnchor \in Nat
      /\ Height[c] <= Height[b]
  BY PathEnds, PathBelow, BlockTreeAssumption, ReorgAssumption DEF Below
<1>2. MinAnchor \in 0..Height[c]
  BY <1>1
<1>3. BlockAt(b, MinAnchor) = BlockAt(c, MinAnchor) /\ BlockAt(a, MinAnchor) = BlockAt(c, MinAnchor)
  BY <1>2, BlockAtBelow
<1> QED BY <1>1, <1>3

\* A step that moves the tip of an undisturbed node extends the chain, or switches
\* to a heavier branch that shares the anchor.
LEMMA MoveUp ==
  ASSUME ChainInv, QuietInv, [Next]_vars, upsets' = 0, tip' # tip
  PROVE  (Parent[tip'] = tip \/ PathWork[tip'] > PathWork[tip]) /\ AnchorKept
<1>1. TypeOK /\ tip \in Block
  BY DEF ChainInv, TypeOK
<1>2. Step /\ (\A r \in Attempt : Justified(r))
  BY <1>1, QuietSteps DEF vars, QuietInv
<1>3. ASSUME NEW b \in Block \ {Genesis}, StoreBlock(b) PROVE Parent[tip'] = tip /\ AnchorKept
  <2>1. tip' = b /\ Parent[b] = tip
    BY <1>3 DEF StoreBlock, IsNewBest
  <2>2. tip \in Path[tip] \cap Path[b]
    BY <1>1, <2>1, PathEnds, BlockTreeAssumption
  <2> QED BY <1>1, <2>1, <2>2, SameAnchor DEF AnchorKept
<1>4. ASSUME NEW r \in Attempt, SwitchTip(r)
      PROVE  PathWork[tip'] > PathWork[tip] /\ AnchorKept
  <2> DEFINE j == job[r]
  <2>1. j.at = "switch" /\ tip' = j.target /\ j.target \in Block /\ Going(j) /\ Pending(j) = {}
    BY <1>1, <1>4 DEF SwitchTip, TypeOK, Going, Pending
  <2>2. Anchored(j.target) /\ (Fork(j) \/ Ahead(j))
    BY <1>2, <2>1 DEF Justified
  <2>3. ~ Ahead(j)
    <3> SUFFICES ASSUME Ahead(j) PROVE FALSE
      OBVIOUS
    <3>1. tip \in Path[j.target] /\ j.target \in Path[tip]
      BY <2>1, PathEnds DEF Ahead
    <3>2. Height[tip] <= Height[j.target] /\ Height[j.target] <= Height[tip]
      BY <1>1, <2>1, <3>1, PathBelow DEF Below
    <3>3. Height[tip] \in Nat /\ Height[j.target] \in Nat
      BY <1>1, <2>1, BlockTreeAssumption
    <3>4. tip = j.target
      BY <2>1, <3>1, <3>2, <3>3, PathBelow DEF Below
    <3> QED BY <2>1, <3>4
  <2>4. PathWork[tip'] > PathWork[tip]
    BY <2>1, <2>2, <2>3 DEF Fork
  <2>5. PICK c \in Path[tip] \cap Path[j.target] : Height[c] >= MinAnchor
    BY <2>2 DEF Anchored
  <2> QED BY <1>1, <2>1, <2>4, <2>5, SameAnchor DEF AnchorKept
<1> QED BY <1>2, <1>3, <1>4, ChainSteps

\* The tip of a node whose tasks do not disturb each other is only ever extended
\* or moved to a heavier branch, and keeps the block at the anchor, although an
\* attempt switches long after it compared: for any tree and any number of
\* attempts (fork.rs, compare_chains and MIN_ANCHOR_DEPTH).
THEOREM QuietTipMovesUp == Spec => TipMovesUp
<1>1. ChainInv /\ QuietInv /\ [Next]_vars =>
        [upsets' = 0 /\ tip' # tip =>
           (Parent[tip'] = tip \/ PathWork[tip'] > PathWork[tip]) /\ AnchorKept]_vars
  BY MoveUp
<1>2. Spec => [](ChainInv /\ QuietInv)
  BY ChainInit, ChainStep, QuietInit, QuietStep, PTL DEF Spec
<1> QED BY <1>1, <1>2, PTL DEF Spec, TipMovesUp

-----------------------------------------------------------------------------
(* The recursions of Replay and Unwound have a solution on every tree. *)

\* The recursion of Replay, on the branch of one block.
Replays(f, b) ==
  f = [a \in Path[b] |->
         IF a = Genesis THEN GenesisLedger ELSE ApplyBody(f[Parent[a]], Body[a], 0)]

\* Replaying two branches gives the same ledgers where they overlap.
LEMMA ReplaysAgree ==
  ASSUME NEW b \in Block, NEW d \in Block, NEW f, NEW h, Replays(f, b), Replays(h, d)
  PROVE  \A a \in Path[b] \cap Path[d] : f[a] = h[a]
<1> DEFINE S == {a \in Block : a \in Path[b] \cap Path[d] => f[a] = h[a]}
<1>1. S = Block
  <2>1. Genesis \in S
    <3>1. Genesis \in Path[b] /\ Genesis \in Path[d] /\ Genesis \in Block
      BY PathEnds, BlockTreeAssumption
    <3>2. f[Genesis] = GenesisLedger /\ h[Genesis] = GenesisLedger
      BY <3>1 DEF Replays
    <3> QED BY <3>1, <3>2
  <2>2. ASSUME NEW a \in Block \ {Genesis}, Parent[a] \in S PROVE a \in S
    <3> SUFFICES ASSUME a \in Path[b] \cap Path[d] PROVE f[a] = h[a]
      OBVIOUS
    <3>1. Parent[a] \in Path[b] \cap Path[d]
      BY ParentOnPath
    <3>2. f[Parent[a]] = h[Parent[a]]
      BY <2>2, <3>1
    <3>3. f[a] = ApplyBody(f[Parent[a]], Body[a], 0) /\ h[a] = ApplyBody(h[Parent[a]], Body[a], 0)
      BY DEF Replays
    <3> QED BY <3>2, <3>3
  <2>3. S \subseteq Block /\ \A a \in Block \ {Genesis} : Parent[a] \in S => a \in S
    BY <2>2
  <2> HIDE DEF S
  <2> QED BY <2>1, <2>3, TreeInduction
<1> QED BY <1>1, PathEnds

\* Every branch can be replayed: to replay a block, replay its parent's branch.
LEMMA ReplaysExist == \A b \in Block : \E f : Replays(f, b)
<1> DEFINE S == {b \in Block : \E f : Replays(f, b)}
<1>1. S = Block
  <2>1. Genesis \in S
    <3>1. Genesis \in Block /\ Path[Genesis] = {Genesis}
      BY BlockTreeAssumption
    <3>2. Replays([a \in {Genesis} |-> GenesisLedger], Genesis)
      BY <3>1 DEF Replays
    <3> QED BY <3>1, <3>2
  <2>2. ASSUME NEW b \in Block \ {Genesis}, Parent[b] \in S PROVE b \in S
    <3>1. PICK f : Replays(f, Parent[b])
      BY <2>2
    <3> DEFINE p == Parent[b]
               L == ApplyBody(f[p], Body[b], 0)
               h == [a \in Path[b] |-> IF a = b THEN L ELSE f[a]]
    <3>2. p \in Block /\ Path[b] = Path[p] \cup {b} /\ b \notin Path[p] /\ p \in Path[p]
      BY ParentBranch
    <3>3. ASSUME NEW a \in Path[b]
          PROVE  h[a] = IF a = Genesis THEN GenesisLedger ELSE ApplyBody(h[Parent[a]], Body[a], 0)
      <4>1. CASE a = b
        <5>1. h[b] = L /\ h[p] = f[p]
          BY <3>2
        <5> HIDE DEF h
        <5> QED BY <4>1, <5>1
      <4>2. CASE a # b
        <5>1. a \in Path[p] /\ h[a] = f[a]
          BY <3>2, <4>2
        <5>2. f[a] = IF a = Genesis THEN GenesisLedger ELSE ApplyBody(f[Parent[a]], Body[a], 0)
          BY <3>1, <5>1 DEF Replays
        <5>3. a # Genesis => h[Parent[a]] = f[Parent[a]]
          <6> SUFFICES ASSUME a # Genesis PROVE h[Parent[a]] = f[Parent[a]]
            OBVIOUS
          <6>1. Parent[a] \in Path[p]
            BY <3>2, <5>1, ParentOnPath
          <6> QED BY <3>2, <6>1
        <5> HIDE DEF h
        <5> QED BY <5>1, <5>2, <5>3
      <4> QED BY <4>1, <4>2
    <3>4. h = [a \in Path[b] |-> h[a]]
      OBVIOUS
    <3> HIDE DEF h
    <3>5. Replays(h, b)
      BY <3>3, <3>4 DEF Replays
    <3> QED BY <3>5
  <2>3. S \subseteq Block /\ \A a \in Block \ {Genesis} : Parent[a] \in S => a \in S
    BY <2>2
  <2> HIDE DEF S
  <2> QED BY <2>1, <2>3, TreeInduction
<1> QED BY <1>1

\* So Replay is what its definition says: the genesis ledger, and for every other
\* block what applying it to its parent's ledger gives.
LEMMA ReplayStep ==
  /\ Replay[Genesis] = GenesisLedger
  /\ \A b \in Block \ {Genesis} : Replay[b] = ApplyBody(Replay[Parent[b]], Body[b], 0)
<1> DEFINE part(b) == CHOOSE f : Replays(f, b)
           F == [b \in Block |-> part(b)[b]]
           Given(f, b) == IF b = Genesis THEN GenesisLedger ELSE ApplyBody(f[Parent[b]], Body[b], 0)
<1>1. \A b \in Block : Replays(part(b), b)
  BY ReplaysExist
<1>2. ASSUME NEW b \in Block PROVE F[b] = Given(F, b)
  <2>1. b \in Path[b] /\ F[b] = part(b)[b]
    BY PathEnds
  <2>2. part(b)[b] = Given(part(b), b)
    <3>1. Replays(part(b), b)
      BY <1>1
    <3> HIDE DEF part
    <3> QED BY <2>1, <3>1 DEF Replays
  <2>3. ASSUME b # Genesis PROVE part(b)[Parent[b]] = F[Parent[b]]
    <3>1. Parent[b] \in Block /\ Parent[b] \in Path[b] /\ Parent[b] \in Path[Parent[b]]
      BY <2>1, <2>3, ParentOnPath, PathEnds, BlockTreeAssumption
    <3>2. F[Parent[b]] = part(Parent[b])[Parent[b]]
      BY <3>1
    <3> HIDE DEF part, F
    <3> QED BY <1>1, <3>1, <3>2, ReplaysAgree
  <2> HIDE DEF part, F
  <2> QED BY <2>1, <2>2, <2>3
<1>3. F = [b \in Block |-> F[b]]
  OBVIOUS
<1> HIDE DEF F
<1>4. \E f : f = [b \in Block |-> Given(f, b)]
  BY <1>2, <1>3
<1>5. Replay = [b \in Block |-> Given(Replay, b)]
  BY <1>4 DEF Replay
<1> HIDE DEF Given
<1>6. \A b \in Block : Replay[b] = Given(Replay, b)
  BY <1>5
<1> QED BY <1>6, BlockTreeAssumption DEF Given

\* The recursion of Unwound, on the branch of one block.
Unwinds(f, b, t, c) ==
  f = [a \in Path[b] |->
         IF a \in Path[c] THEN Replay[t] ELSE UnwindBody(f[Parent[a]], Body[a])]

\* Every branch can be unwound.
LEMMA UnwindsExist ==
  ASSUME NEW t \in Block, NEW c \in Block
  PROVE  \A b \in Block : \E f : Unwinds(f, b, t, c)
<1> DEFINE S == {b \in Block : \E f : Unwinds(f, b, t, c)}
<1>1. S = Block
  <2>1. Genesis \in S
    <3>1. Genesis \in Block /\ Path[Genesis] = {Genesis} /\ Genesis \in Path[c]
      BY BlockTreeAssumption, PathEnds
    <3>2. Unwinds([a \in {Genesis} |-> Replay[t]], Genesis, t, c)
      BY <3>1 DEF Unwinds
    <3> QED BY <3>1, <3>2
  <2>2. ASSUME NEW b \in Block \ {Genesis}, Parent[b] \in S PROVE b \in S
    <3>1. PICK f : Unwinds(f, Parent[b], t, c)
      BY <2>2
    <3> DEFINE p == Parent[b]
               L == IF b \in Path[c] THEN Replay[t] ELSE UnwindBody(f[p], Body[b])
               h == [a \in Path[b] |-> IF a = b THEN L ELSE f[a]]
    <3>2. p \in Block /\ Path[b] = Path[p] \cup {b} /\ b \notin Path[p] /\ p \in Path[p]
      BY ParentBranch
    <3>3. ASSUME NEW a \in Path[b]
          PROVE  h[a] = IF a \in Path[c] THEN Replay[t] ELSE UnwindBody(h[Parent[a]], Body[a])
      <4>1. CASE a = b
        <5>1. h[b] = L /\ h[p] = f[p]
          BY <3>2
        <5> HIDE DEF h
        <5> QED BY <4>1, <5>1
      <4>2. CASE a # b
        <5>1. a \in Path[p] /\ h[a] = f[a]
          BY <3>2, <4>2
        <5>2. f[a] = IF a \in Path[c] THEN Replay[t] ELSE UnwindBody(f[Parent[a]], Body[a])
          BY <3>1, <5>1 DEF Unwinds
        <5>3. a \notin Path[c] => h[Parent[a]] = f[Parent[a]]
          <6> SUFFICES ASSUME a \notin Path[c] PROVE h[Parent[a]] = f[Parent[a]]
            OBVIOUS
          <6>1. Parent[a] \in Path[p]
            BY <3>2, <5>1, ParentOnPath, PathEnds
          <6> QED BY <3>2, <6>1
        <5> HIDE DEF h
        <5> QED BY <5>1, <5>2, <5>3
      <4> QED BY <4>1, <4>2
    <3>4. h = [a \in Path[b] |-> h[a]]
      OBVIOUS
    <3> HIDE DEF h
    <3>5. Unwinds(h, b, t, c)
      BY <3>3, <3>4 DEF Unwinds
    <3> QED BY <3>5
  <2>3. S \subseteq Block /\ \A a \in Block \ {Genesis} : Parent[a] \in S => a \in S
    BY <2>2
  <2> HIDE DEF S
  <2> QED BY <2>1, <2>3, TreeInduction
<1> QED BY <1>1

\* Unwound is what its definition says: the ledger of the branch up to c, and for
\* every later block what unwinding it after its parent gives.
LEMMA UnwoundStep ==
  ASSUME NEW t \in Block, NEW c \in Block, NEW a \in Path[t]
  PROVE  Unwound(t, c)[a] = IF a \in Path[c] THEN Replay[t]
                            ELSE UnwindBody(Unwound(t, c)[Parent[a]], Body[a])
<1>1. \E f : Unwinds(f, t, t, c)
  BY UnwindsExist
<1>2. Unwound(t, c) = CHOOSE f : Unwinds(f, t, t, c)
  BY DEF Unwound, Unwinds
<1>3. Unwinds(Unwound(t, c), t, t, c)
  BY <1>1, <1>2
<1> QED BY <1>3 DEF Unwinds

-----------------------------------------------------------------------------
(* The ledger of undisturbed nodes. *)

\* While an attempt unwinds: the ledger is the old branch's, unwound up to d.
HalfUnwound(j) ==
  /\ ~ j.full
  /\ \E c \in Path[tip] \cap Path[j.target], d \in Path[tip] :
       /\ Height[c] >= MinAnchor
       /\ c \in Path[d]
       /\ j.new = Path[j.target] \ Path[c]
       /\ j.old = Path[tip] \ Path[d]
       /\ ledger = Unwound(tip, c)[d]

\* Afterwards: the new branch's, replayed up to d.
HalfApplied(j) ==
  /\ j.at = "switch" => j.new = {}
  /\ \E d \in Path[j.target] : j.new = Path[j.target] \ Path[d] /\ ledger = Replay[d]

Halfway(j) ==
  /\ j.at = "compare" => ~ j.full
  /\ j.at = "unwind" => HalfUnwound(j)
  /\ j.at \in {"store", "apply", "switch"} => HalfApplied(j)

\* A block was stored and made the tip, and is yet to be applied.
ToApply(k) == k.at = "apply" => tip = k.blk /\ ledger = Replay[Parent[tip]]

\* Nobody is between two changes of the ledger.
Resting == (\A t \in Task : task[t].at # "apply") /\ (\A r \in Attempt : ~ Going(job[r]))

LedgerState ==
  /\ Resting => ledger = Replay[tip]
  /\ \A t \in Task : ToApply(task[t])
  /\ \A r \in Attempt : Halfway(job[r])

LedgerInv == upsets = 0 => LedgerState

\* Nobody else is in the middle of something while x is.
LEMMA OthersRest ==
  ASSUME TypeOK, Alone, NEW x \in Active
  PROVE  /\ \A t \in Task : t # x => task[t].at # "apply"
         /\ \A r \in Attempt : r # x => job[r].at = "idle" /\ ~ Going(job[r])
<1>1. ASSUME NEW t \in Task, t # x PROVE task[t].at # "apply"
  <2> SUFFICES ASSUME task[t].at = "apply" PROVE FALSE
    OBVIOUS
  <2>1. t \in Active
    BY DEF Active, Task
  <2> QED BY <1>1, <2>1 DEF Alone
<1>2. ASSUME NEW r \in Attempt, r # x PROVE job[r].at = "idle" /\ ~ Going(job[r])
  <2>1. job[r].at = "idle"
    BY <1>2 DEF Alone, Active
  <2> QED BY <2>1 DEF Going
<1> QED BY <1>1, <1>2

\* A step that leaves tip and ledger alone, and everybody who is between two
\* changes of the ledger, keeps the state.
LEMMA LedgerSame ==
  ASSUME LedgerState, tip' = tip, ledger' = ledger,
         \A t \in Task : task[t].at = "apply" \/ task'[t].at = "apply" => task'[t] = task[t],
         \A r \in Attempt : \/ job'[r] = job[r]
                            \/ ~ Going(job[r]) /\ ~ Going(job'[r]) /\ ~ (job'[r].at = "compare" /\ job'[r].full)
  PROVE  LedgerState'
<1>1. Resting' => ledger' = Replay[tip']
  <2> SUFFICES ASSUME Resting' PROVE Resting
    BY DEF LedgerState
  <2>1. \A t \in Task : task[t].at # "apply"
    BY DEF Resting
  <2>2. \A r \in Attempt : ~ Going(job[r])
    BY DEF Resting
  <2> QED BY <2>1, <2>2 DEF Resting
<1>2. ASSUME NEW t \in Task PROVE ToApply(task[t])'
  BY DEF LedgerState, ToApply
<1>3. ASSUME NEW r \in Attempt PROVE Halfway(job[r])'
  <2>1. Halfway(job[r])
    BY DEF LedgerState
  <2>2. CASE job'[r] = job[r]
    BY <2>1, <2>2 DEF Halfway, HalfUnwound, HalfApplied
  <2>3. CASE ~ Going(job'[r]) /\ ~ (job'[r].at = "compare" /\ job'[r].full)
    BY <2>3 DEF Halfway, Going
  <2> QED BY <2>2, <2>3
<1> QED BY <1>1, <1>2, <1>3 DEF LedgerState

\* Storing a block on the tip, when nobody else is at work, leaves it to be applied.
LEMMA StoredToApply ==
  ASSUME NEW t \in Task, task \in [Task -> TaskType], LedgerState, ledger = Replay[tip],
         Parent[task[t].blk] = tip, tip' = task[t].blk, ledger' = ledger, job' = job,
         task' = [task EXCEPT ![t].at = "apply"],
         \A u \in Task : u # t => task[u].at # "apply",
         \A r \in Attempt : job[r].at = "idle"
  PROVE  LedgerState'
<1>1. /\ task'[t].at = "apply" /\ task'[t].blk = task[t].blk
      /\ \A u \in Task : u # t => task'[u] = task[u]
  BY DEF TaskType
<1>2. ~ Resting'
  BY <1>1 DEF Resting
<1>3. \A u \in Task : ToApply(task[u])'
  BY <1>1 DEF ToApply
<1>4. \A r \in Attempt : Halfway(job[r])'
  BY DEF Halfway
<1> QED BY <1>2, <1>3, <1>4 DEF LedgerState

\* When everybody is done, the state is that the ledger follows the tip.
LEMMA AllDone ==
  ASSUME ledger' = Replay[tip'], \A t \in Task : task'[t].at # "apply",
         \A r \in Attempt : job'[r].at = "idle"
  PROVE  LedgerState'
BY DEF LedgerState, ToApply, Halfway

\* Applying the block that became the tip is the last thing to do.
LEMMA AppliedDone ==
  ASSUME TypeOK, Alone, LedgerState, NEW t \in Task, t \in Active, ApplyStored(t)
  PROVE  LedgerState'
<1>1. /\ task \in [Task -> TaskType] /\ Busy(task[t]) /\ t \notin Attempt
      /\ task[t].at = "apply" /\ tip' = tip /\ job' = job
      /\ task' = [task EXCEPT ![t] = IdleTask]
  BY ReorgAssumption DEF TypeOK, TaskType, Busy, Task, ApplyStored, chain
<1>2. tip = task[t].blk /\ ledger = Replay[Parent[tip]] /\ tip \in Block \ {Genesis}
  BY <1>1 DEF LedgerState, ToApply, Busy
<1>3. ledger' = Replay[tip]
  BY <1>2, ReplayStep DEF ApplyStored
<1>4. \A u \in Task : task'[u].at # "apply"
  BY <1>1, OthersRest DEF IdleTask
<1>5. \A r \in Attempt : job'[r].at = "idle"
  BY <1>1, OthersRest
<1> QED BY <1>1, <1>3, <1>4, <1>5, AllDone

\* Importers.
LEMMA ImporterLedger ==
  ASSUME TypeOK, Alone, LedgerState, NEW i \in Importer, ImporterStep(i)
  PROVE  LedgerState'
<1>1. /\ task \in [Task -> TaskType] /\ \A t \in Task : Busy(task[t])
      /\ i \in Task /\ i \notin Attempt
  BY ReorgAssumption DEF TypeOK, TaskType, Busy, Task
<1>2. ASSUME NEW b \in Block, Accept(i, b) \/ BufferBlock(i, b) \/ Drain(i, b)
      PROVE  LedgerState'
  <2>1. tip' = tip /\ ledger' = ledger /\ job' = job /\ task[i].at = "idle"
    BY <1>2 DEF Accept, BufferBlock, Drain, chain
  <2>2. \A t \in Task : task'[t] = task[t] \/ (t = i /\ task'[t].at = "store")
    BY <1>1, <1>2 DEF Accept, BufferBlock, Drain
  <2> QED BY <2>1, <2>2, LedgerSame
<1>3. CASE StoreAccepted(i)
  <2>1. i \in Active /\ task[i].at = "store"
    BY <1>3 DEF StoreAccepted, Active
  <2>2. /\ \A u \in Task : u # i => task[u].at # "apply"
        /\ \A r \in Attempt : job[r].at = "idle"
    BY <1>1, <2>1, OthersRest
  <2>3. ledger = Replay[tip] /\ ledger' = ledger /\ job' = job
    BY <1>3, <2>1, <2>2 DEF LedgerState, Resting, Going, StoreAccepted
  <2>4. CASE IsNewBest(task[i].blk)
    <3>1. /\ Parent[task[i].blk] = tip /\ tip' = task[i].blk
          /\ task' = [task EXCEPT ![i].at = "apply"]
      BY <1>3, <2>4 DEF StoreAccepted, StoreBlock, IsNewBest
    <3> QED BY <1>1, <2>2, <2>3, <3>1, StoredToApply
  <2>5. CASE ~ IsNewBest(task[i].blk)
    <3>1. tip' = tip /\ task' = [task EXCEPT ![i] = IdleTask]
      BY <1>3, <2>5 DEF StoreAccepted, StoreBlock
    <3>2. \A t \in Task : task'[t].at # "apply"
      BY <1>1, <2>2, <3>1 DEF IdleTask
    <3> QED BY <2>2, <2>3, <3>1, <3>2, AllDone
  <2> QED BY <2>4, <2>5
<1>4. CASE ApplyStored(i)
  BY <1>1, <1>4, AppliedDone DEF Active, ApplyStored
<1> QED BY <1>2, <1>3, <1>4 DEF ImporterStep

\* The miner: a block that was not mined too late extends the tip.
LEMMA MinerLedger ==
  ASSUME TypeOK, Alone, Alone', LedgerState, Undisturbed, NEW m \in Miner, MinerStep(m)
  PROVE  LedgerState'
<1>1. /\ task \in [Task -> TaskType] /\ m \in Task /\ m \notin Attempt
  BY ReorgAssumption DEF TypeOK, TaskType, Task
<1>2. ASSUME NEW b \in Block, MineBlock(m, b) PROVE LedgerState'
  <2>1. tip' = tip /\ ledger' = ledger /\ job' = job /\ task[m].at = "idle"
    BY <1>2 DEF MineBlock, chain
  <2>2. \A t \in Task : task'[t] = task[t] \/ (t = m /\ task'[t].at = "store")
    BY <1>1, <1>2 DEF MineBlock
  <2> QED BY <2>1, <2>2, LedgerSame
<1>3. CASE StoreMined(m)
  <2>1. /\ task[m].at = "store" /\ task' = [task EXCEPT ![m].at = "apply"]
        /\ job' = job /\ ledger' = ledger /\ task'[m].at = "apply"
        /\ \A t \in Task : t # m => task'[t] = task[t]
    BY <1>1, <1>3 DEF StoreMined, TaskType
  <2>2. Parent[task[m].blk] = tip /\ tip' = task[m].blk
    BY <1>3, <2>1 DEF Undisturbed, IsNewBest, StoreMined, StoreBlock
  <2>3. /\ \A u \in Task : u # m => task[u].at # "apply"
        /\ \A r \in Attempt : job[r].at = "idle"
    <3>1. m \in Active'
      BY <2>1 DEF Active
    <3>2. ASSUME NEW u \in Task, u # m, task[u].at = "apply" PROVE FALSE
      <4>1. task'[u].at = "apply"
        BY <2>1, <3>2
      <4>2. u \in Active'
        BY <4>1 DEF Active, Task
      <4> QED BY <3>1, <3>2, <4>2 DEF Alone
    <3>3. ASSUME NEW r \in Attempt, job[r].at # "idle" PROVE FALSE
      <4>1. r \in Active' /\ r # m
        BY <1>1, <2>1, <3>3 DEF Active
      <4> QED BY <3>1, <4>1 DEF Alone
    <3> QED BY <3>2, <3>3
  <2>4. ledger = Replay[tip]
    BY <2>1, <2>3 DEF LedgerState, Resting, Going
  <2> QED BY <1>1, <2>1, <2>2, <2>3, <2>4, StoredToApply
<1>4. CASE ApplyStored(m)
  BY <1>1, <1>4, AppliedDone DEF Active, ApplyStored
<1> QED BY <1>2, <1>3, <1>4 DEF MinerStep

\* The process dies undisturbed only when there is nothing to do.
LEMMA CrashLedger ==
  ASSUME TypeOK, LedgerState, Undisturbed, Crash
  PROVE  LedgerState'
<1>1. crashes \in Nat
  BY ReorgAssumption DEF TypeOK
<1>2. Active = {}
  BY <1>1 DEF Undisturbed, Crash
<1>3. /\ \A t \in Task : task[t].at # "apply"
      /\ \A r \in Attempt : job[r].at = "idle"
  BY <1>2 DEF Active, Task
<1>4. ledger = Replay[tip] /\ ledger' = ledger /\ tip' = tip
  BY <1>3 DEF LedgerState, Resting, Going, Crash, chain
<1>5. /\ \A t \in Task : task'[t].at # "apply"
      /\ \A r \in Attempt : job'[r].at = "idle"
  BY DEF Crash, IdleTask, IdleJob
<1> QED BY <1>4, <1>5, AllDone

\* The old branch of an attempt that has read the present tip is what the tip
\* does not share with the target.
LEMMA OldIsUnshared ==
  ASSUME tip \in Block, NEW j, j.base = tip, NEW c \in Path[tip]
  PROVE  OldBranch(j, c) = Path[tip] \ Path[c]
<1>1. c \in Block /\ Path[tip] \subseteq Block /\ Path[c] \subseteq Path[tip]
  BY PathEnds, PathBelow DEF Below
<1>2. ASSUME NEW a \in Path[tip]
      PROVE  Height[c] < Height[a] /\ Height[a] <= Height[j.base] <=> a \notin Path[c]
  <2>1. /\ Height[a] \in Nat /\ Height[c] \in Nat /\ a \in Block
        /\ Height[a] <= Height[tip]
    BY <1>1, PathBelow, BlockTreeAssumption DEF Below
  <2>2. Height[a] <= Height[c] => a \in Path[c]
    BY PathChain DEF Chained
  <2>3. a \in Path[c] => Height[a] <= Height[c]
    BY <1>1, PathBelow DEF Below
  <2> QED BY <2>1, <2>2, <2>3
<1> QED BY <1>2 DEF OldBranch

\* An attempt that is not through with its step has the ledger to itself.
LEMMA StillHalfway ==
  ASSUME TypeOK, Alone, NEW r \in Attempt, job[r].at # "idle", task' = task,
         \A q \in Attempt : q # r => job'[q] = job[q],
         Going(job'[r]), Halfway(job[r])'
  PROVE  LedgerState'
<1>1. r \in Active /\ \A t \in Task : t # r
  BY ReorgAssumption DEF Active, Task
<1>2. /\ \A t \in Task : task'[t].at # "apply"
      /\ \A q \in Attempt : q # r => job'[q].at = "idle"
  BY <1>1, OthersRest
<1>3. ~ Resting'
  BY DEF Resting
<1>4. \A t \in Task : ToApply(task[t])'
  BY <1>2 DEF ToApply
<1>5. ASSUME NEW q \in Attempt PROVE Halfway(job[q])'
  BY <1>2 DEF Halfway
<1> QED BY <1>3, <1>4, <1>5 DEF LedgerState

\* An attempt that ends leaves the ledger of the tip.
LEMMA AttemptDone ==
  ASSUME TypeOK, Alone, NEW r \in Attempt, job[r].at # "idle", task' = task,
         \A q \in Attempt : q # r => job'[q] = job[q],
         job'[r] = IdleJob, ledger' = Replay[tip']
  PROVE  LedgerState'
<1>1. r \in Active /\ \A t \in Task : t # r
  BY ReorgAssumption DEF Active, Task
<1>2. /\ \A t \in Task : task'[t].at # "apply"
      /\ \A q \in Attempt : job'[q].at = "idle"
  BY <1>1, OthersRest DEF IdleJob
<1> QED BY <1>2, AllDone

\* compare_chains decides on what it has read: it gives up, or begins to unwind
\* from the ledger of the tip.
LEMMA CompareLedger ==
  ASSUME ChainInv, Alone, AsRead, LedgerState, NEW r \in Attempt, Compare(r)
  PROVE  LedgerState'
<1> DEFINE j == job[r]
           c == CommonAncestor(tip, j.target)
<1>1. /\ job \in [Attempt -> JobType] /\ tip \in Block /\ j.target \in Block
      /\ j \in JobType /\ j.at = "compare" /\ j.base = tip /\ TypeOK
      /\ j.alt = IF j.buffered THEN Buffered ELSE {}
      /\ tip' = tip /\ ledger' = ledger /\ task' = task /\ ~ j.full
  BY DEF ChainInv, TypeOK, JobType, AsRead, Compare, chain, LedgerState, Halfway
<1>2. \A q \in Attempt : q # r => job'[q] = job[q]
  BY <1>1 DEF Compare
<1>3. ledger = Replay[tip]
  <2>1. /\ \A t \in Task : task[t].at # "apply"
        /\ \A q \in Attempt : ~ Going(job[q])
    <3>1. r \in Active /\ (\A t \in Task : t # r) /\ ~ Going(job[r])
      BY <1>1, ReorgAssumption DEF Active, Task, Going
    <3> QED BY <1>1, <3>1, OthersRest
  <2> QED BY <2>1 DEF LedgerState, Resting
<1>4. ~ CompleteCase(j)
  BY <1>1, PathEnds DEF CompleteCase, Reachable
<1>5. CASE AnchoredCase(j)
  <2>1. /\ c \in Path[tip] \cap Path[j.target] /\ c \in Block /\ c \in Path[c]
    BY <1>1, CommonBranch, PathEnds
  <2>2. Height[c] >= MinAnchor
    BY <1>5 DEF AnchoredCase
  <2> HIDE DEF c
  <2>3. /\ job'[r].at = "unwind" /\ ~ job'[r].full /\ job'[r].target = j.target
        /\ job'[r].new = Path[j.target] \ Path[c] /\ job'[r].old = Path[tip] \ Path[c]
    <3>1. job'[r] = [j EXCEPT !.at = "unwind", !.old = OldBranch(j, c),
                              !.new = Path[j.target] \ Path[c]]
      BY <1>1, <1>5 DEF Compare, c
    <3>2. OldBranch(j, c) = Path[tip] \ Path[c]
      BY <1>1, <2>1, OldIsUnshared
    <3> HIDE DEF j
    <3> QED BY <1>1, <3>1, <3>2 DEF JobType
  <2>4. ledger = Unwound(tip, c)[c]
    BY <1>1, <1>3, <2>1, UnwoundStep
  <2>5. HalfUnwound(job[r])'
    BY <1>1, <2>1, <2>2, <2>3, <2>4 DEF HalfUnwound
  <2>6. Halfway(job[r])' /\ Going(job'[r])
    BY <2>3, <2>5 DEF Halfway, Going
  <2> QED BY <1>1, <1>2, <2>6, StillHalfway
<1>6. CASE ~ AnchoredCase(j)
  <2>1. job'[r] = IdleJob
    BY <1>1, <1>4, <1>6 DEF Compare
  <2> QED BY <1>1, <1>2, <1>3, <2>1, AttemptDone
<1> QED BY <1>5, <1>6

\* The lowest old block is the successor of the one unwound last.
LEMMA UnwindLedger ==
  ASSUME ChainInv, Alone, LedgerState, NEW r \in Attempt, Unwind(r)
  PROVE  LedgerState'
<1> DEFINE j == job[r]
           n == Lowest(j.old)
<1>1. /\ job \in [Attempt -> JobType] /\ tip \in Block /\ j.target \in Block /\ TypeOK
      /\ j \in JobType /\ j.at = "unwind" /\ j.old # {} /\ j.old \in SUBSET Block
      /\ tip' = tip /\ task' = task /\ HalfUnwound(j)
  BY DEF ChainInv, TypeOK, JobType, Unwind, chain, LedgerState, Halfway
<1>2. \A q \in Attempt : q # r => job'[q] = job[q]
  BY <1>1 DEF Unwind
<1>3. PICK c \in Path[tip] \cap Path[j.target], d \in Path[tip] :
        /\ Height[c] >= MinAnchor /\ c \in Path[d]
        /\ j.new = Path[j.target] \ Path[c] /\ j.old = Path[tip] \ Path[d]
        /\ ledger = Unwound(tip, c)[d]
  BY <1>1 DEF HalfUnwound
<1>4. ~ j.full
  BY <1>1 DEF HalfUnwound
<1>5. n \in j.old /\ n \in Block /\ \A a \in j.old : Height[n] <= Height[a]
  BY <1>1, LowestIn
<1>6. /\ ledger' = UnwindBody(ledger, Body[n])
      /\ job'[r] = [j EXCEPT !.old = j.old \ {n}]
  BY <1>1, <1>4 DEF Unwind, NextToUnwind
<1>7. /\ job'[r].at = "unwind" /\ ~ job'[r].full /\ job'[r].target = j.target
      /\ job'[r].new = j.new /\ job'[r].old = j.old \ {n}
  BY <1>1, <1>4, <1>6 DEF JobType
<1> HIDE DEF j, n
<1>8. d \in Block /\ c \in Block /\ Path[c] \subseteq Path[d]
  BY <1>1, <1>3, PathEnds, PathBelow DEF Below
<1>9. Parent[n] = d /\ Path[n] = Path[d] \cup {n}
  BY <1>1, <1>3, <1>5, <1>8, LowestIsNext
<1>10. n \in Path[tip] /\ n \notin Path[c] /\ c \in Path[n] /\ j.old \ {n} = Path[tip] \ Path[n]
  BY <1>3, <1>5, <1>8, <1>9
<1>11. Unwound(tip, c)[n] = UnwindBody(Unwound(tip, c)[d], Body[n])
  BY <1>1, <1>8, <1>9, <1>10, UnwoundStep
<1>12. ledger' = Unwound(tip, c)[n]
  BY <1>3, <1>6, <1>11
<1>13. HalfUnwound(job[r])'
  BY <1>1, <1>3, <1>7, <1>10, <1>12 DEF HalfUnwound
<1>14. Halfway(job[r])' /\ Going(job'[r])
  BY <1>7, <1>13 DEF Halfway, Going
<1> QED BY <1>1, <1>2, <1>14, StillHalfway DEF j

\* Once all of the old branch is unwound, the ledger is the common ancestor's.
LEMMA ValidateLedger ==
  ASSUME BranchesUnwind, ChainInv, Alone, LedgerState, Undisturbed, NEW r \in Attempt, Validate(r)
  PROVE  LedgerState'
<1> DEFINE j == job[r]
<1>1. /\ job \in [Attempt -> JobType] /\ tip \in Block /\ j.target \in Block /\ TypeOK
      /\ j \in JobType /\ j.at = "unwind" /\ j.old = {}
      /\ tip' = tip /\ task' = task /\ ledger' = ledger /\ HalfUnwound(j)
  BY DEF ChainInv, TypeOK, JobType, Validate, chain, LedgerState, Halfway
<1>2. \A q \in Attempt : q # r => job'[q] = job[q]
  BY <1>1 DEF Validate
<1>3. PICK c \in Path[tip] \cap Path[j.target], d \in Path[tip] :
        /\ Height[c] >= MinAnchor /\ c \in Path[d]
        /\ j.new = Path[j.target] \ Path[c] /\ j.old = Path[tip] \ Path[d]
        /\ ledger = Unwound(tip, c)[d]
  BY <1>1 DEF HalfUnwound
<1>4. d = tip
  BY <1>1, <1>3, PathEnds, SameBranch
<1>5. ledger = Replay[c]
  BY <1>1, <1>3, <1>4 DEF BranchesUnwind
<1>6. job'[r].at # "idle"
  BY <1>1 DEF Undisturbed
<1>7. job'[r] = [j EXCEPT !.at = "store"]
  BY <1>1, <1>6 DEF Validate, IdleJob
<1>8. job'[r].at = "store" /\ job'[r].target = j.target /\ job'[r].new = j.new
  BY <1>1, <1>7 DEF JobType
<1>9. HalfApplied(job[r])'
  BY <1>1, <1>3, <1>5, <1>8 DEF HalfApplied
<1>10. Halfway(job[r])' /\ Going(job'[r])
  BY <1>8, <1>9 DEF Halfway, Going
<1> QED BY <1>1, <1>2, <1>10, StillHalfway

\* Storing a new block leaves the ledger where it is.
LEMMA StoreLedger ==
  ASSUME TypeOK, Alone, LedgerState, NEW r \in Attempt, StoreNew(r)
  PROVE  LedgerState'
<1>1. /\ job \in [Attempt -> JobType] /\ job[r].at = "store"
      /\ task' = task /\ ledger' = ledger /\ HalfApplied(job[r])
  BY DEF TypeOK, JobType, StoreNew, LedgerState, Halfway
<1>2. /\ job'[r].at = "apply" /\ job'[r].target = job[r].target /\ job'[r].new = job[r].new
      /\ \A q \in Attempt : q # r => job'[q] = job[q]
  BY <1>1 DEF StoreNew, JobType
<1>3. HalfApplied(job[r])'
  BY <1>1, <1>2 DEF HalfApplied
<1>4. Halfway(job[r])' /\ Going(job'[r])
  BY <1>2, <1>3 DEF Halfway, Going
<1> QED BY <1>1, <1>2, <1>4, StillHalfway

\* The lowest new block is the successor of the one applied last.
LEMMA ApplyLedger ==
  ASSUME ChainInv, Alone, LedgerState, NEW r \in Attempt, ApplyNew(r)
  PROVE  LedgerState'
<1> DEFINE j == job[r]
           n == Lowest(j.new)
           rest == j.new \ {n}
<1>1. /\ job \in [Attempt -> JobType] /\ j.target \in Block /\ TypeOK
      /\ j \in JobType /\ j.at = "apply" /\ j.new # {} /\ j.new \in SUBSET Block
      /\ task' = task /\ HalfApplied(j)
  BY DEF ChainInv, SomeNew, TypeOK, JobType, ApplyNew, LedgerState, Halfway
<1>2. /\ ledger' = ApplyBody(ledger, Body[n], 0)
      /\ job'[r].target = j.target /\ job'[r].new = rest
      /\ job'[r].at = IF rest = {} THEN "switch" ELSE "store"
      /\ \A q \in Attempt : q # r => job'[q] = job[q]
  BY <1>1 DEF ApplyNew, JobType
<1>3. PICK d \in Path[j.target] : j.new = Path[j.target] \ Path[d] /\ ledger = Replay[d]
  BY <1>1 DEF HalfApplied
<1>4. n \in j.new /\ n \in Block /\ \A a \in j.new : Height[n] <= Height[a]
  BY <1>1, LowestIn
<1>5. d \in Block
  BY <1>1, <1>3, PathEnds
<1> HIDE DEF j, n
<1>6. n \in Block \ {Genesis} /\ Parent[n] = d /\ Path[n] = Path[d] \cup {n}
  BY <1>1, <1>3, <1>4, <1>5, LowestIsNext
<1>7. n \in Path[j.target] /\ rest = Path[j.target] \ Path[n]
  BY <1>3, <1>4, <1>6
<1>8. ledger' = Replay[n]
  BY <1>2, <1>3, <1>6, ReplayStep
<1> HIDE DEF rest
<1>9. HalfApplied(job[r])'
  BY <1>2, <1>7, <1>8 DEF HalfApplied
<1>10. Halfway(job[r])' /\ Going(job'[r])
  BY <1>2, <1>9 DEF Halfway, Going
<1> QED BY <1>1, <1>2, <1>10, StillHalfway DEF j

\* When the tip is switched, all of the new branch is applied.
LEMMA SwitchLedger ==
  ASSUME TypeOK, Alone, LedgerState, NEW r \in Attempt, SwitchTip(r)
  PROVE  LedgerState'
<1> DEFINE j == job[r]
<1>1. /\ job \in [Attempt -> JobType] /\ j.target \in Block /\ j.at = "switch"
      /\ tip' = j.target /\ task' = task /\ ledger' = ledger /\ HalfApplied(j)
  BY DEF TypeOK, JobType, SwitchTip, LedgerState, Halfway
<1>2. job'[r] = IdleJob /\ \A q \in Attempt : q # r => job'[q] = job[q]
  BY <1>1 DEF SwitchTip
<1>3. PICK d \in Path[j.target] : j.new = Path[j.target] \ Path[d] /\ ledger = Replay[d]
  BY <1>1 DEF HalfApplied
<1>4. d = j.target
  <2>1. j.target \in Path[d]
    BY <1>1, <1>3, PathEnds DEF HalfApplied
  <2> QED BY <1>1, <1>3, <2>1, SameBranch
<1> QED BY <1>1, <1>2, <1>3, <1>4, AttemptDone

\* Reorganization attempts.
LEMMA AttemptLedger ==
  ASSUME BranchesUnwind, ChainInv, Alone, AsRead, LedgerState, Undisturbed,
         NEW r \in Attempt, AttemptStep(r)
  PROVE  LedgerState'
<1>1. TypeOK /\ job \in [Attempt -> JobType]
  BY DEF ChainInv, TypeOK, JobType
<1>2. ASSUME NEW b \in Block, NEW buffered \in BOOLEAN, StartAttempt(r, b, buffered)
      PROVE  LedgerState'
  <2>1. /\ tip' = tip /\ ledger' = ledger /\ task' = task /\ job[r].at = "idle"
        /\ job'[r].at = "compare" /\ ~ job'[r].full
        /\ \A q \in Attempt : q # r => job'[q] = job[q]
    BY <1>1, <1>2 DEF StartAttempt, chain, IdleJob
  <2>2. ~ Going(job[r]) /\ ~ Going(job'[r])
    BY <2>1 DEF Going
  <2> QED BY <2>1, <2>2, LedgerSame
<1> QED
  BY <1>1, <1>2, CompareLedger, UnwindLedger, ValidateLedger, StoreLedger, ApplyLedger,
     SwitchLedger DEF AttemptStep

\* Every step keeps the ledger's invariant.
LEMMA LedgerStep ==
  BranchesUnwind /\ ChainInv /\ QuietInv /\ LedgerInv /\ [Next]_vars => LedgerInv'
<1> SUFFICES ASSUME BranchesUnwind, ChainInv, QuietInv, LedgerInv, [Next]_vars, upsets' = 0
             PROVE  LedgerState'
  BY DEF LedgerInv
<1>1. TypeOK
  BY DEF ChainInv
<1>2. /\ Alone /\ AsRead /\ LedgerState
      /\ UNCHANGED vars \/ (Step /\ Undisturbed)
  BY <1>1, QuietSteps DEF QuietInv, LedgerInv
<1>3. Alone'
  BY QuietStep DEF QuietInv
<1>4. CASE UNCHANGED vars
  BY <1>2, <1>4, LedgerSame DEF vars
<1>5. CASE Step /\ Undisturbed
  BY <1>1, <1>2, <1>3, <1>5, ImporterLedger, MinerLedger, AttemptLedger, CrashLedger DEF Step
<1> QED BY <1>2, <1>4, <1>5

\* A node starts with the genesis ledger, which is the replay of its tip.
LEMMA LedgerInit == Init => LedgerInv
<1> SUFFICES ASSUME Init PROVE LedgerState
  BY DEF LedgerInv
<1>1. ledger = Replay[tip]
  BY ReplayStep DEF Init
<1> QED BY <1>1 DEF Init, LedgerState, ToApply, Halfway, IdleTask, IdleJob

\* As long as the tasks take turns, the ledger of a node at rest is the one of its
\* canonical chain, after any number of blocks, switches and restarts in between,
\* for any tree and bodies such that unwinding a branch lowest block first gives
\* back the ledger of its fork (reorganize_chain, fork.rs:1131).
THEOREM QuietLedgerFollows == BranchesUnwind /\ Spec => []LedgerFollowsTip
<1>1. BranchesUnwind /\ ChainInv /\ QuietInv /\ LedgerInv /\ [Next]_vars => LedgerInv'
  BY LedgerStep
<1>2. BranchesUnwind => [](BranchesUnwind)
  <2>1. BranchesUnwind => BranchesUnwind'
    BY DEF BranchesUnwind, Unwound, Replay
  <2> QED BY <2>1, PTL
<1>3. Spec => [](ChainInv /\ QuietInv)
  BY ChainInit, ChainStep, QuietInit, QuietStep, PTL DEF Spec
<1>4. LedgerInv => LedgerFollowsTip
  <2> SUFFICES ASSUME LedgerInv, Active = {}, upsets = 0 PROVE ledger = Replay[tip]
    BY DEF LedgerFollowsTip
  <2>1. Resting
    BY DEF Active, Resting, Task, Going
  <2> QED BY <2>1 DEF LedgerInv, LedgerState
<1> QED BY <1>1, <1>2, <1>3, <1>4, LedgerInit, PTL DEF Spec
===============================================================================
