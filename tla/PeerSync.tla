------------------------------ MODULE PeerSync -------------------------------
(***************************************************************************)
(* A node that is behind: the CPP network's view of its peers (network.rs), *)
(* the node's table of peer tips (node/src/peer_consensus.rs), the planning *)
(* of requests (node/src/sync_canonical.rs, service/mod.rs) and the handler *)
(* of the blocks that come back, with the gate of the mining loop.         *)
(*                                                                         *)
(* There is one chain and nobody forks: a block is its height, a tip the   *)
(* block at it, and cumulative work grows with it.  Reorg has the forks:   *)
(* check_and_reorganize_chain changes nothing here, and a batch begins at  *)
(* our tip or before it, so that it never stalls.  The node's events are   *)
(* handled in the order they were sent, requests go to the network and are *)
(* dropped if the peer is gone.                                            *)
(* Left out: the Negative UNL (maintenance_tick has no caller), the peer   *)
(* directory and best_known_peer_height, which only logs read.             *)
(***************************************************************************)
EXTENDS Integers, FiniteSets, Sequences, FiniteSetsExt

CONSTANTS
  Peer,
  Top,           \* the height of the chain
  Start,         \* how much of it each peer has at first
  Batch,         \* MAX_BLOCKS_PER_RESPONSE
  SyncThreshold, \* ConsensusConfig: sync_threshold_blocks,
  MaxAhead,      \*   max_ahead_of_peers_blocks,
  MinPeers,      \*   min_peers_for_mining
  StaleAge,      \* consensus_stale_threshold(), in ticks
  JailAfter,     \* INCOMPATIBLE_TIP_QUARANTINE_AFTER
  JailTime,      \* INCOMPATIBLE_TIP_QUARANTINE_SECS, in ticks
  MaxEvents,     \* bound: events on their way to the node
  MaxAsked,      \* bound: requests to a peer when more than their answers happens
  MaxDrops       \* bound: how many connections are lost

ASSUME PeerSyncAssumption ==
  /\ IsFiniteSet(Peer) /\ Top \in Nat /\ Start \in [Peer -> 0..Top]
  /\ {Batch, StaleAge, JailAfter, JailTime, MaxEvents, MaxAsked} \subseteq Nat \ {0}
  /\ {SyncThreshold, MaxAhead, MinPeers, MaxDrops} \subseteq Nat

VARIABLES
  tip,     \* tip[p]: the height p has
  seen,    \* the network's table: for each connected peer its height and work
  asked,   \* asked[p]: requests on their way to p, with their answers to come
  events,  \* network events the node has yet to handle
  table,   \* PeerConsensus.peers
  height,  \* the node's best height
  buffer,  \* block_buffer
  health,  \* SyncHealthState
  streak,  \* suspect_fork_streak
  netTip,  \* the best height UpdateChainState last gave the network
  drops    \* connections lost so far

vars == <<tip, seen, asked, events, table, height, buffer, health, streak, netTip, drops>>
net == <<tip, seen, drops>>
chain == <<height, buffer>>

Conn == DOMAIN seen
Span(from, to) == [from |-> from, to |-> to]
Health == {"Normal", "SuspectFork", "Recovery"}
Larger(a, b) == IF a < b THEN b ELSE a
Smaller(a, b) == IF a < b THEN a ELSE b

Init ==
  /\ tip = Start
  /\ seen = <<>> /\ asked = [p \in Peer |-> {}] /\ events = <<>>
  /\ table = <<>>
  /\ height = 0 /\ buffer = {}
  /\ health = "Normal" /\ streak = 0
  /\ netTip = 0 /\ drops = 0

-----------------------------------------------------------------------------
(* The table of peer tips.                                                 *)

Entry(h, w) == [height |-> h, work |-> w, age |-> 0, reports |-> 0, jail |-> 0]

\* update_peer: what is known besides the tip is kept.
Updated(p, h, w) ==
  [q \in DOMAIN table \cup {p} |->
     IF q # p THEN table[q]
     ELSE IF p \in DOMAIN table THEN [table[p] EXCEPT !.height = h, !.work = w, !.age = 0]
     ELSE Entry(h, w)]

Without(p) == [q \in DOMAIN table \ {p} |-> table[q]]

\* note_incompatible_tip, and clear_incompatible_tip_penalty.
Reported(p) ==
  [q \in DOMAIN table |->
     IF q # p THEN table[q]
     ELSE IF table[p].reports + 1 >= JailAfter
            THEN [table[p] EXCEPT !.reports = 0, !.jail = JailTime]
            ELSE [table[p] EXCEPT !.reports = @ + 1]]
Cleared(p) == [q \in DOMAIN table |-> IF q = p THEN [table[q] EXCEPT !.reports = 0] ELSE table[q]]

\* Faulty variant: the age of an entry is not looked at.
ActiveInKnown(t) == {p \in DOMAIN t : t[p].jail = 0}

ActiveIn(t) == {p \in DOMAIN t : t[p].age < StaleAge /\ t[p].jail = 0}
Active == ActiveIn(table)

\* The median of the heights f gives to the peers of S, rounded down between
\* the middle two.
Median(f, S) ==
  LET n == Cardinality(S)
      nth(k) == CHOOSE h \in {f[p].height : p \in S} :
                  /\ Cardinality({p \in S : f[p].height < h}) < k
                  /\ Cardinality({p \in S : f[p].height <= h}) >= k
  IN  IF n = 0 THEN 0
      ELSE IF n % 2 = 1 THEN nth(n \div 2 + 1)
      ELSE (nth(n \div 2) + nth(n \div 2 + 1)) \div 2

\* Most work first, then the height; ties go by the order of a hash map.
Heavier(a, b) == a.work > b.work \/ (a.work = b.work /\ a.height > b.height)
Heaviest(f, S) == {p \in S : \A q \in S : ~Heavier(f[q], f[p])}

\* get_adaptive_threshold, and the votes it asks for.
Percent(n) == CASE n = 0 -> 100 [] n \in {1, 2} -> 50 [] n = 3 -> 60 [] OTHER -> 80
Required(n) == (n * Percent(n) + 99) \div 100

\* The peers of a cluster within one block are enough of the active ones.
Agreed ==
  \E h \in 0..Top :
    LET votes == Cardinality({p \in Active : table[p].height \in {h, h + 1}})
    IN  100 * votes >= Percent(Cardinality(Active)) * Cardinality(Active)

\* Of the tips next to ours the one with most votes has too few of them, or
\* is not ours.
Diverged ==
  LET votes(h) == Cardinality({p \in Active : table[p].height = h})
      near == {h \in {height - 1, height, height + 1} : votes(h) > 0}
      best == {h \in near : \A k \in near : votes(k) <= votes(h)}
  IN  /\ Median(table, Active) > 0
      /\ height + SyncThreshold >= Median(table, Active)
      /\ \E h \in best : votes(h) < Larger(1, Required(Cardinality(Active))) \/ h # height

ShouldMine ==
  LET median == Median(table, Active) IN
  /\ Cardinality(Active) >= MinPeers
  /\ height + SyncThreshold >= median
  /\ median > 0 => height <= median + MaxAhead
  /\ Agreed
  /\ ~Diverged

-----------------------------------------------------------------------------
(* Requests.                                                               *)

\* Ask(rs) sends the requests of rs, pairs of a peer and a range.
Ask(rs) == asked' = [p \in Peer |-> IF p \in Conn
                                      THEN asked[p] \cup {r[2] : r \in {q \in rs : q[1] = p}}
                                      ELSE asked[p]]

\* Faulty variant: off by one, a batch that starts at our tip brings one block less.
PlanShort(h, peerHeight) ==
  LET from == IF peerHeight > h THEN h ELSE h + 1
  IN  Span(from, Larger(from, Smaller(peerHeight, from + Batch - 2)))

\* plan_sync_batch: the tip of a taller peer is not among the stored blocks, so
\* that our own tip counts as off its branch and is asked for again.
Plan(h, peerHeight) ==
  LET from == IF peerHeight > h THEN h ELSE h + 1
  IN  Span(from, Larger(from, Smaller(peerHeight, from + Batch - 1)))

\* request_hash_anchored_sync, at height h with the given table and health.
Anchored(t, h, sick, fallback, peerHeight) ==
  LET to == IF ActiveIn(t) = {} THEN {fallback} ELSE Heaviest(t, ActiveIn(t))
      plan == Plan(h, peerHeight)
      again == IF sick # "Normal" /\ plan.from = h THEN {Span(h, h)} ELSE {}
  IN  {{<<p, r>> : r \in {plan} \cup again} : p \in to}

\* request_recovery_sync_from_heaviest_peer.
Recovery(t, h, sick) ==
  LET taller == {p \in ActiveIn(t) : t[p].work > h \/ t[p].height > h}
  IN  IF taller = {} THEN {{}}
      ELSE UNION {Anchored(t, h, sick, p, t[p].height) : p \in Heaviest(t, taller)}

-----------------------------------------------------------------------------
(* The network.                                                            *)

Event(kind, p, h, w, blocks) ==
  [kind |-> kind, peer |-> p, height |-> h, work |-> w, blocks |-> blocks]
Room == Len(events) < MaxEvents
Quiet == \A p \in Peer : Cardinality(asked[p]) < MaxAsked

\* A Hello has a height and no work.
Connect(p) ==
  /\ p \notin Conn /\ Room /\ Quiet
  /\ seen' = [q \in Conn \cup {p} |->
                IF q = p THEN [height |-> tip[p], work |-> 0] ELSE seen[q]]
  /\ events' = Append(events, Event("Connected", p, tip[p], 0, {}))
  /\ UNCHANGED <<tip, asked, table, chain, health, streak, netTip, drops>>

\* The sweep may find the peer's task with a Status in its hand.
Disconnect(p) ==
  LET gone == Event("Disconnected", p, 0, 0, {}) IN
  /\ p \in Conn /\ drops < MaxDrops /\ Room
  /\ drops' = drops + 1
  /\ seen' = [q \in Conn \ {p} |-> seen[q]]
  /\ asked' = [asked EXCEPT ![p] = {}]
  /\ events' \in {Append(events, gone),
                  events \o <<gone, Event("Status", p, tip[p], tip[p], {})>>}
  /\ UNCHANGED <<tip, table, chain, health, streak, netTip>>

\* broadcast_status of the peer, and handle_status here.
Status(p) ==
  /\ p \in Conn /\ Room /\ Quiet
  /\ seen' = [seen EXCEPT ![p] = [height |-> tip[p], work |-> tip[p]]]
  /\ events' = Append(events, Event("Status", p, tip[p], tip[p], {}))
  /\ UNCHANGED <<tip, asked, table, chain, health, streak, netTip, drops>>

\* The peer serves at most a batch, of what it has.
Answer(p, r) ==
  /\ p \in Conn /\ r \in asked[p] /\ Room
  /\ asked' = [asked EXCEPT ![p] = @ \ {r}]
  /\ events' = Append(events,
       Event("Blocks", p, 0, 0, r.from..Smaller(tip[p], Smaller(r.to, r.from + Batch - 1))))
  /\ UNCHANGED <<net, table, chain, health, streak, netTip>>

Grow(p) ==
  /\ tip[p] < Top
  /\ tip' = [tip EXCEPT ![p] = @ + 1]
  /\ UNCHANGED <<seen, asked, events, table, chain, health, streak, netTip, drops>>

UpdateChainState ==
  /\ netTip # height
  /\ netTip' = height
  /\ UNCHANGED <<net, asked, events, table, chain, health, streak>>

\* check_sync_status: nothing for one block, and the heaviest peer may have
\* nothing to give.
CheckSync ==
  /\ Quiet
  /\ Median(seen, Conn) > netTip + 1
  /\ \E p \in Heaviest(seen, Conn) :
       Ask({<<p, Span(netTip + 1, Smaller(seen[p].height, netTip + Batch))>>})
  /\ UNCHANGED <<net, events, table, chain, health, streak, netTip>>

-----------------------------------------------------------------------------
(* The node's event handler.                                               *)

IsHead(kind) == events # <<>> /\ Head(events).kind = kind

PeerConnected ==
  LET ev == Head(events)
      t == Updated(ev.peer, ev.height, 0)
      median == Median(t, ActiveIn(t))
  IN
  /\ IsHead("Connected")
  /\ table' = t
  /\ IF height + SyncThreshold < median
       THEN \E rs \in Anchored(t, height, health, ev.peer, Larger(ev.height, median)) : Ask(rs)
     ELSE IF ev.height > height
       THEN \E rs \in Anchored(t, height, health, ev.peer, ev.height) : Ask(rs)
     ELSE UNCHANGED asked
  /\ events' = Tail(events)
  /\ UNCHANGED <<net, chain, health, streak, netTip>>

PeerDisconnected ==
  /\ IsHead("Disconnected")
  /\ table' = Without(Head(events).peer)
  /\ events' = Tail(events)
  /\ UNCHANGED <<net, asked, chain, health, streak, netTip>>

StatusUpdate ==
  LET ev == Head(events)
      t == Updated(ev.peer, ev.height, ev.work)
  IN
  /\ IsHead("Status")
  /\ table' = t
  /\ IF ev.height > height
       THEN \E rs \in Anchored(t, height, health, ev.peer, ev.height) : Ask(rs)
       ELSE UNCHANGED asked
  /\ events' = Tail(events)
  /\ UNCHANGED <<net, chain, health, streak, netTip>>

\* should_apply_sync_extension for the block after our tip h: the tip of a
\* taller and heavier peer is not stored yet, so that no block is found on its
\* chain.
Extends(p, h) ==
  \/ p \notin DOMAIN table
  \/ table[p].height <= h + 1 \/ table[p].work <= h

\* How far the blocks of S, in order, are applied as they come from height h.
Applied(p, h, S) ==
  CHOOSE k \in h..Top :
    /\ \A n \in h..k - 1 : n + 1 \in S /\ Extends(p, n)
    /\ k + 1 \in S => ~Extends(p, k)

\* How far the buffer then leads on.
Drained(h, S) == CHOOSE k \in h..Top : (\A n \in h + 1..k : n \in S) /\ k + 1 \notin S

BlocksReceived ==
  LET ev == Head(events)
      p == ev.peer
      direct == Applied(p, height, ev.blocks)
      refused == direct + 1 \in ev.blocks
      kept == buffer \cup {b \in ev.blocks : b > direct}
      now == Drained(direct, kept)
      t0 == IF direct > height THEN Cleared(p) ELSE table
      t == IF refused /\ p \in DOMAIN table
             THEN [t0 EXCEPT ![p] = IF direct > height /\ JailAfter > 1
                                      THEN [@ EXCEPT !.reports = 1] ELSE Reported(p)[p]]
             ELSE t0
      sick == IF refused THEN "SuspectFork" ELSE health
      behind == p \in DOMAIN t /\ t[p].height > now
  IN
  /\ IsHead("Blocks")
  /\ height' = now
  /\ buffer' = {b \in kept : b > now}
  /\ table' = t
  /\ IF ~behind THEN health' = sick /\ UNCHANGED asked
     ELSE IF now > height
       THEN /\ health' = "Normal"
            /\ \E rs \in Anchored(t, now, "Normal", p, t[p].height) : Ask(rs)
       ELSE /\ health' = IF sick = "Normal" THEN "SuspectFork" ELSE sick
            /\ \E rs \in Recovery(t, now, health') : Ask(rs)
  /\ events' = Tail(events)
  /\ UNCHANGED <<net, streak, netTip>>

-----------------------------------------------------------------------------
(* Timers of the node.                                                     *)

\* The periodic detector.
Detect ==
  LET best == {table[p].height : p \in {q \in DOMAIN table : table[q].age < StaleAge}}
      syncing == \/ height + SyncThreshold < Median(table, Active)
                 \/ \E h \in best : height + SyncThreshold < h
      run == IF health = "SuspectFork" THEN streak + 1 ELSE 0
  IN
  /\ Quiet
  /\ streak' = IF run >= 3 THEN 0 ELSE run
  /\ IF run >= 3 THEN \E rs \in Recovery(table, height, health) : Ask(rs) ELSE UNCHANGED asked
  /\ health' = CASE syncing -> "Recovery"
                 [] ~syncing /\ health # "SuspectFork" -> "Normal"
                 [] OTHER -> health
  /\ UNCHANGED <<net, events, table, chain, netTip>>

\* Faulty variant: a quarantine has no end.
TickJails ==
  /\ table' = [p \in DOMAIN table |-> [table[p] EXCEPT !.age = Smaller(StaleAge, @ + 1)]]
  /\ UNCHANGED <<net, asked, events, chain, health, streak, netTip>>

\* Time passes for the table: entries age, quarantines run out.
Tick ==
  /\ table' = [p \in DOMAIN table |->
                 [table[p] EXCEPT !.age = Smaller(StaleAge, @ + 1), !.jail = Larger(0, @ - 1)]]
  /\ UNCHANGED <<net, asked, events, chain, health, streak, netTip>>

-----------------------------------------------------------------------------
Handle == PeerConnected \/ PeerDisconnected \/ StatusUpdate \/ BlocksReceived

Next ==
  \/ \E p \in Peer : \/ Connect(p) \/ Disconnect(p) \/ Status(p) \/ Grow(p)
                     \/ \E r \in asked[p] : Answer(p, r)
  \/ Handle \/ UpdateChainState \/ CheckSync \/ Detect \/ Tick

\* The node handles its events and its timers fire.  A peer that stays
\* connected sends its status every ten seconds and answers what it is asked;
\* both are strongly fair, for the bound on the queue disables them while it
\* is full, which the channel never is.
Fairness ==
  /\ WF_vars(Handle) /\ WF_vars(UpdateChainState) /\ WF_vars(Tick)
  /\ \A p \in Peer : /\ SF_vars(Status(p))
                     /\ SF_vars(\E r \in asked[p] : Answer(p, r))

Spec == Init /\ [][Next]_vars /\ Fairness

-----------------------------------------------------------------------------
(* Properties.                                                             *)

\* The tables and queues have their types; the buffer holds blocks ahead of
\* the chain with a gap before them.
TypeOK ==
  /\ tip \in [Peer -> 0..Top] /\ Conn \subseteq Peer
  /\ \A p \in Conn : seen[p].height \in 0..Top /\ seen[p].work \in 0..Top
  /\ \A p \in Peer : asked[p] \subseteq [from : 0..Top + 1, to : 0..Top + 1]
  /\ DOMAIN table \subseteq Peer
  /\ \A p \in DOMAIN table : /\ table[p].height \in 0..Top /\ table[p].work \in 0..Top
                             /\ table[p].age \in 0..StaleAge /\ table[p].jail \in 0..JailTime
                             /\ table[p].reports \in 0..JailAfter - 1
  /\ height \in 0..Top
  /\ buffer \subseteq height + 2..Top
  /\ health \in Health /\ streak \in 0..2 /\ netTip \in 0..Top

\* A node with a taller peer that stays reaches the height the peer has:
\* whatever statuses, batches and timers come in which order, and although its
\* own tip is asked for again in every batch.
CatchesUp ==
  \A n \in 1..Top : <>[](\E p \in Conn : tip[p] >= n) => <>(height >= n)

\* A node that has lost its peers for good stops mining, even if the last
\* status of one of them was handled after its departure.
LonelyStops == <>[](Conn = {}) => <>[]~ShouldMine

\* A node whose peers are all at its own tip, and stay, is allowed to mine
\* again and again: no peer is left out for good.
SyncedMines ==
  <>[](Conn # {} /\ \A p \in Conn : tip[p] = Top) => []<>ShouldMine
==============================================================================
