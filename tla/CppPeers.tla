------------------------------ MODULE CppPeers -------------------------------
(***************************************************************************)
(* The connections of a node in the CPP network (network/src/cpp/network.rs)*)
(* with the limits of network/src/security.rs.  The tasks are one per      *)
(* connection, inbound or outbound, and the event loop.  They share the    *)
(* table of peers, the router's table and the chain state, each behind a   *)
(* tokio RwLock; a task holds some of these locks across the acquisition   *)
(* of another, and the chain state's across the whole handshake.           *)
(*                                                                         *)
(* A step of a task is what it does under the locks it was granted, up to  *)
(* the release and the next request.  The other locks (limiter, subnets,   *)
(* rate limiters, metrics, flock, bans) are never held while waiting for   *)
(* one of the three, and are taken here within a step.                     *)
(* Left out: bans and the other reasons to turn a connection away unseen,  *)
(* the contents of messages, and DisconnectPeer, which the node never      *)
(* sends.  The time without a message is counted in read timeouts.         *)
(***************************************************************************)
EXTENDS Naturals, FiniteSets, SequencesExt

CONSTANTS
  Conn,        \* connections, each used once
  Outbound,    \* those this node dials
  Peer, PeerOf,\* the peer id at the other end
  Ip, IpOf,    \* the address; the addresses of the model share a subnet
  MaxPerIp,    \* max_connections_per_ip
  MaxTotal,    \* max_total_connections
  MaxSubnet,   \* max_peers_per_subnet
  MaxTimeouts, \* MAX_CONSECUTIVE_TIMEOUTS
  MinHealthy,  \* MIN_HEALTHY_PEERS
  Net          \* the event loop

ASSUME CppPeersAssumption ==
  /\ IsFiniteSet(Conn) /\ IsFiniteSet(Ip) /\ Net \notin Conn
  /\ Outbound \subseteq Conn
  /\ PeerOf \in [Conn -> Peer] /\ IpOf \in [Conn -> Ip]
  /\ {MaxPerIp, MaxTotal, MaxSubnet, MaxTimeouts} \subseteq Nat \ {0} /\ MinHealthy \in Nat

VARIABLES
  pc,       \* pc[t]: where task t is
  lock,     \* lock[l]: the tasks that hold or wait for l, in order of arrival
  peers,    \* the table: for each peer id its connection and read timeouts
  router,   \* the peer ids in the router
  perIp,    \* ConnectionLimiter.per_ip
  total,    \* ConnectionLimiter.total
  subnet,   \* EclipseGuard: the count of the subnet
  dead      \* connections whose other end has gone silent

cppVars == <<pc, lock, peers, router, perIp, total, subnet, dead>>

Task == Conn \cup {Net}
Lock == {"peers", "router", "chain"}

\* The lock a task asks for on its way to a place, and the mode.
Wants ==
  [dial     |-> <<"peers", "r">>,  hello    |-> <<"chain", "r">>,
   check    |-> <<"peers", "r">>,  insert   |-> <<"peers", "w">>,
   route    |-> <<"peers", "r">>,  join     |-> <<"router", "w">>,
   top      |-> <<"peers", "r">>,  got      |-> <<"peers", "w">>,
   flock    |-> <<"router", "w">>, late     |-> <<"peers", "w">>,
   leave    |-> <<"peers", "w">>,  quit     |-> <<"router", "w">>,
   select   |-> <<"router", "r">>, everyone |-> <<"peers", "r">>,
   send     |-> <<"peers", "r">>,  stats    |-> <<"peers", "w">>,
   sweep    |-> <<"peers", "w">>,  purge    |-> <<"router", "w">>,
   update   |-> <<"chain", "w">>,  ping     |-> <<"peers", "w">>]

Place == DOMAIN Wants \cup {"new", "announce", "reading", "free", "closed", "idle"}

\* A read is granted when no write was asked for before it, a write when
\* nothing was: the lock is fair.
Granted(l, t) ==
  \E i \in DOMAIN lock[l] :
    /\ lock[l][i][1] = t
    /\ i = 1 \/ \A j \in 1..i : lock[l][j][2] = "r"

Ready(t, at) ==
  /\ pc[t] = at
  /\ at \in DOMAIN Wants => Granted(Wants[at][1], t)

\* The queue of a lock after task t, which holds it, has released it.
Released(q, t) == RemoveAt(q, CHOOSE i \in DOMAIN q : q[i][1] = t)

\* Task t releases the locks in done and asks for the one the next place wants.
Goto(t, to, done) ==
  /\ pc' = [pc EXCEPT ![t] = to]
  /\ lock' = [l \in Lock |->
       LET q == IF l \in done THEN Released(lock[l], t) ELSE lock[l]
       IN  IF to \in DOMAIN Wants /\ Wants[to][1] = l THEN Append(q, <<t, Wants[to][2]>>) ELSE q]

CppInit ==
  /\ pc = [t \in Task |-> IF t = Net THEN "idle" ELSE "new"]
  /\ lock = [l \in Lock |-> <<>>]
  /\ peers = <<>> /\ router = {}
  /\ perIp = [i \in Ip |-> 0] /\ total = 0 /\ subnet = 0
  /\ dead = {}

Monus(n, k) == IF n > k THEN n - k ELSE 0

-----------------------------------------------------------------------------
(* The slots of a connection.                                              *)

SubnetFull == subnet >= MaxSubnet
SubnetLeft(n) == IF subnet > n THEN subnet - n ELSE 0

LimitReached(i) == total >= MaxTotal \/ perIp[i] >= MaxPerIp

Acquire(i) ==
  /\ perIp' = [perIp EXCEPT ![i] = @ + 1]
  /\ total' = total + 1

\* release() of the limiter, and of the subnet, for a set of connections:
\* a count that is zero stays so.
ReleaseAll(cs) ==
  LET taken(i) == LET n == Cardinality({c \in cs : IpOf[c] = i})
                  IN  IF n < perIp[i] THEN n ELSE perIp[i]
      released == {r \in Ip \X (1..Cardinality(cs)) : r[2] <= taken(r[1])}
  IN  /\ perIp' = [i \in Ip |-> perIp[i] - taken(i)]
      /\ total' = Monus(total, Cardinality(released))
      /\ subnet' = SubnetLeft(Cardinality(cs))

\* What a connection gives back when its task ends; an outbound one holds no
\* slot of the limiter.
GiveBack(c) ==
  IF c \in Outbound THEN subnet' = SubnetLeft(1) /\ UNCHANGED <<perIp, total>>
                    ELSE ReleaseAll({c})

slots == <<perIp, total, subnet>>
tables == <<peers, router>>

-----------------------------------------------------------------------------
(* From the handshake to the message loop.                                 *)

\* The event loop accepts, or turns away over the limits.
Accept(c) ==
  /\ pc[Net] = "idle" /\ pc[c] = "new" /\ c \notin Outbound
  /\ IF LimitReached(IpOf[c]) \/ SubnetFull
       THEN Goto(c, "closed", {}) /\ UNCHANGED slots
       ELSE /\ Acquire(IpOf[c])
            /\ subnet' = subnet + 1
            /\ Goto(c, "hello", {})
  /\ UNCHANGED <<tables, dead>>

\* ConnectBootnode, sent for every bootnode when the node starts.
FirstDial(c) == \A d \in Outbound : PeerOf[d] = PeerOf[c] => pc[d] = "new"

\* One timeout takes the quality of a peer below PEER_QUALITY_THRESHOLD.
Healthy == {p \in DOMAIN peers : peers[p].timeouts = 0}

\* The reconnection tick, once the backoff of the address has passed; an
\* earlier dial of it may still be under way.
TooFewHealthy == Cardinality(Healthy) < MinHealthy

StartDial(c) ==
  /\ pc[Net] = "idle" /\ pc[c] = "new" /\ c \in Outbound
  /\ FirstDial(c) \/ TooFewHealthy
  /\ Goto(c, "dial", {})
  /\ UNCHANGED <<tables, slots, dead>>

Dial(c) ==
  /\ Ready(c, "dial")
  /\ Goto(c, IF \E p \in DOMAIN peers : /\ peers[p].conn \in Outbound
                                        /\ PeerOf[peers[p].conn] = PeerOf[c]
             THEN "closed" ELSE "hello", {"peers"})
  /\ UNCHANGED <<tables, slots, dead>>

\* The chain state stays locked for reading until the other end has sent its
\* Hello and taken the HelloAck, failed, or HANDSHAKE_TIMEOUT has passed.
Greet(c) ==
  /\ Ready(c, "hello") /\ c \notin Outbound \cup dead
  /\ Goto(c, "check", {"chain"})
  /\ UNCHANGED <<tables, slots, dead>>

\* Faulty variant: nobody waits for the other end with a timeout.
GreetFailedAlive(c) ==
  /\ Ready(c, "hello") /\ c \notin Outbound \cup dead
  /\ GiveBack(c)
  /\ Goto(c, "closed", {"chain"})
  /\ UNCHANGED <<tables, dead>>

GreetFailed(c) ==
  /\ Ready(c, "hello") /\ c \notin Outbound
  /\ GiveBack(c)
  /\ Goto(c, "closed", {"chain"})
  /\ UNCHANGED <<tables, dead>>

\* So it does while a dial waits for its HelloAck.
HelloAck(c) ==
  /\ Ready(c, "hello") /\ c \in Outbound \ dead
  /\ Goto(c, "check", {"chain"})
  /\ UNCHANGED <<tables, slots, dead>>

DialFailed(c) ==
  /\ Ready(c, "hello") /\ c \in Outbound
  /\ Goto(c, "closed", {"chain"})
  /\ UNCHANGED <<tables, slots, dead>>

\* An id that is in the table is turned away.
Check(c) ==
  /\ Ready(c, "check") /\ c \notin Outbound
  /\ IF PeerOf[c] \in DOMAIN peers
       THEN GiveBack(c) /\ Goto(c, "closed", {"peers"})
       ELSE UNCHANGED slots /\ Goto(c, "insert", {"peers"})
  /\ UNCHANGED <<tables, dead>>

CheckDialled(c) ==
  /\ Ready(c, "check") /\ c \in Outbound
  /\ Goto(c, IF PeerOf[c] \in DOMAIN peers THEN "closed" ELSE "insert", {"peers"})
  /\ UNCHANGED <<tables, slots, dead>>

WithEntry(c) == [p \in DOMAIN peers \cup {PeerOf[c]} |->
                   IF p = PeerOf[c] THEN [conn |-> c, timeouts |-> 0] ELSE peers[p]]

\* Only the outbound side looks again under the write lock; the inbound one
\* may take the place of an entry.
Insert(c) ==
  /\ Ready(c, "insert") /\ c \notin Outbound
  /\ peers' = WithEntry(c)
  /\ Goto(c, "route", {"peers"})
  /\ UNCHANGED <<router, slots, dead>>

InsertDialled(c) ==
  /\ Ready(c, "insert") /\ c \in Outbound
  /\ IF PeerOf[c] \in DOMAIN peers
       THEN Goto(c, "closed", {"peers"}) /\ UNCHANGED peers
       ELSE Goto(c, "route", {"peers"}) /\ peers' = WithEntry(c)
  /\ UNCHANGED <<router, slots, dead>>

\* Faulty variant: the router is given what the handshake said, as add_peer() did.
RouteBlind(c) ==
  /\ Ready(c, "route")
  /\ Goto(c, "join", {})
  /\ UNCHANGED <<tables, slots, dead>>

\* The router's lock is asked for with the table's in hand.
Route(c) ==
  /\ Ready(c, "route")
  /\ IF PeerOf[c] \in DOMAIN peers THEN Goto(c, "join", {}) ELSE Goto(c, "announce", {"peers"})
  /\ UNCHANGED <<tables, slots, dead>>

Join(c) ==
  /\ Ready(c, "join")
  /\ router' = router \cup {PeerOf[c]}
  /\ Goto(c, "announce", {"peers", "router"})
  /\ UNCHANGED <<peers, slots, dead>>

\* PeerConnected is sent, and the message loop spawned.
Announce(c) ==
  /\ pc[c] = "announce" /\ c \notin Outbound
  /\ Goto(c, "top", {})
  /\ UNCHANGED <<tables, slots, dead>>

\* A dialled peer stays when its subnet is full, and is not counted.
AnnounceDialled(c) ==
  /\ pc[c] = "announce" /\ c \in Outbound
  /\ subnet' = IF SubnetFull THEN subnet ELSE subnet + 1
  /\ Goto(c, "top", {})
  /\ UNCHANGED <<tables, perIp, total, dead>>

-----------------------------------------------------------------------------
(* The message loop.                                                       *)

Top(c) ==
  /\ Ready(c, "top")
  /\ Goto(c, IF PeerOf[c] \in DOMAIN peers THEN "reading" ELSE "leave", {"peers"})
  /\ UNCHANGED <<tables, slots, dead>>

Receive(c) ==
  /\ pc[c] = "reading" /\ c \notin dead
  /\ Goto(c, "got", {})
  /\ UNCHANGED <<tables, slots, dead>>

\* The timeouts of whatever connection the table has for the id are reset;
\* a Status goes on to the router.
Got(c) ==
  /\ Ready(c, "got")
  /\ peers' = [p \in DOMAIN peers |->
                 IF p = PeerOf[c] THEN [peers[p] EXCEPT !.timeouts = 0] ELSE peers[p]]
  /\ \E to \in {"top", "flock"} : Goto(c, to, {"peers"})
  /\ UNCHANGED <<router, slots, dead>>

Flock(c) ==
  /\ Ready(c, "flock")
  /\ Goto(c, "top", {"router"})
  /\ UNCHANGED <<tables, slots, dead>>

ReadTimeout(c) ==
  /\ pc[c] = "reading" /\ c \in dead
  /\ Goto(c, "late", {})
  /\ UNCHANGED <<tables, slots, dead>>

\* Faulty variant: timeouts are counted and never looked at.
LateCounts(c) ==
  LET p == PeerOf[c] IN
  /\ Ready(c, "late")
  /\ peers' = [q \in DOMAIN peers |->
                 IF q = p THEN [peers[q] EXCEPT !.timeouts = IF @ < MaxTimeouts THEN @ + 1 ELSE @]
                          ELSE peers[q]]
  /\ Goto(c, IF p \in DOMAIN peers THEN "top" ELSE "leave", {"peers"})
  /\ UNCHANGED <<router, slots, dead>>

Late(c) ==
  LET p == PeerOf[c]
      known == p \in DOMAIN peers
  IN
  /\ Ready(c, "late")
  /\ peers' = [q \in DOMAIN peers |->
                 IF q = p THEN [peers[q] EXCEPT !.timeouts = @ + 1] ELSE peers[q]]
  /\ Goto(c, IF known /\ peers[p].timeouts + 1 < MaxTimeouts THEN "top" ELSE "leave", {"peers"})
  /\ UNCHANGED <<router, slots, dead>>

\* End of stream, a frame that does not decode, or too many messages.
ReadFailed(c) ==
  /\ pc[c] = "reading"
  /\ Goto(c, "leave", {})
  /\ UNCHANGED <<tables, slots, dead>>

Leave(c) ==
  LET p == PeerOf[c] IN
  /\ Ready(c, "leave")
  /\ peers' = [q \in DOMAIN peers \ {p} |-> peers[q]]
  /\ IF p \in DOMAIN peers THEN Goto(c, "quit", {}) ELSE Goto(c, "free", {"peers"})
  /\ UNCHANGED <<router, slots, dead>>

Quit(c) ==
  /\ Ready(c, "quit")
  /\ router' = router \ {PeerOf[c]}
  /\ Goto(c, "free", {"peers", "router"})
  /\ UNCHANGED <<peers, slots, dead>>

Free(c) ==
  /\ pc[c] = "free"
  /\ GiveBack(c)
  /\ Goto(c, "closed", {})
  /\ UNCHANGED <<tables, dead>>

\* The other end, or the path to it, goes silent.
Die(c) ==
  /\ pc[c] \notin {"new", "closed"} /\ c \notin dead
  /\ dead' = dead \cup {c}
  /\ UNCHANGED <<pc, lock, tables, slots>>

-----------------------------------------------------------------------------
(* The event loop: one branch of its select at a time.                     *)

\* A command or a timer is taken up.
Take ==
  /\ pc[Net] = "idle"
  /\ \E to \in {"select", "sweep", "update", "ping"} : Goto(Net, to, {})
  /\ UNCHANGED <<tables, slots, dead>>

\* A broadcast asks the router for peers; if it has none, every peer in the
\* table is taken, with the router's lock in hand.
Select ==
  /\ Ready(Net, "select")
  /\ IF router = {} THEN Goto(Net, "everyone", {}) ELSE Goto(Net, "send", {"router"})
  /\ UNCHANGED <<tables, slots, dead>>

Everyone ==
  /\ Ready(Net, "everyone")
  /\ Goto(Net, "send", {"peers", "router"})
  /\ UNCHANGED <<tables, slots, dead>>

Send ==
  /\ Ready(Net, "send")
  /\ Goto(Net, IF peers = <<>> THEN "idle" ELSE "stats", {"peers"})
  /\ UNCHANGED <<tables, slots, dead>>

\* What is done under one lock and leaves the tables as they are: the
\* statistics of a broadcast, pings, UpdateChainState.
Finish ==
  /\ \E at \in {"stats", "ping", "update"} :
       Ready(Net, at) /\ Goto(Net, "idle", {Wants[at][1]})
  /\ UNCHANGED <<tables, slots, dead>>

\* A peer is stale after PEER_TIMEOUT without a message; that much has passed
\* when its last read is about to time out.
Stale == {p \in DOMAIN peers : /\ peers[p].timeouts >= MaxTimeouts - 1
                               /\ peers[p].conn \in dead}

Sweep ==
  /\ Ready(Net, "sweep")
  /\ \/ Goto(Net, "idle", {"peers"})
     \/ Stale # {} /\ Goto(Net, "purge", {})
  /\ UNCHANGED <<tables, slots, dead>>

\* The slots are released here, and again when the message loop ends.
Purge ==
  /\ Ready(Net, "purge")
  /\ peers' = [p \in DOMAIN peers \ Stale |-> peers[p]]
  /\ router' = router \ Stale
  /\ ReleaseAll({peers[p].conn : p \in Stale})
  /\ Goto(Net, "idle", {"peers", "router"})
  /\ UNCHANGED dead

-----------------------------------------------------------------------------
Open(c) ==
  \/ Greet(c) \/ GreetFailed(c) \/ Check(c) \/ Insert(c) \/ Announce(c)
  \/ Dial(c) \/ HelloAck(c) \/ DialFailed(c) \/ CheckDialled(c) \/ InsertDialled(c)
  \/ AnnounceDialled(c) \/ Route(c) \/ Join(c)

ConnStep(c) ==
  \/ Open(c) \/ Top(c) \/ Got(c) \/ Flock(c)
  \/ ReadTimeout(c) \/ Late(c) \/ Leave(c) \/ Quit(c) \/ Free(c)

NetStep == Select \/ Everyone \/ Send \/ Finish \/ Sweep \/ Purge

CppNext ==
  \/ \E c \in Conn : \/ Accept(c) \/ StartDial(c) \/ ConnStep(c)
                     \/ Receive(c) \/ ReadFailed(c) \/ Die(c)
  \/ Take \/ NetStep

\* A spawned task is polled until it ends and its timers fire; nobody has to
\* call, dial, send or die.
CppFairness == WF_cppVars(NetStep) /\ \A c \in Conn : WF_cppVars(ConnStep(c))

CppSpec == CppInit /\ [][CppNext]_cppVars /\ CppFairness

-----------------------------------------------------------------------------
(* Properties.                                                             *)

\* Tables, counters and lock queues have their types; a task is in the queue
\* of a lock at most once.
CppTypeOK ==
  /\ pc \in [Task -> Place]
  /\ \A l \in Lock : /\ lock[l] \in Seq(Task \X {"r", "w"})
                     /\ \A i, j \in DOMAIN lock[l] : lock[l][i][1] = lock[l][j][1] => i = j
  /\ \A p \in DOMAIN peers : /\ p \in Peer
                             /\ peers[p].conn \in Conn
                             /\ peers[p].timeouts \in 0..MaxTimeouts + Cardinality(Conn)
  /\ router \subseteq Peer
  /\ perIp \in [Ip -> 0..MaxPerIp] /\ total \in 0..MaxTotal /\ subnet \in 0..MaxSubnet
  /\ dead \subseteq Conn

\* The router sends to the peers of the table and no others: a peer is in one
\* of the two tables alone only while the task that adds or removes it is
\* between them (the router entry of a peer that went would stay for good).
RouterFollowsTable ==
  /\ \A p \in router \ DOMAIN peers :
       \E c \in Conn : pc[c] = "quit" /\ PeerOf[c] = p
  /\ \A p \in DOMAIN peers \ router :
       \E c \in Conn : pc[c] \in {"route", "join"} /\ PeerOf[c] = p

Live(i) == {c \in Conn \ Outbound : IpOf[c] = i /\ pc[c] \notin {"new", "closed"}}

\* No slot is kept for a connection that is gone, on any path out of the
\* handshake, the message loop and the sweep.
NoSlotLeak ==
  /\ \A i \in Ip : perIp[i] <= Cardinality(Live(i))
  /\ subnet <= Cardinality({c \in Conn : pc[c] \notin {"new", "closed"}})

\* The types, and tables and slots that keep to the connections there are.
TablesSound == CppTypeOK /\ RouterFollowsTable /\ NoSlotLeak

\* "Schedule outbound bootnode dial without blocking the CPP event loop"
\* (network.rs:1332): whatever the event loop has taken up, it is back at its
\* select.  EventLoopReturns does not hold, for what LocksCrossed describes.
EventLoopReturns == pc[Net] # "idle" ~> pc[Net] = "idle"

\* The event loop asks for the table with the router in hand, and a connection
\* that has the table asks for the router (select_broadcast_peers, and the
\* joining and leaving of a peer): neither ever gets on.
LocksCrossed ==
  /\ pc[Net] = "everyone" /\ ~Granted("peers", Net)
  /\ \E c \in Conn : pc[c] \in {"join", "quit"}

\* Nothing but this keeps the event loop from its select: no connection that
\* hangs in a handshake or goes silent, no order in which the locks are asked
\* for elsewhere, and not the sweep.
OnlyCrossedLocksBlock == pc[Net] # "idle" ~> pc[Net] = "idle" \/ LocksCrossed

\* A connection whose other end went silent, at whatever point, comes to an
\* end without the sweep, unless the locks are crossed, or a second connection
\* of the same id, which shares the count of its timeouts, is still heard.
SilentPeerLeaves ==
  \A c \in Conn :
    c \in dead ~> \/ pc[c] = "closed" \/ LocksCrossed
                  \/ \E d \in Conn \ dead : /\ PeerOf[d] = PeerOf[c]
                                            /\ pc[d] \notin {"new", "closed"}
==============================================================================
