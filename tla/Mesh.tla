-------------------------------- MODULE Mesh ---------------------------------
(***************************************************************************)
(* How the nodes of the mesh network (network/src/mesh) come to be linked: *)
(* dialling, the two ends of a connection that finish their handshake one  *)
(* after the other, the read and the write task of each end, the events    *)
(* they send to the event loop, and its table of peers (PeerManager).      *)
(* Node identities are numbers; the lower one of two dials.                *)
(*                                                                         *)
(* A message is seen only in what it does to the links: heartbeats, which  *)
(* tell that a peer is alive, and the lists of the peer exchange.  Left    *)
(* out: routing and gossip of payloads, rate limits, signatures, shutdown, *)
(* how long the backoff is, and restarts.  A connection breaks at both     *)
(* ends, which notice it in any order.                                     *)
(***************************************************************************)
EXTENDS Integers, FiniteSets, Sequences

CONSTANTS
  Node,          \* a set of numbers
  MaxMissed,     \* max_missed_heartbeats
  Link,          \* bound: names of the connections that exist at one time
  Setups         \* bound: what a run may start with: the seeds of the nodes that
                 \* start, how many connections will break, and how many ticks
                 \* will come while something else is under way

\* The dials of the start-up, by dialler and seed.
FirstDials(seeds) == UNION {{<<n, m>> : m \in seeds[n]} : n \in DOMAIN seeds}

ASSUME MeshAssumption ==
  /\ Node \subseteq Nat /\ IsFiniteSet(Node)
  /\ Link \subseteq Nat /\ IsFiniteSet(Link) /\ MaxMissed \in Nat \ {0}
  /\ \A u \in Setups :
       /\ DOMAIN u.seeds \subseteq Node /\ \A n \in DOMAIN u.seeds : u.seeds[n] \subseteq Node
       /\ Cardinality(FirstDials(u.seeds)) <= Cardinality(Link)
       /\ u.breaks \in Nat /\ u.hasty \in Nat

VARIABLES
  links,   \* the TCP connections, by name
  known,   \* known[n]: PeerManager.peers of n, for each known peer
  writers, \* writers[n][m]: the end n writes to when it writes to m
  events,  \* events[n]: connection events on their way to n's event loop
  joined,  \* joined[n]: the peers the coordinator of n was told of
  breaks,  \* how many connections will yet break
  hasty,   \* how many ticks will yet come while something is under way
  started, \* the nodes that were started
  failed   \* history: a handshake failed

history == <<breaks, hasty, started, failed>>
meshVars == <<links, known, writers, events, joined, history>>

States == {"Disconnected", "Connecting", "Connected", "Dead"}
Others(n) == Node \ {n}
Put(f, x, v) == [y \in DOMAIN f \cup {x} |-> IF y = x THEN v ELSE f[y]]

-----------------------------------------------------------------------------
(* Connections.  Each has two ends, which may be of one node: a node that  *)
(* has its own address among its seeds.  due: the ends that have yet to    *)
(* finish the handshake.  reading, writing: those whose read and write     *)
(* task run.                                                               *)

Side == {"dialler", "acceptor"}
Opposite(s) == IF s = "dialler" THEN "acceptor" ELSE "dialler"

Dialled(n, m) == [dialler |-> n, acceptor |-> m, due |-> Side,
                  reading |-> {}, writing |-> {}, broken |-> FALSE]
At(i, s) == IF s = "dialler" THEN links[i].dialler ELSE links[i].acceptor
Far(i, s) == At(i, Opposite(s))

\* Names no connection has, nor a table or an event that outlived its connection.
FreeName(ls) ==
  Link \ (DOMAIN ls \cup UNION {{writers[n][m][1] : m \in DOMAIN writers[n]} : n \in Node}
                    \cup UNION {{events[n][k].end[1] : k \in DOMAIN events[n]} : n \in Node})

\* ls with a new connection for each of the peers n dials.
WithDials(ls, n, targets) ==
  LET rank(m) == Cardinality({k \in targets : k <= m})
      name(k) == CHOOSE i \in FreeName(ls) : Cardinality({j \in FreeName(ls) : j <= i}) = k
      new == {name(k) : k \in 1..Cardinality(targets)}
  IN  [i \in DOMAIN ls \cup new |->
         IF i \in new THEN Dialled(n, CHOOSE m \in targets : name(rank(m)) = i) ELSE ls[i]]
CanDial(k) == Cardinality(FreeName(links)) >= k

\* A connection nobody has a task on, or will have, is gone.
Kept(ls) == [i \in {j \in DOMAIN ls : ls[j].due \cup ls[j].reading \cup ls[j].writing # {}} |-> ls[i]]

\* The write tasks of these ends stop when their channels are dropped.
Dropped(ls, ends) ==
  [i \in DOMAIN ls |-> [ls[i] EXCEPT !.writing = {s \in @ : <<i, s>> \notin ends}]]

Sent(n, evs) == events' = [events EXCEPT ![n] = @ \o evs]
Up(m, i, s) == [kind |-> "Connected", peer |-> m, end |-> <<i, s>>]
Down(m) == [kind |-> "Disconnected", peer |-> m, end |-> <<0, "dialler">>]

views == <<known, writers, joined>>

\* finalize_connection: the read task runs before the event loop is told of the
\* connection, and may have found it broken before that.
Finalize(i, s) ==
  LET n == At(i, s) IN
  /\ s \in links[i].due
  /\ \/ /\ links' = [links EXCEPT ![i].due = @ \ {s}, ![i].reading = @ \cup {s},
                                  ![i].writing = @ \cup {s}]
        /\ Sent(n, <<Up(Far(i, s), i, s)>>)
     \/ /\ links[i].broken
        /\ links' = [links EXCEPT ![i].due = @ \ {s}, ![i].writing = @ \cup {s}]
        /\ Sent(n, <<Down(Far(i, s)), Up(Far(i, s), i, s)>>)
  /\ UNCHANGED <<views, history>>

\* The handshake fails on a broken connection: nobody hears of it.  The
\* dialler's part is done by the time the acceptor's is.
HandshakeFails(i, s) ==
  /\ s \in links[i].due /\ links[i].broken
  /\ "acceptor" \in links[i].due
  /\ links' = Kept([links EXCEPT ![i].due = @ \ {s}])
  /\ failed' = TRUE
  /\ UNCHANGED <<views, events, breaks, hasty, started>>

\* The read task ends with the connection.
ReadEnds(i, s) ==
  /\ links[i].broken /\ s \in links[i].reading
  /\ links' = Kept([links EXCEPT ![i].reading = @ \ {s}])
  /\ Sent(At(i, s), <<Down(Far(i, s))>>)
  /\ UNCHANGED <<views, history>>

\* The write task ends at the next message it is to send.
WriteFails(i, s) ==
  LET n == At(i, s) IN
  /\ links[i].broken /\ s \in links[i].writing
  /\ Far(i, s) \in DOMAIN writers[n] /\ writers[n][Far(i, s)] = <<i, s>>
  /\ links' = Kept([links EXCEPT ![i].writing = @ \ {s}])
  /\ Sent(n, <<Down(Far(i, s))>>)
  /\ UNCHANGED <<views, history>>

Break(i) ==
  /\ ~links[i].broken /\ breaks > 0
  /\ links' = [links EXCEPT ![i].broken = TRUE]
  /\ breaks' = breaks - 1
  /\ UNCHANGED <<views, events, hasty, started, failed>>

-----------------------------------------------------------------------------
(* The event loop of a node.                                               *)

Record(s) == [state |-> s, missed |-> 0]
Connected(n) == {m \in DOMAIN known[n] : known[n][m].state = "Connected"}
ShouldDial(n, m) == n < m

StartWith(u) ==
  LET dials == FirstDials(u.seeds)
      before(d) == {e \in dials : e[1] < d[1] \/ (e[1] = d[1] /\ e[2] < d[2])}
      name(d) == CHOOSE i \in Link : Cardinality({j \in Link : j < i}) = Cardinality(before(d))
  IN
  /\ links = [i \in {name(d) : d \in dials} |->
                LET d == CHOOSE d \in dials : name(d) = i IN Dialled(d[1], d[2])]
  /\ known = [n \in Node |-> <<>>] /\ writers = [n \in Node |-> <<>>]
  /\ events = [n \in Node |-> <<>>] /\ joined = [n \in Node |-> {}]
  /\ breaks = u.breaks /\ hasty = u.hasty /\ started = DOMAIN u.seeds /\ failed = FALSE

MeshInit == \E u \in Setups : StartWith(u)

\* A second connection with a peer is dropped: its write task ends, its read
\* task goes on.  register_peer has no entry for the node itself.
HandleConnected(n) ==
  LET ev == Head(events[n]) IN
  /\ events[n] # <<>> /\ ev.kind = "Connected"
  /\ events' = [events EXCEPT ![n] = Tail(@)]
  /\ IF ev.peer \in DOMAIN writers[n]
       THEN /\ links' = Kept(Dropped(links, {ev.end}))
            /\ UNCHANGED views
       ELSE /\ known' = IF ev.peer = n THEN known
                        ELSE [known EXCEPT ![n] = Put(@, ev.peer, Record("Connected"))]
            /\ writers' = [writers EXCEPT ![n] = Put(@, ev.peer, ev.end)]
            /\ joined' = [joined EXCEPT ![n] = @ \cup {ev.peer}]
            /\ UNCHANGED links
  /\ UNCHANGED history

\* What is left of peers ms at node n once they are taken for gone.
Lose(n, ms) ==
  /\ writers' = [writers EXCEPT ![n] = [m \in DOMAIN @ \ ms |-> @[m]]]
  /\ joined' = [joined EXCEPT ![n] = @ \ ms]
  /\ links' = Kept(Dropped(links, {writers[n][m] : m \in ms \cap DOMAIN writers[n]}))

\* Faulty variant: a lost peer is marked with the state its name suggests.
HandleDisconnectedIdle(n) ==
  LET m == Head(events[n]).peer IN
  /\ events[n] # <<>> /\ Head(events[n]).kind = "Disconnected"
  /\ events' = [events EXCEPT ![n] = Tail(@)]
  /\ Lose(n, {m})
  /\ known' = IF m \in DOMAIN known[n] THEN [known EXCEPT ![n][m].state = "Disconnected"] ELSE known
  /\ UNCHANGED history

\* The event names the peer and not the connection.
HandleDisconnected(n) ==
  LET m == Head(events[n]).peer IN
  /\ events[n] # <<>> /\ Head(events[n]).kind = "Disconnected"
  /\ events' = [events EXCEPT ![n] = Tail(@)]
  /\ Lose(n, {m})
  /\ known' = IF m \in DOMAIN known[n] THEN [known EXCEPT ![n][m].state = "Dead"] ELSE known
  /\ UNCHANGED history

\* n hears m if m writes to a connection that n reads.
Hears(n, m) ==
  /\ n \in DOMAIN writers[m]
  /\ LET i == writers[m][n][1]
         s == writers[m][n][2]
     IN  /\ i \in DOMAIN links /\ ~links[i].broken
         /\ s \in links[i].writing /\ Opposite(s) \in links[i].reading

\* What is under way: handshakes, events, and tasks that have yet to find their
\* connection broken.
Busy ==
  \/ \E n \in Node : events[n] # <<>>
  \/ \E i \in DOMAIN links : \/ links[i].due # {}
                             \/ links[i].broken /\ links[i].reading \cup links[i].writing # {}

\* A tick every few seconds finds all this done, except a few times.
Ticks ==
  /\ Busy => hasty > 0
  /\ hasty' = IF Busy THEN hasty - 1 ELSE hasty

\* Faulty variant: a peer declared dead keeps its channel.
HeartbeatTickKeeps(n) ==
  LET missed(m) == IF Hears(n, m) THEN 0 ELSE known[n][m].missed + 1 IN
  /\ Ticks
  /\ \E m \in Connected(n) : missed(m) # known[n][m].missed
  /\ known' = [known EXCEPT ![n] =
       [m \in DOMAIN @ |->
          IF m \in Connected(n) /\ missed(m) >= MaxMissed THEN [@[m] EXCEPT !.state = "Dead"] ELSE @[m]]]
  /\ UNCHANGED <<links, writers, events, joined, breaks, started, failed>>

\* The heartbeat tick: each peer that was not heard since the last but one has
\* missed one more.
HeartbeatTick(n) ==
  LET missed(m) == IF Hears(n, m) THEN 0 ELSE known[n][m].missed + 1
      dead == {m \in Connected(n) : missed(m) >= MaxMissed}
  IN
  /\ Ticks
  /\ \E m \in Connected(n) : missed(m) # known[n][m].missed
  /\ known' = [known EXCEPT ![n] =
       [m \in DOMAIN @ |->
          IF m \in dead THEN [@[m] EXCEPT !.state = "Dead", !.missed = MaxMissed]
          ELSE IF m \in Connected(n) THEN [@[m] EXCEPT !.missed = missed(m)] ELSE @[m]]]
  /\ Lose(n, dead)
  /\ UNCHANGED <<events, breaks, started, failed>>

\* A list of the peers connected to m arrives at n.  The lower of two dials, once.
PeerExchange(n, m) ==
  LET new == Connected(m) \ (DOMAIN known[n] \cup {n})
      dialled == {p \in new : ShouldDial(n, p) /\ p \notin DOMAIN writers[n]}
  IN
  /\ Ticks /\ Hears(n, m) /\ new # {} /\ CanDial(Cardinality(dialled))
  /\ known' = [known EXCEPT ![n] =
       [p \in DOMAIN @ \cup new |-> IF p \in new THEN Record("Disconnected") ELSE @[p]]]
  /\ links' = WithDials(links, n, dialled)
  /\ UNCHANGED <<writers, events, joined, breaks, started, failed>>

Reconnect(n) ==
  LET dialled == {m \in DOMAIN known[n] : /\ known[n][m].state = "Dead"
                                          /\ ShouldDial(n, m) /\ m \notin DOMAIN writers[n]}
  IN
  /\ \E some \in SUBSET dialled \ {{}} :
       /\ CanDial(Cardinality(some))
       /\ known' = [known EXCEPT ![n] =
            [m \in DOMAIN @ |-> IF m \in some THEN [@[m] EXCEPT !.state = "Connecting"] ELSE @[m]]]
       /\ links' = WithDials(links, n, some)
  /\ UNCHANGED <<writers, events, joined, history>>

-----------------------------------------------------------------------------
Handle(n) == HandleConnected(n) \/ HandleDisconnected(n)

LinkTask(i) == \E s \in Side : \/ Finalize(i, s) \/ HandshakeFails(i, s)
                              \/ ReadEnds(i, s) \/ WriteFails(i, s)

MeshNext ==
  \/ \E i \in DOMAIN links : LinkTask(i) \/ Break(i)
  \/ \E n \in Node : \/ Handle(n) \/ HeartbeatTick(n) \/ Reconnect(n)
                     \/ \E m \in Others(n) : PeerExchange(n, m)

\* Event loops and tasks run, and timers fire; nothing makes connections break.
MeshFairness ==
  /\ \A i \in Link : WF_meshVars(i \in DOMAIN links /\ LinkTask(i))
  /\ \A n \in Node : /\ WF_meshVars(Handle(n)) /\ WF_meshVars(HeartbeatTick(n)) /\ WF_meshVars(Reconnect(n))
                     /\ \A m \in Others(n) : WF_meshVars(PeerExchange(n, m))

MeshSpec == MeshInit /\ [][MeshNext]_meshVars /\ MeshFairness

-----------------------------------------------------------------------------
(* Properties.                                                             *)

\* The tables have their types, and no node has an entry for itself.
MeshTypeOK ==
  /\ DOMAIN links \subseteq Link
  /\ \A i \in DOMAIN links :
       /\ links[i].dialler \in Node /\ links[i].acceptor \in Node
       /\ links[i].due \cup links[i].reading \cup links[i].writing \subseteq Side
  /\ \A n \in Node :
       /\ DOMAIN known[n] \subseteq Others(n)
       /\ \A m \in DOMAIN known[n] : known[n][m].state \in States /\ known[n][m].missed \in 0..MaxMissed
       /\ DOMAIN writers[n] \subseteq Node /\ joined[n] \subseteq Node

\* The three views of who is connected agree: the table gossip takes its
\* targets from, the channels it writes to and the peers the epoch coordinator
\* counts its quorum from; only the node itself, when it was dialled, is in the
\* latter two alone.  Duplicate connections, events of connections long replaced
\* and peers declared dead twice do not tear them apart (event_loop).
ViewsAgree ==
  \A n \in Node : Connected(n) = DOMAIN writers[n] \ {n} /\ joined[n] = DOMAIN writers[n]

\* The types, and views that agree.
ViewsSound == MeshTypeOK /\ ViewsAgree

\* Unless a handshake fails, which leaves a dial that nobody repeats, every node
\* that was started comes to hear every other for good once connections stop
\* breaking: they find each other through a common peer, both ends keep a
\* connection when they dialled each other, a peer declared dead for a heartbeat
\* that was late is taken back, and what is left of old connections stops tearing
\* down new ones (event_loop).
MeshForms == <>[](failed \/ \A n \in started : \A m \in started \ {n} : Hears(n, m))

\* "Connection lost, scheduled for reconnection" (connection.rs:32, of the state
\* Dead): a peer in this state is written to again one day.  Reconnected does not
\* hold: where a dial failed the dialler has no entry, or one that stays Connecting.
Reconnected ==
  \A n \in Node : \A m \in Others(n) :
    (m \in DOMAIN known[n] /\ known[n][m].state = "Dead") ~> m \in DOMAIN writers[n]

\* "Our own node ID (to avoid self-connections)" (peer_manager.rs:43).
\* NoSelfConnection does not hold: a node with its own address among its seeds is
\* connected to itself.
NoSelfConnection == \A n \in Node : n \notin DOMAIN writers[n] \cup joined[n]
==============================================================================
