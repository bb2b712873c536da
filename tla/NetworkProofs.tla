----------------------------- MODULE NetworkProofs -----------------------------
(***************************************************************************)
(* Theorems about the two networks of a node.                              *)
(*                                                                         *)
(* CppPeers: a task keeps a lock while it asks for the next one at four    *)
(* places only; that the locks exclude each other there is what keeps the  *)
(* table of peers and the router together, and every way out of a          *)
(* connection gives back one slot at most for the one it ends.             *)
(*                                                                         *)
(* Mesh: the connected peers of a node's table, the channels it writes to  *)
(* and the peers its epoch coordinator was told of are always the same,    *)
(* but for the node itself.                                                *)
(* MeshInv adds to this what links and events under way are made of.      *)
(***************************************************************************)
EXTENDS CppPeers, Mesh, FiniteSetTheorems, SequenceTheorems, WellFoundedInduction, TLAPS

-----------------------------------------------------------------------------
(* CppPeers: the queues of the locks. *)

Mode == {"r", "w"}
Request == Task \X Mode

\* The queue of a lock: a task is in it once.
QueueOK(q) == q \in Seq(Request) /\ \A i, j \in DOMAIN q : q[i][1] = q[j][1] => i = j
In(q) == {q[i] : i \in DOMAIN q}
GrantedIn(q, t) ==
  \E i \in DOMAIN q : q[i][1] = t /\ (i = 1 \/ \A j \in 1..i : q[j][2] = "r")

\* Who comes later changes nothing for those who were granted the lock.
LEMMA Appended ==
  ASSUME NEW q, QueueOK(q), NEW t \in Task, NEW m \in Mode,
         \A n \in Mode : <<t, n>> \notin In(q)
  PROVE  /\ QueueOK(Append(q, <<t, m>>))
         /\ \A u \in Task, n \in Mode :
              <<u, n>> \in In(Append(q, <<t, m>>)) <=> <<u, n>> \in In(q) \/ (u = t /\ n = m)
         /\ \A u \in Task : GrantedIn(q, u) => GrantedIn(Append(q, <<t, m>>), u)
<1> DEFINE s == Append(q, <<t, m>>)
<1>1. /\ q \in Seq(Request) /\ s \in Seq(Request) /\ Len(s) = Len(q) + 1 /\ Len(q) \in Nat
      /\ DOMAIN q = 1..Len(q) /\ DOMAIN s = 1..Len(s)
      /\ s[Len(q) + 1] = <<t, m>> /\ \A i \in 1..Len(q) : s[i] = q[i]
  BY DEF QueueOK, Request
<1> HIDE DEF s
<1>2. \A i \in 1..Len(q) : q[i] = <<q[i][1], q[i][2]>> /\ q[i][1] \in Task /\ q[i][2] \in Mode
  BY <1>1 DEF Request
<1>3. \A i \in 1..Len(q) : q[i][1] # t
  BY <1>1, <1>2 DEF In
<1>4. QueueOK(s)
  <2> SUFFICES ASSUME NEW i \in DOMAIN s, NEW j \in DOMAIN s, s[i][1] = s[j][1] PROVE i = j
    BY <1>1 DEF QueueOK
  <2>1. (i \in 1..Len(q) \/ i = Len(q) + 1) /\ (j \in 1..Len(q) \/ j = Len(q) + 1)
    BY <1>1
  <2> QED BY <1>1, <1>3, <2>1 DEF QueueOK
<1>5. ASSUME NEW u \in Task, NEW n \in Mode
      PROVE  <<u, n>> \in In(s) <=> <<u, n>> \in In(q) \/ (u = t /\ n = m)
  <2>1. ASSUME <<u, n>> \in In(s) PROVE <<u, n>> \in In(q) \/ (u = t /\ n = m)
    <3>1. PICK i \in 1..Len(s) : s[i] = <<u, n>>
      BY <1>1, <2>1 DEF In
    <3>2. i \in 1..Len(q) \/ i = Len(q) + 1
      BY <1>1, <3>1
    <3> QED BY <1>1, <3>1, <3>2 DEF In
  <2>2. ASSUME <<u, n>> \in In(q) PROVE <<u, n>> \in In(s)
    <3>1. PICK i \in 1..Len(q) : q[i] = <<u, n>>
      BY <1>1, <2>2 DEF In
    <3>2. i \in 1..Len(s)
      BY <1>1, <3>1
    <3> QED BY <1>1, <3>1, <3>2 DEF In
  <2>3. <<t, m>> \in In(s)
    BY <1>1 DEF In
  <2> QED BY <2>1, <2>2, <2>3
<1>6. ASSUME NEW u \in Task, GrantedIn(q, u) PROVE GrantedIn(s, u)
  <2>1. PICK i \in 1..Len(q) : q[i][1] = u /\ (i = 1 \/ \A j \in 1..i : q[j][2] = "r")
    BY <1>1, <1>6 DEF GrantedIn
  <2>2. i \in 1..Len(s) /\ s[i] = q[i] /\ \A j \in 1..i : s[j] = q[j]
    BY <1>1, <2>1
  <2> QED BY <1>1, <2>1, <2>2 DEF GrantedIn
<1> QED BY <1>4, <1>5, <1>6 DEF s

\* RemoveAt moves what is behind up by one.
LEMMA WithoutOne ==
  ASSUME NEW S, NEW q \in Seq(S), NEW k \in 1..Len(q)
  PROVE  LET s == RemoveAt(q, k) IN
         /\ s \in Seq(S) /\ Len(s) = Len(q) - 1 /\ DOMAIN s = 1..Len(s)
         /\ \A i \in 1..Len(s) : s[i] = IF i < k THEN q[i] ELSE q[i + 1]
<1> DEFINE a == SubSeq(q, 1, k - 1)
           b == SubSeq(q, k + 1, Len(q))
           n == Len(q)
           s == a \o b
<1>1. n \in Nat /\ k \in 1..n /\ k \in Int /\ \A i \in 1..n : q[i] \in S
  OBVIOUS
<1>2. a \in Seq(S) /\ Len(a) = k - 1 /\ \A i \in 1..(k - 1) : a[i] = q[i]
  <2>1. \A i \in 1..(k - 1) : q[i] \in S
    BY <1>1
  <2>2. /\ a \in Seq(S) /\ Len(a) = IF 1 <= k - 1 THEN k - 1 - 1 + 1 ELSE 0
    BY <1>1, <2>1, SubSeqProperties
  <2>3. \A i \in 1..(k - 1 - 1 + 1) : a[i] = q[1 + i - 1]
    BY <1>1, <2>1, SubSeqProperties
  <2>4. \A i \in 1..(k - 1) : i \in 1..(k - 1 - 1 + 1) /\ 1 + i - 1 = i
    BY <1>1
  <2>5. Len(a) = k - 1
    BY <1>1, <2>2
  <2> QED BY <2>2, <2>3, <2>4, <2>5
<1>3. b \in Seq(S) /\ Len(b) = n - k /\ \A i \in 1..(n - k) : b[i] = q[i + k]
  <2>1. \A i \in (k + 1)..n : q[i] \in S
    BY <1>1
  <2>2. b \in Seq(S) /\ Len(b) = (IF k + 1 <= n THEN n - (k + 1) + 1 ELSE 0)
    BY <1>1, <2>1, SubSeqProperties
  <2>3. \A i \in 1..(n - (k + 1) + 1) : b[i] = q[k + 1 + i - 1]
    BY <1>1, <2>1, SubSeqProperties
  <2>4. \A i \in 1..(n - k) : i \in 1..(n - (k + 1) + 1) /\ k + 1 + i - 1 = i + k
    BY <1>1
  <2>5. Len(b) = n - k
    BY <1>1, <2>2
  <2> QED BY <2>2, <2>3, <2>4, <2>5
<1> HIDE DEF a, b
<1>4. /\ s \in Seq(S) /\ Len(s) = Len(a) + Len(b)
      /\ \A i \in 1..(Len(a) + Len(b)) : s[i] = IF i <= Len(a) THEN a[i] ELSE b[i - Len(a)]
  BY <1>2, <1>3, ConcatProperties
<1> HIDE DEF s, n
<1>5. Len(s) = n - 1 /\ DOMAIN s = 1..Len(s)
  <2>1. Len(s) = n - 1
    BY <1>1, <1>2, <1>3, <1>4
  <2> QED BY <1>4, <2>1
<1>6. ASSUME NEW i \in 1..(n - 1) PROVE s[i] = IF i < k THEN q[i] ELSE q[i + 1]
  <2>0. s[i] = IF i <= k - 1 THEN a[i] ELSE b[i - (k - 1)]
    BY <1>1, <1>2, <1>3, <1>4
  <2>1. CASE i < k
    <3>1. i <= k - 1 /\ i \in 1..(k - 1)
      BY <1>1, <2>1
    <3> QED BY <1>2, <2>0, <2>1, <3>1
  <2>2. CASE ~ (i < k)
    <3>1. i - (k - 1) \in 1..(n - k) /\ (i - (k - 1)) + k = i + 1 /\ ~ (i <= k - 1)
      BY <1>1, <2>2
    <3> QED BY <1>3, <2>0, <2>2, <3>1
  <2> QED BY <2>1, <2>2
<1>7. RemoveAt(q, k) = s
  BY DEF RemoveAt, s, a, b
<1> QED BY <1>4, <1>5, <1>6, <1>7 DEF n

\* Who goes takes nothing from the others.
LEMMA Withdrawn ==
  ASSUME NEW q, QueueOK(q), NEW t \in Task, \E m \in Mode : <<t, m>> \in In(q)
  PROVE  /\ QueueOK(Released(q, t))
         /\ \A u \in Task, n \in Mode :
              <<u, n>> \in In(Released(q, t)) <=> <<u, n>> \in In(q) /\ u # t
         /\ \A u \in Task \ {t} : GrantedIn(q, u) => GrantedIn(Released(q, t), u)
<1> DEFINE k == CHOOSE i \in DOMAIN q : q[i][1] = t
           s == Released(q, t)
<1>1. q \in Seq(Request) /\ Len(q) \in Nat /\ DOMAIN q = 1..Len(q)
  BY DEF QueueOK
<1>2. \A i \in 1..Len(q) : q[i] = <<q[i][1], q[i][2]>> /\ q[i][1] \in Task /\ q[i][2] \in Mode
  BY <1>1 DEF Request
<1>3. k \in 1..Len(q) /\ q[k][1] = t
  <2>1. \E i \in DOMAIN q : q[i][1] = t
    BY DEF In
  <2> QED BY <1>1, <2>1
<1>4. s = RemoveAt(q, k)
  BY DEF Released
<1> HIDE DEF k, s
<1>5. /\ s \in Seq(Request) /\ Len(s) = Len(q) - 1 /\ DOMAIN s = 1..Len(s)
      /\ \A i \in 1..Len(s) : s[i] = IF i < k THEN q[i] ELSE q[i + 1]
  BY <1>1, <1>3, <1>4, WithoutOne
<1>6. \A i \in 1..Len(q) : i # k => q[i][1] # t
  BY <1>1, <1>3 DEF QueueOK
<1> DEFINE old == [i \in 1..Len(s) |-> IF i < k THEN i ELSE i + 1]
<1>7. \A i \in 1..Len(s) : old[i] \in 1..Len(q) /\ old[i] # k /\ s[i] = q[old[i]]
  BY <1>1, <1>3, <1>5
<1>7a. \A i, j \in 1..Len(s) : (old[i] = old[j] => i = j) /\ (i <= j => old[i] <= old[j])
  BY <1>1, <1>3, <1>5
<1>7b. \A j \in 1..Len(s) : j <= old[j]
  BY <1>1, <1>3, <1>5
<1>8. ASSUME NEW i \in 1..Len(q), i # k
      PROVE  \E j \in 1..Len(s) : old[j] = i /\ s[j] = q[i]
  <2>1. CASE i < k
    BY <1>1, <1>3, <1>5, <1>8, <2>1
  <2>2. CASE i > k
    <3>1. i - 1 \in 1..Len(s) /\ old[i - 1] = i
      BY <1>1, <1>3, <1>5, <2>2
    <3> QED BY <1>7, <3>1
  <2> QED BY <1>1, <1>3, <1>8, <2>1, <2>2
<1> HIDE DEF old
<1>9. QueueOK(s)
  <2> SUFFICES ASSUME NEW i \in DOMAIN s, NEW j \in DOMAIN s, s[i][1] = s[j][1] PROVE i = j
    BY <1>5 DEF QueueOK
  <2>1. /\ old[i] \in DOMAIN q /\ old[j] \in DOMAIN q
        /\ q[old[i]][1] = q[old[j]][1]
    BY <1>1, <1>5, <1>7
  <2>2. old[i] = old[j]
    BY <2>1 DEF QueueOK
  <2> QED BY <1>5, <1>7a, <2>2
<1>10. ASSUME NEW u \in Task, NEW n \in Mode
       PROVE  <<u, n>> \in In(s) <=> <<u, n>> \in In(q) /\ u # t
  <2>1. ASSUME <<u, n>> \in In(s) PROVE <<u, n>> \in In(q) /\ u # t
    <3>1. PICK i \in 1..Len(s) : s[i] = <<u, n>>
      BY <1>5, <2>1 DEF In
    <3>2. old[i] \in 1..Len(q) /\ old[i] # k /\ q[old[i]] = <<u, n>>
      BY <1>7, <3>1
    <3> QED BY <1>1, <1>6, <3>2 DEF In
  <2>2. ASSUME <<u, n>> \in In(q), u # t PROVE <<u, n>> \in In(s)
    <3>1. PICK i \in 1..Len(q) : q[i] = <<u, n>>
      BY <1>1, <2>2 DEF In
    <3>2. i # k
      BY <1>3, <2>2, <3>1
    <3> QED BY <1>5, <1>8, <3>1, <3>2 DEF In
  <2> QED BY <2>1, <2>2
<1>11. ASSUME NEW u \in Task \ {t}, GrantedIn(q, u) PROVE GrantedIn(s, u)
  <2>1. PICK i \in 1..Len(q) : q[i][1] = u /\ (i = 1 \/ \A j \in 1..i : q[j][2] = "r")
    BY <1>1, <1>11 DEF GrantedIn
  <2>2. PICK j \in 1..Len(s) : old[j] = i /\ s[j] = q[i]
    BY <1>3, <1>8, <2>1
  <2>3. CASE j = 1
    BY <1>5, <2>1, <2>2, <2>3 DEF GrantedIn
  <2>4. CASE j # 1
    <3>1. i # 1 /\ \A x \in 1..j : x \in 1..Len(s) /\ old[x] \in 1..i
      <4>1. j <= i /\ j \in 1..Len(s) /\ Len(s) \in Nat
        BY <1>1, <1>5, <1>7b, <2>2
      <4>2. ASSUME NEW x \in 1..j PROVE x \in 1..Len(s) /\ old[x] \in 1..i
        <5>1. x \in 1..Len(s) /\ x <= j
          BY <4>1
        <5> QED BY <1>7, <1>7a, <2>2, <4>1, <5>1
      <4> QED BY <2>4, <4>1, <4>2
    <3>2. \A x \in 1..j : s[x][2] = "r"
      BY <1>7, <2>1, <3>1
    <3> QED BY <1>5, <2>1, <2>2, <3>2 DEF GrantedIn
  <2> QED BY <2>3, <2>4
<1> QED BY <1>9, <1>10, <1>11 DEF s

\* Who was granted a lock for writing has it alone.
LEMMA Exclusive ==
  ASSUME NEW q, QueueOK(q), NEW t \in Task, NEW u \in Task \ {t},
         <<t, "w">> \in In(q), GrantedIn(q, t)
  PROVE  ~ GrantedIn(q, u)
<1>1. q \in Seq(Request) /\ Len(q) \in Nat /\ DOMAIN q = 1..Len(q)
  BY DEF QueueOK
<1>2. PICK i \in 1..Len(q) : q[i] = <<t, "w">>
  BY <1>1 DEF In
<1>3. i = 1
  <2>1. PICK x \in 1..Len(q) : q[x][1] = t /\ (x = 1 \/ \A j \in 1..x : q[j][2] = "r")
    BY <1>1 DEF GrantedIn
  <2>2. x = i
    BY <1>1, <1>2, <2>1 DEF QueueOK
  <2>3. x \in 1..x
    BY <1>1, <2>1
  <2> QED BY <1>2, <2>1, <2>2, <2>3
<1> SUFFICES ASSUME GrantedIn(q, u) PROVE FALSE
  OBVIOUS
<1>4. PICK y \in 1..Len(q) : q[y][1] = u /\ (y = 1 \/ \A j \in 1..y : q[j][2] = "r")
  BY <1>1 DEF GrantedIn
<1>5. y # 1 /\ 1 \in 1..y
  BY <1>1, <1>2, <1>3, <1>4
<1> QED BY <1>2, <1>3, <1>4, <1>5

-----------------------------------------------------------------------------
(* CppPeers: who has which lock. *)

\* The locks a task has kept from before while it asks for the next.
Retains(at) ==
  CASE at = "join" -> {<<"peers", "r">>}
    [] at \in {"quit", "purge"} -> {<<"peers", "w">>}
    [] at = "everyone" -> {<<"router", "r">>}
    [] OTHER -> {}

Uses(at) == Retains(at) \cup (IF at \in DOMAIN Wants THEN {Wants[at]} ELSE {})

Queues == DOMAIN lock = Lock /\ \A l \in Lock : QueueOK(lock[l])

\* A task is in the queues of the locks it uses, and has been granted those it kept.
Waiting ==
  \A l \in Lock, t \in Task, m \in Mode : <<t, m>> \in In(lock[l]) <=> <<l, m>> \in Uses(pc[t])
Holding ==
  \A l \in Lock, t \in Task, m \in Mode : <<l, m>> \in Retains(pc[t]) => GrantedIn(lock[l], t)

LockInv == pc \in [Task -> Place] /\ Queues /\ Waiting /\ Holding

LEMMA WantsIs ==
  /\ DOMAIN Wants = {"dial", "hello", "check", "insert", "route", "join", "top", "got", "flock", "late",
                      "leave", "quit", "select", "everyone", "send", "stats", "sweep", "purge",
                      "update", "ping"}
  /\ \A at \in {"dial", "check", "route", "top", "everyone", "send"} : Wants[at] = <<"peers", "r">>
  /\ \A at \in {"insert", "got", "late", "leave", "stats", "sweep", "ping"} : Wants[at] = <<"peers", "w">>
  /\ \A at \in {"join", "flock", "quit", "purge"} : Wants[at] = <<"router", "w">>
  /\ Wants["select"] = <<"router", "r">>
  /\ Wants["hello"] = <<"chain", "r">>
  /\ Wants["update"] = <<"chain", "w">>
BY DEF Wants

\* Goto moves the task in the queues, and all others keep what they were granted.
LEMMA GotoLocks ==
  ASSUME LockInv, NEW t \in Task, NEW to \in Place, NEW done \in SUBSET Lock, Goto(t, to, done),
         \A l \in done : \E m \in Mode : <<l, m>> \in Uses(pc[t]),
         \A l \in Lock, m \in Mode :
           l \notin done /\ <<l, m>> \in Uses(pc[t]) =>
             /\ <<l, m>> \in Retains(to) /\ GrantedIn(lock[l], t)
             /\ to \in DOMAIN Wants => Wants[to][1] # l,
         \A l \in Lock, m \in Mode :
           <<l, m>> \in Retains(to) => l \notin done /\ <<l, m>> \in Uses(pc[t])
  PROVE  /\ LockInv' /\ pc' = [pc EXCEPT ![t] = to]
         /\ \A l \in Lock, u \in Task \ {t} : GrantedIn(lock[l], u) => GrantedIn(lock'[l], u)
<1> DEFINE Q(l) == IF l \in done THEN Released(lock[l], t) ELSE lock[l]
           Asks(l) == to \in DOMAIN Wants /\ Wants[to][1] = l
<1>1. /\ pc' = [pc EXCEPT ![t] = to] /\ pc' \in [Task -> Place] /\ DOMAIN lock' = Lock
      /\ \A l \in Lock : lock'[l] = IF Asks(l) THEN Append(Q(l), <<t, Wants[to][2]>>) ELSE Q(l)
  BY DEF Goto, LockInv
<1>2. ASSUME NEW l \in Lock
      PROVE  /\ QueueOK(Q(l))
             /\ \A u \in Task, n \in Mode :
                  <<u, n>> \in In(Q(l)) <=> <<u, n>> \in In(lock[l]) /\ (u = t => l \notin done)
             /\ \A u \in Task : (u = t => l \notin done) /\ GrantedIn(lock[l], u) => GrantedIn(Q(l), u)
  <2>1. CASE l \in done
    <3>1. QueueOK(lock[l]) /\ \E m \in Mode : <<t, m>> \in In(lock[l])
      BY <2>1 DEF LockInv, Queues, Waiting
    <3> QED BY <2>1, <3>1, Withdrawn
  <2>2. CASE l \notin done
    BY <2>2 DEF LockInv, Queues
  <2> QED BY <2>1, <2>2
<1>3. ASSUME NEW l \in Lock, Asks(l) PROVE Wants[to][2] \in Mode /\ \A n \in Mode : <<t, n>> \notin In(Q(l))
  <2>1. Wants[to][2] \in Mode
    BY <1>3, WantsIs DEF Mode
  <2>2. ASSUME NEW n \in Mode, <<t, n>> \in In(Q(l)) PROVE FALSE
    <3>1. l \notin done /\ <<l, n>> \in Uses(pc[t])
      BY <1>2, <2>2 DEF LockInv, Waiting
    <3> QED BY <1>3, <3>1
  <2> QED BY <2>1, <2>2
<1>4. ASSUME NEW l \in Lock
      PROVE  /\ QueueOK(lock'[l])
             /\ \A u \in Task, n \in Mode :
                  <<u, n>> \in In(lock'[l]) <=>
                    \/ <<u, n>> \in In(lock[l]) /\ (u = t => l \notin done)
                    \/ u = t /\ Asks(l) /\ n = Wants[to][2]
             /\ \A u \in Task : (u = t => l \notin done) /\ GrantedIn(lock[l], u) => GrantedIn(lock'[l], u)
  <2>1. CASE Asks(l)
    <3> DEFINE q == Q(l)
    <3>1. QueueOK(q) /\ Wants[to][2] \in Mode /\ \A n \in Mode : <<t, n>> \notin In(q)
      BY <1>2, <1>3, <2>1
    <3>2. lock'[l] = Append(q, <<t, Wants[to][2]>>)
      BY <1>1, <2>1
    <3>3. \A u \in Task, n \in Mode :
            <<u, n>> \in In(q) <=> <<u, n>> \in In(lock[l]) /\ (u = t => l \notin done)
      BY <1>2
    <3>4. \A u \in Task : (u = t => l \notin done) /\ GrantedIn(lock[l], u) => GrantedIn(q, u)
      BY <1>2
    <3> HIDE DEF q
    <3> DEFINE m == Wants[to][2]
               s == Append(q, <<t, m>>)
    <3>5. /\ QueueOK(s)
          /\ \A u \in Task, n \in Mode :
               <<u, n>> \in In(s) <=> <<u, n>> \in In(q) \/ (u = t /\ n = m)
          /\ \A u \in Task : GrantedIn(q, u) => GrantedIn(s, u)
      <4>1. m \in Mode
        BY <3>1
      <4> HIDE DEF m
      <4> QED BY <3>1, <4>1, Appended DEF m
    <3>6. lock'[l] = s
      BY <3>2
    <3> HIDE DEF s
    <3> QED BY <2>1, <3>3, <3>4, <3>5, <3>6
  <2>2. CASE ~ Asks(l)
    <3>1. lock'[l] = Q(l)
      BY <1>1, <2>2
    <3> QED BY <1>2, <2>2, <3>1
  <2> QED BY <2>1, <2>2
<1>5. Queues'
  BY <1>1, <1>4 DEF Queues
<1>6. Waiting'
  <2> SUFFICES ASSUME NEW l \in Lock, NEW u \in Task, NEW n \in Mode
               PROVE  <<u, n>> \in In(lock'[l]) <=> <<l, n>> \in Uses(pc'[u])
    BY DEF Waiting
  <2>1. <<u, n>> \in In(lock[l]) <=> <<l, n>> \in Uses(pc[u])
    BY DEF LockInv, Waiting
  <2>2. CASE u # t
    <3>1. pc'[u] = pc[u]
      BY <1>1, <2>2 DEF LockInv
    <3> QED BY <1>4, <2>1, <2>2, <3>1
  <2>3. CASE u = t
    <3>1. pc'[u] = to
      BY <1>1, <2>3 DEF LockInv
    <3>2. <<u, n>> \in In(lock'[l]) <=> \/ <<l, n>> \in Uses(pc[t]) /\ l \notin done
                                        \/ Asks(l) /\ n = Wants[to][2]
      BY <1>4, <2>1, <2>3
    <3>3. Asks(l) => Wants[to] = <<l, Wants[to][2]>>
      BY WantsIs
    <3>4. <<l, n>> \in Uses(to) <=> <<l, n>> \in Retains(to) \/ (Asks(l) /\ n = Wants[to][2])
      BY <3>3 DEF Uses
    <3> QED BY <3>1, <3>2, <3>4
  <2> QED BY <2>2, <2>3
<1>7. Holding'
  <2> SUFFICES ASSUME NEW l \in Lock, NEW u \in Task, NEW n \in Mode, <<l, n>> \in Retains(pc'[u])
               PROVE  GrantedIn(lock'[l], u)
    BY DEF Holding
  <2>1. CASE u # t
    <3>1. pc'[u] = pc[u]
      BY <1>1, <2>1 DEF LockInv
    <3> QED BY <1>4, <2>1, <3>1 DEF LockInv, Holding
  <2>2. CASE u = t
    <3>1. pc'[u] = to
      BY <1>1, <2>2 DEF LockInv
    <3> QED BY <1>4, <2>2, <3>1
  <2> QED BY <2>1, <2>2
<1> QED BY <1>1, <1>4, <1>5, <1>6, <1>7 DEF LockInv
-----------------------------------------------------------------------------
(* CppPeers: the way of a task through its places. *)

\* At a place it keeps or gives back what it uses, and asks for nothing it has.
Fits(at, to, done) ==
  /\ to \in Place /\ done \subseteq Lock
  /\ \A l \in done : \E m \in Mode : <<l, m>> \in Uses(at)
  /\ \A l \in Lock, m \in Mode :
       /\ l \notin done /\ <<l, m>> \in Uses(at) =>
            /\ <<l, m>> \in Retains(to)
            /\ to \in DOMAIN Wants => Wants[to][1] # l
       /\ <<l, m>> \in Retains(to) => l \notin done /\ <<l, m>> \in Uses(at)

LEMMA FitsFree ==
  /\ \A to \in {"closed", "hello", "dial"} : Fits("new", to, {})
  /\ Fits("announce", "top", {}) /\ Fits("free", "closed", {})
  /\ \A to \in {"got", "late", "leave"} : Fits("reading", to, {})
  /\ \A to \in {"select", "sweep", "update", "ping"} : Fits("idle", to, {})
BY WantsIs DEF Fits, Uses, Retains, Place, Lock, Mode

LEMMA FitsOne ==
  /\ \A to \in {"closed", "hello"} : Fits("dial", to, {"peers"})
  /\ \A to \in {"check", "closed"} : Fits("hello", to, {"chain"})
  /\ \A to \in {"insert", "closed"} : Fits("check", to, {"peers"})
  /\ \A to \in {"route", "closed"} : Fits("insert", to, {"peers"})
  /\ Fits("route", "announce", {"peers"})
  /\ \A to \in {"reading", "leave"} : Fits("top", to, {"peers"})
  /\ \A to \in {"top", "flock"} : Fits("got", to, {"peers"})
  /\ Fits("flock", "top", {"router"})
  /\ \A to \in {"top", "leave"} : Fits("late", to, {"peers"})
  /\ Fits("leave", "free", {"peers"})
BY WantsIs DEF Fits, Uses, Retains, Place, Lock, Mode

LEMMA FitsTwo ==
  /\ Fits("route", "join", {}) /\ Fits("join", "announce", {"peers", "router"})
  /\ Fits("leave", "quit", {}) /\ Fits("quit", "free", {"peers", "router"})
  /\ Fits("select", "everyone", {}) /\ Fits("everyone", "send", {"peers", "router"})
  /\ Fits("sweep", "purge", {}) /\ Fits("purge", "idle", {"peers", "router"})
BY WantsIs DEF Fits, Uses, Retains, Place, Lock, Mode

LEMMA FitsNet ==
  /\ Fits("select", "send", {"router"}) /\ Fits("update", "idle", {"chain"})
  /\ \A to \in {"idle", "stats"} : Fits("send", to, {"peers"})
  /\ \A at \in {"stats", "ping", "sweep"} : Fits(at, "idle", {"peers"})
BY WantsIs DEF Fits, Uses, Retains, Place, Lock, Mode

\* Who is ready has been granted all it uses.
LEMMA ReadyHolds ==
  ASSUME LockInv, NEW t \in Task, NEW at \in Place, Ready(t, at)
  PROVE  \A l \in Lock, m \in Mode : <<l, m>> \in Uses(at) => GrantedIn(lock[l], t) /\ <<t, m>> \in In(lock[l])
<1> SUFFICES ASSUME NEW l \in Lock, NEW m \in Mode, <<l, m>> \in Uses(at)
             PROVE  GrantedIn(lock[l], t) /\ <<t, m>> \in In(lock[l])
  OBVIOUS
<1>1. pc[t] = at /\ <<t, m>> \in In(lock[l])
  BY DEF Ready, LockInv, Waiting
<1>2. CASE <<l, m>> \in Retains(at)
  BY <1>1, <1>2 DEF LockInv, Holding
<1>3. CASE at \in DOMAIN Wants /\ Wants[at] = <<l, m>>
  BY <1>1, <1>3 DEF Ready, Granted, GrantedIn
<1> QED BY <1>1, <1>2, <1>3 DEF Uses

\* A step of task t: it is at another place, and the locks are in order.
Moved(t, to) ==
  /\ LockInv' /\ pc' = [pc EXCEPT ![t] = to]

LEMMA Move ==
  ASSUME LockInv, NEW t \in Task, NEW at \in Place, Ready(t, at), NEW to, NEW done,
         Fits(at, to, done), Goto(t, to, done)
  PROVE  Moved(t, to)
<1>1. pc[t] = at
  BY DEF Ready
<1> QED BY <1>1, ReadyHolds, GotoLocks DEF Fits, Moved

\* Nobody reads or writes a lock that a task has for writing.
LEMMA Alone ==
  ASSUME LockInv, NEW t \in Task, NEW at \in Place, Ready(t, at), <<"peers", "w">> \in Uses(at),
         NEW u \in Task \ {t}
  PROVE  <<"peers", "r">> \notin Retains(pc[u]) /\ <<"peers", "w">> \notin Retains(pc[u])
<1>1. "peers" \in Lock /\ "r" \in Mode /\ "w" \in Mode
  BY DEF Lock, Mode
<1>2. QueueOK(lock["peers"]) /\ GrantedIn(lock["peers"], t) /\ <<t, "w">> \in In(lock["peers"])
  BY <1>1, ReadyHolds DEF LockInv, Queues
<1>3. ~ GrantedIn(lock["peers"], u)
  BY <1>2, Exclusive
<1> QED BY <1>1, <1>3 DEF LockInv, Holding

-----------------------------------------------------------------------------
(* CppPeers: the tables and the slots. *)

PeerEntry == [conn : Conn, timeouts : Nat]

\* Connections that have left the message loop, and not yet the table.
Leaving(p) == {c \in Conn : pc[c] = "leave" /\ PeerOf[c] = p}

\* The timeout that is one too many is that of a connection about to remove the entry.
Entries ==
  \A p \in DOMAIN peers :
    /\ p \in Peer /\ peers[p] \in PeerEntry
    /\ peers[p].timeouts <= MaxTimeouts - 1 + Cardinality(Leaving(p))

\* Between the two tables: the lock of the first is kept until the second has been changed.
Routed ==
  /\ router \subseteq Peer /\ RouterFollowsTable
  /\ \A c \in Conn : /\ pc[c] = "join" => PeerOf[c] \in DOMAIN peers
                     /\ pc[c] = "quit" => PeerOf[c] \notin DOMAIN peers

\* The connections the subnet may count: inbound ones from the start, outbound ones
\* from the message loop on.
Slotted(c, at) ==
  IF c \in Outbound THEN at \in {"top", "reading", "got", "flock", "late", "leave", "quit", "free"}
                    ELSE at \notin {"new", "closed"}

Counted == {c \in Conn : Slotted(c, pc[c])}

Slots ==
  /\ perIp \in [Ip -> Nat] /\ total \in Nat /\ subnet \in Nat
  /\ total <= MaxTotal /\ subnet <= MaxSubnet /\ subnet <= Cardinality(Counted)
  /\ \A i \in Ip : perIp[i] <= MaxPerIp /\ perIp[i] <= Cardinality(Live(i))
  /\ \A c \in Conn : pc[c] = "dial" => c \in Outbound

PeersInv == LockInv /\ Entries /\ Routed /\ Slots /\ dead \subseteq Conn

LEMMA Counts ==
  /\ \A S \in SUBSET Conn : IsFiniteSet(S) /\ Cardinality(S) \in Nat
  /\ \A S, T \in SUBSET Conn : S \subseteq T => Cardinality(S) <= Cardinality(T)
  /\ \A S \in SUBSET Conn, c \in Conn :
       /\ c \notin S => Cardinality(S \cup {c}) = Cardinality(S) + 1
       /\ Cardinality(S) <= Cardinality(S \ {c}) + 1
<1>1. IsFiniteSet(Conn)
  BY CppPeersAssumption
<1>2. \A S \in SUBSET Conn : IsFiniteSet(S) /\ Cardinality(S) \in Nat
  BY <1>1, FS_Subset, FS_CardinalityType
<1>3. \A S, T \in SUBSET Conn : S \subseteq T => Cardinality(S) <= Cardinality(T)
  BY <1>2, FS_Subset
<1>4. ASSUME NEW S \in SUBSET Conn, NEW c \in Conn
      PROVE  /\ c \notin S => Cardinality(S \cup {c}) = Cardinality(S) + 1
             /\ Cardinality(S) <= Cardinality(S \ {c}) + 1
  <2>1. c \notin S => Cardinality(S \cup {c}) = Cardinality(S) + 1
    BY <1>2, FS_AddElement
  <2>2. c \in S => Cardinality(S \ {c}) = Cardinality(S) - 1
    BY <1>2, FS_RemoveElement
  <2>3. c \notin S => S \ {c} = S
    OBVIOUS
  <2> QED BY <1>2, <2>1, <2>2, <2>3
<1> QED BY <1>2, <1>3, <1>4

\* What a move of one task does to each part, when that part itself stays.
LEMMA EntriesKept ==
  ASSUME LockInv, Entries, NEW t \in Task, NEW to \in Place, pc' = [pc EXCEPT ![t] = to],
         peers' = peers, pc[t] # "leave"
  PROVE  Entries'
<1> SUFFICES ASSUME NEW p \in DOMAIN peers
             PROVE  peers[p].timeouts <= MaxTimeouts - 1 + Cardinality(Leaving(p)')
  BY DEF Entries
<1>1. Leaving(p) \subseteq Leaving(p)' /\ Leaving(p) \in SUBSET Conn /\ Leaving(p)' \in SUBSET Conn
  BY DEF Leaving, LockInv, Task
<1>2. /\ Cardinality(Leaving(p)) <= Cardinality(Leaving(p)')
      /\ Cardinality(Leaving(p)) \in Nat /\ Cardinality(Leaving(p)') \in Nat
  BY <1>1, Counts
<1>3. /\ peers[p].timeouts <= MaxTimeouts - 1 + Cardinality(Leaving(p))
      /\ peers[p].timeouts \in Nat /\ MaxTimeouts \in Nat
  BY CppPeersAssumption DEF Entries, PeerEntry
<1> QED BY <1>2, <1>3

LEMMA RoutedKept ==
  ASSUME LockInv, Routed, NEW t \in Task, NEW to \in Place, pc' = [pc EXCEPT ![t] = to],
         UNCHANGED tables, pc[t] \notin {"route", "join", "quit"}, to \notin {"join", "quit"}
  PROVE  Routed'
<1>1. \A c \in Conn : /\ pc[c] \in {"route", "join", "quit"} => pc'[c] = pc[c]
                      /\ pc'[c] \in {"join", "quit"} => pc'[c] = pc[c]
  BY DEF LockInv, Task
<1> QED BY <1>1 DEF Routed, RouterFollowsTable, tables

LEMMA SlotsKept ==
  ASSUME LockInv, Slots, NEW t \in Task, NEW to \in Place, pc' = [pc EXCEPT ![t] = to],
         UNCHANGED slots, t \in Conn /\ Slotted(t, pc[t]) => Slotted(t, to),
         to = "dial" => t \in Outbound
  PROVE  Slots'
<1>1. Counted \subseteq Counted' /\ Counted \in SUBSET Conn /\ Counted' \in SUBSET Conn
  BY DEF Counted, LockInv, Task
<1>2. ASSUME NEW i \in Ip
      PROVE  Live(i) \subseteq Live(i)' /\ Live(i) \in SUBSET Conn /\ Live(i)' \in SUBSET Conn
  BY DEF Live, LockInv, Task, Slotted
<1>3. /\ Cardinality(Counted) <= Cardinality(Counted')
      /\ Cardinality(Counted) \in Nat /\ Cardinality(Counted') \in Nat
      /\ subnet \in Nat /\ subnet <= Cardinality(Counted)
  BY <1>1, Counts DEF Slots
<1>4. ASSUME NEW i \in Ip
      PROVE  perIp[i] <= Cardinality(Live(i)')
  <2>1. /\ Cardinality(Live(i)) <= Cardinality(Live(i)')
        /\ Cardinality(Live(i)) \in Nat /\ Cardinality(Live(i)') \in Nat
        /\ perIp[i] \in Nat /\ perIp[i] <= Cardinality(Live(i))
    BY <1>2, Counts DEF Slots
  <2> QED BY <2>1
<1>5. subnet <= Cardinality(Counted')
  BY <1>3
<1>6. \A c \in Conn : pc'[c] = "dial" => c \in Outbound
  BY DEF LockInv, Task, Slots
<1> QED BY <1>4, <1>5, <1>6 DEF Slots, slots

\* A step that changes only where a task is.
LEMMA Quiet ==
  ASSUME PeersInv, NEW t \in Task, NEW at \in Place, Ready(t, at), NEW to, NEW done,
         Fits(at, to, done), Goto(t, to, done), UNCHANGED <<tables, slots, dead>>,
         at \notin {"leave", "route", "join", "quit"}, to \notin {"join", "quit"},
         t \in Conn /\ Slotted(t, at) => Slotted(t, to), to = "dial" => t \in Outbound
  PROVE  PeersInv'
<1>1. Moved(t, to) /\ pc[t] = at /\ to \in Place
  BY Move DEF PeersInv, Fits, Ready
<1>2. Entries'
  BY <1>1, EntriesKept DEF PeersInv, Moved, tables
<1>3. Routed'
  BY <1>1, RoutedKept DEF PeersInv, Moved
<1>4. Slots'
  BY <1>1, SlotsKept DEF PeersInv, Moved
<1> QED BY <1>1, <1>2, <1>3, <1>4 DEF PeersInv, Moved

LEMMA QuietConnStep ==
  ASSUME PeersInv, NEW c \in Conn,
         StartDial(c) \/ Dial(c) \/ Greet(c) \/ HelloAck(c) \/ DialFailed(c) \/ CheckDialled(c)
           \/ Announce(c) \/ Top(c) \/ Receive(c) \/ Flock(c) \/ ReadTimeout(c) \/ ReadFailed(c)
  PROVE  PeersInv'
<1>0. c \in Task /\ {"new", "reading", "announce"} \cap DOMAIN Wants = {}
  BY WantsIs DEF Task
<1>1. CASE StartDial(c)
  <2>1. Ready(c, "new") /\ Fits("new", "dial", {}) /\ ~ Slotted(c, "new")
    BY <1>0, <1>1, FitsFree DEF StartDial, Ready, Slotted
  <2> QED BY <1>0, <1>1, <2>1, Quiet DEF StartDial, Place
<1>2. CASE Dial(c)
  <2>1. PICK to \in {"closed", "hello"} : Goto(c, to, {"peers"})
    BY <1>2 DEF Dial
  <2>2. Fits("dial", to, {"peers"}) /\ ~ Slotted(c, "dial")
    BY <1>2, FitsOne DEF Dial, Ready, PeersInv, Slots, Slotted
  <2> QED BY <1>0, <1>2, <2>1, <2>2, WantsIs, Quiet DEF Dial, Place
<1>3. CASE Greet(c) \/ HelloAck(c)
  <2>1. Fits("hello", "check", {"chain"}) /\ (Slotted(c, "hello") => Slotted(c, "check"))
    BY FitsOne DEF Slotted
  <2> QED BY <1>0, <1>3, <2>1, WantsIs, Quiet DEF Greet, HelloAck, Place
<1>4. CASE DialFailed(c)
  <2>1. Fits("hello", "closed", {"chain"}) /\ ~ Slotted(c, "hello")
    BY <1>4, FitsOne DEF DialFailed, Slotted
  <2> QED BY <1>0, <1>4, <2>1, WantsIs, Quiet DEF DialFailed, Place
<1>5. CASE CheckDialled(c)
  <2>1. PICK to \in {"closed", "insert"} : Goto(c, to, {"peers"})
    BY <1>5 DEF CheckDialled
  <2>2. Fits("check", to, {"peers"}) /\ ~ Slotted(c, "check")
    BY <1>5, FitsOne DEF CheckDialled, Slotted
  <2> QED BY <1>0, <1>5, <2>1, <2>2, WantsIs, Quiet DEF CheckDialled, Place
<1>6. CASE Announce(c)
  <2>1. Ready(c, "announce") /\ Fits("announce", "top", {}) /\ Slotted(c, "top")
    BY <1>0, <1>6, FitsFree DEF Announce, Ready, Slotted
  <2> QED BY <1>0, <1>6, <2>1, Quiet DEF Announce, Place
<1>7. CASE Top(c)
  <2>1. PICK to \in {"reading", "leave"} : Goto(c, to, {"peers"})
    BY <1>7 DEF Top
  <2>2. Fits("top", to, {"peers"}) /\ Slotted(c, to)
    BY FitsOne DEF Slotted
  <2> QED BY <1>0, <1>7, <2>1, <2>2, WantsIs, Quiet DEF Top, Place
<1>8. CASE Receive(c) \/ ReadTimeout(c) \/ ReadFailed(c)
  <2>1. PICK to \in {"got", "late", "leave"} : Goto(c, to, {})
    BY <1>8 DEF Receive, ReadTimeout, ReadFailed
  <2>2. Ready(c, "reading") /\ Fits("reading", to, {}) /\ Slotted(c, to)
    BY <1>0, <1>8, FitsFree DEF Receive, ReadTimeout, ReadFailed, Ready, Slotted
  <2> QED BY <1>0, <1>8, <2>1, <2>2, Quiet DEF Receive, ReadTimeout, ReadFailed, Place
<1>9. CASE Flock(c)
  <2>1. Fits("flock", "top", {"router"}) /\ Slotted(c, "top")
    BY FitsOne DEF Slotted
  <2> QED BY <1>0, <1>9, <2>1, WantsIs, Quiet DEF Flock, Place
<1> QED BY <1>1, <1>2, <1>3, <1>4, <1>5, <1>6, <1>7, <1>8, <1>9

LEMMA QuietNetStep ==
  ASSUME PeersInv, Take \/ Select \/ Everyone \/ Send \/ Finish \/ Sweep PROVE PeersInv'
<1>0. Net \in Task /\ Net \notin Conn /\ "idle" \notin DOMAIN Wants
  BY CppPeersAssumption, WantsIs DEF Task
<1>1. CASE Take
  <2>1. PICK to \in {"select", "sweep", "update", "ping"} : Goto(Net, to, {})
    BY <1>1 DEF Take
  <2>2. Ready(Net, "idle") /\ Fits("idle", to, {})
    BY <1>0, <1>1, FitsFree DEF Take, Ready
  <2> QED BY <1>0, <1>1, <2>1, <2>2, Quiet DEF Take, Place
<1>2. CASE Select
  <2>1. \/ Goto(Net, "everyone", {}) /\ Fits("select", "everyone", {})
        \/ Goto(Net, "send", {"router"}) /\ Fits("select", "send", {"router"})
    BY <1>2, FitsTwo, FitsNet DEF Select
  <2> QED BY <1>0, <1>2, <2>1, WantsIs, Quiet DEF Select, Place
<1>3. CASE Everyone
  BY <1>0, <1>3, FitsTwo, WantsIs, Quiet DEF Everyone, Place
<1>4. CASE Send
  <2>1. PICK to \in {"idle", "stats"} : Goto(Net, to, {"peers"})
    BY <1>4 DEF Send
  <2>2. Fits("send", to, {"peers"})
    BY FitsNet
  <2> QED BY <1>0, <1>4, <2>1, <2>2, WantsIs, Quiet DEF Send, Place
<1>5. CASE Finish
  <2>1. PICK at \in {"stats", "ping", "update"} : Ready(Net, at) /\ Goto(Net, "idle", {Wants[at][1]})
    BY <1>5 DEF Finish
  <2>2. Wants[at][1] = IF at = "update" THEN "chain" ELSE "peers"
    BY WantsIs
  <2>3. Fits(at, "idle", {Wants[at][1]})
    BY <2>2, FitsNet
  <2> QED BY <1>0, <1>5, <2>1, <2>3, WantsIs, Quiet DEF Finish, Place
<1>6. CASE Sweep
  <2>1. \/ Goto(Net, "idle", {"peers"}) /\ Fits("sweep", "idle", {"peers"})
        \/ Goto(Net, "purge", {}) /\ Fits("sweep", "purge", {})
    BY <1>6, FitsTwo, FitsNet DEF Sweep
  <2> QED BY <1>0, <1>6, <2>1, WantsIs, Quiet DEF Sweep, Place
<1> QED BY <1>1, <1>2, <1>3, <1>4, <1>5, <1>6

\* What a connection gives back, and the sweep for many: counts go down, and for one
\* connection by one at most.
LEMMA Returned ==
  ASSUME Slots, NEW cs \in SUBSET Conn, ReleaseAll(cs)
  PROVE  /\ perIp' \in [Ip -> Nat] /\ total' \in Nat /\ subnet' \in Nat
         /\ total' <= total /\ subnet' <= subnet /\ \A i \in Ip : perIp'[i] <= perIp[i]
         /\ \A c \in Conn : cs = {c} =>
              /\ perIp[IpOf[c]] = 0 \/ perIp'[IpOf[c]] = perIp[IpOf[c]] - 1
              /\ subnet' = 0 \/ subnet' = subnet - 1
<1> DEFINE at(i) == {c \in cs : IpOf[c] = i}
           taken(i) == LET n == Cardinality(at(i)) IN IF n < perIp[i] THEN n ELSE perIp[i]
           released == {r \in Ip \X (1..Cardinality(cs)) : r[2] <= taken(r[1])}
<1>1. /\ perIp' = [i \in Ip |-> perIp[i] - taken(i)]
      /\ total' = Monus(total, Cardinality(released))
      /\ subnet' = SubnetLeft(Cardinality(cs))
  BY DEF ReleaseAll
<1>2. Cardinality(cs) \in Nat /\ \A i : Cardinality(at(i)) \in Nat
  BY Counts
<1>3. Cardinality(released) \in Nat
  <2>1. IsFiniteSet(1..Cardinality(cs))
    BY <1>2, FS_Interval
  <2>2. IsFiniteSet(Ip \X (1..Cardinality(cs)))
    BY <2>1, CppPeersAssumption, FS_Product
  <2> HIDE DEF taken
  <2>3. IsFiniteSet(released)
    BY <2>2, FS_Subset
  <2> QED BY <2>3, FS_CardinalityType
<1> HIDE DEF released, at
<1>4. \A i \in Ip : taken(i) \in Nat /\ taken(i) <= perIp[i] /\ perIp[i] \in Nat
  BY <1>2 DEF Slots
<1>5. total' \in Nat /\ total' <= total
  BY <1>1, <1>3 DEF Slots, Monus
<1>6. subnet' \in Nat /\ subnet' <= subnet
  BY <1>1, <1>2 DEF Slots, SubnetLeft
<1>7. perIp' \in [Ip -> Nat] /\ \A i \in Ip : perIp'[i] <= perIp[i]
  BY <1>1, <1>4
<1>8. ASSUME NEW c \in Conn, cs = {c}
      PROVE  /\ perIp[IpOf[c]] = 0 \/ perIp'[IpOf[c]] = perIp[IpOf[c]] - 1
             /\ subnet' = 0 \/ subnet' = subnet - 1
  <2>1. Cardinality(cs) = 1 /\ at(IpOf[c]) = cs /\ IpOf[c] \in Ip
    BY <1>8, FS_Singleton, CppPeersAssumption DEF at
  <2>2. subnet' = 0 \/ subnet' = subnet - 1
    BY <1>1, <2>1 DEF Slots, SubnetLeft
  <2>3. taken(IpOf[c]) = IF 1 < perIp[IpOf[c]] THEN 1 ELSE perIp[IpOf[c]]
    BY <2>1
  <2>4. perIp'[IpOf[c]] = perIp[IpOf[c]] - taken(IpOf[c]) /\ perIp[IpOf[c]] \in Nat
    BY <1>1, <1>4, <2>1
  <2> HIDE DEF taken
  <2>5. perIp[IpOf[c]] = 0 \/ taken(IpOf[c]) = 1
    BY <2>3, <2>4
  <2> QED BY <2>2, <2>4, <2>5
<1> QED BY <1>5, <1>6, <1>7, <1>8

\* A connection that is closed takes one slot with it, and gives one back.
LEMMA GivenBack ==
  ASSUME LockInv, Slots, NEW c \in Conn, pc' = [pc EXCEPT ![c] = "closed"], GiveBack(c)
  PROVE  Slots'
<1>1. /\ pc'[c] = "closed" /\ \A d \in Conn \ {c} : pc'[d] = pc[d]
      /\ \A d \in Conn : pc'[d] = "dial" => pc[d] = "dial"
  BY DEF LockInv, Task
<1>2. /\ perIp' \in [Ip -> Nat] /\ total' \in Nat /\ subnet' \in Nat
      /\ total' <= total /\ subnet' <= subnet /\ \A i \in Ip : perIp'[i] <= perIp[i]
      /\ subnet' = 0 \/ subnet' = subnet - 1
      /\ c \notin Outbound => perIp[IpOf[c]] = 0 \/ perIp'[IpOf[c]] = perIp[IpOf[c]] - 1
  <2>1. CASE c \in Outbound
    BY <2>1 DEF GiveBack, Slots, SubnetLeft
  <2>2. CASE c \notin Outbound
    <3>1. {c} \in SUBSET Conn /\ ReleaseAll({c})
      BY <2>2 DEF GiveBack
    <3> QED BY <2>2, <3>1, Returned
  <2> QED BY <2>1, <2>2
<1>3. subnet' <= Cardinality(Counted')
  <2>1. Counted \in SUBSET Conn /\ Counted' \in SUBSET Conn /\ Counted \ {c} \subseteq Counted'
    BY <1>1 DEF Counted
  <2>2. Counted \ {c} \in SUBSET Conn
    BY <2>1
  <2>3. /\ Cardinality(Counted) <= Cardinality(Counted \ {c}) + 1
        /\ Cardinality(Counted \ {c}) <= Cardinality(Counted')
        /\ Cardinality(Counted) \in Nat /\ Cardinality(Counted') \in Nat
        /\ Cardinality(Counted \ {c}) \in Nat
    BY <2>1, <2>2, Counts
  <2>4. subnet \in Nat /\ subnet <= Cardinality(Counted)
    BY DEF Slots
  <2> QED BY <1>2, <2>3, <2>4
<1>4. ASSUME NEW i \in Ip PROVE perIp'[i] <= Cardinality(Live(i)')
  <2>1. Live(i) \in SUBSET Conn /\ Live(i)' \in SUBSET Conn /\ Live(i) \ {c} \subseteq Live(i)'
    BY <1>1 DEF Live
  <2>2. Live(i) \ {c} \in SUBSET Conn
    BY <2>1
  <2>3. /\ Cardinality(Live(i)) <= Cardinality(Live(i) \ {c}) + 1
        /\ Cardinality(Live(i) \ {c}) <= Cardinality(Live(i)')
        /\ Cardinality(Live(i)) \in Nat /\ Cardinality(Live(i)') \in Nat
        /\ Cardinality(Live(i) \ {c}) \in Nat
    BY <2>1, <2>2, Counts
  <2>4. perIp[i] \in Nat /\ perIp'[i] \in Nat /\ perIp'[i] <= perIp[i] /\ perIp[i] <= Cardinality(Live(i))
    BY <1>2 DEF Slots
  <2>5. CASE c \notin Outbound /\ IpOf[c] = i
    BY <1>2, <2>3, <2>4, <2>5
  <2>6. CASE ~ (c \notin Outbound /\ IpOf[c] = i)
    <3>1. Live(i) \ {c} = Live(i)
      BY <2>6 DEF Live
    <3> QED BY <2>3, <2>4, <3>1
  <2> QED BY <2>5, <2>6
<1>5. /\ total' <= MaxTotal /\ subnet' <= MaxSubnet
      /\ \A i \in Ip : perIp'[i] <= MaxPerIp
  <2>1. /\ total \in Nat /\ subnet \in Nat /\ total <= MaxTotal /\ subnet <= MaxSubnet
        /\ MaxTotal \in Nat /\ MaxSubnet \in Nat /\ MaxPerIp \in Nat
    BY CppPeersAssumption DEF Slots
  <2>2. \A i \in Ip : perIp[i] \in Nat /\ perIp'[i] \in Nat /\ perIp[i] <= MaxPerIp
    BY <1>2 DEF Slots
  <2> QED BY <1>2, <2>1, <2>2
<1> QED BY <1>1, <1>2, <1>3, <1>4, <1>5 DEF Slots

\* A connection that has failed, or ended, and its slots.
LEMMA ClosingStep ==
  ASSUME PeersInv, NEW c \in Conn, NEW at \in {"hello", "check", "free"}, Ready(c, at),
         NEW done, Fits(at, "closed", done), Goto(c, "closed", done), GiveBack(c),
         UNCHANGED <<tables, dead>>
  PROVE  PeersInv'
<1>0. c \in Task /\ at \in Place /\ "closed" \in Place
  BY WantsIs DEF Task, Place
<1>1. Moved(c, "closed") /\ pc[c] = at
  BY <1>0, Move DEF PeersInv, Ready
<1>2. Entries'
  BY <1>0, <1>1, EntriesKept DEF PeersInv, Moved, tables
<1>3. Routed'
  BY <1>0, <1>1, RoutedKept DEF PeersInv, Moved
<1>4. Slots'
  BY <1>1, GivenBack DEF PeersInv, Moved
<1> QED BY <1>1, <1>2, <1>3, <1>4 DEF PeersInv, Moved

LEMMA GiveBackStep ==
  ASSUME PeersInv, NEW c \in Conn, GreetFailed(c) \/ Check(c) \/ Free(c) PROVE PeersInv'
<1>0. c \in Task /\ "free" \notin DOMAIN Wants
  BY WantsIs DEF Task
<1>1. CASE GreetFailed(c)
  BY <1>1, FitsOne, ClosingStep DEF GreetFailed
<1>2. CASE Check(c) /\ PeerOf[c] \in DOMAIN peers
  BY <1>2, FitsOne, ClosingStep DEF Check
<1>3. CASE Check(c) /\ PeerOf[c] \notin DOMAIN peers
  <2>1. Fits("check", "insert", {"peers"}) /\ (Slotted(c, "check") => Slotted(c, "insert"))
    BY FitsOne DEF Slotted
  <2> QED BY <1>0, <1>3, <2>1, WantsIs, Quiet DEF Check, Place
<1>4. CASE Free(c)
  <2>1. Ready(c, "free")
    BY <1>0, <1>4 DEF Free, Ready
  <2> QED BY <1>4, <2>1, FitsFree, ClosingStep DEF Free
<1> QED BY <1>1, <1>2, <1>3, <1>4

LEMMA AcceptStep ==
  ASSUME PeersInv, NEW c \in Conn, Accept(c) PROVE PeersInv'
<1>0. c \in Task /\ Ready(c, "new") /\ {"new", "closed", "hello"} \subseteq Place /\ c \notin Outbound
  BY WantsIs DEF Task, Place, Accept, Ready
<1>1. CASE LimitReached(IpOf[c]) \/ SubnetFull
  <2>1. Fits("new", "closed", {}) /\ ~ Slotted(c, "new")
    BY <1>0, FitsFree DEF Slotted
  <2> QED BY <1>0, <1>1, <2>1, Quiet DEF Accept
<1>2. CASE ~ (LimitReached(IpOf[c]) \/ SubnetFull)
  <2>1. Goto(c, "hello", {}) /\ Acquire(IpOf[c]) /\ subnet' = subnet + 1 /\ UNCHANGED <<tables, dead>>
    BY <1>2 DEF Accept
  <2>2. Moved(c, "hello") /\ pc[c] = "new"
    BY <1>0, <2>1, FitsFree, Move DEF PeersInv, Ready
  <2>3. Entries'
    BY <1>0, <2>1, <2>2, EntriesKept DEF PeersInv, Moved, tables
  <2>4. Routed'
    BY <1>0, <2>1, <2>2, RoutedKept DEF PeersInv, Moved
  <2>5. Slots'
    <3>0. IpOf[c] \in Ip /\ MaxTotal \in Nat /\ MaxPerIp \in Nat /\ MaxSubnet \in Nat
      BY CppPeersAssumption
    <3>1. pc'[c] = "hello" /\ \A d \in Conn \ {c} : pc'[d] = pc[d]
      BY <2>2 DEF Moved, PeersInv, LockInv, Task
    <3>2. subnet' <= Cardinality(Counted')
      <4>1. Counted \in SUBSET Conn /\ c \notin Counted /\ Counted' = Counted \cup {c}
        BY <1>0, <2>2, <3>1 DEF Counted, Slotted
      <4>2. Cardinality(Counted') = Cardinality(Counted) + 1 /\ Cardinality(Counted) \in Nat
        BY <4>1, Counts
      <4> QED BY <2>1, <4>2 DEF PeersInv, Slots
    <3>3. /\ perIp' \in [Ip -> Nat] /\ perIp'[IpOf[c]] = perIp[IpOf[c]] + 1
          /\ \A i \in Ip \ {IpOf[c]} : perIp'[i] = perIp[i]
          /\ perIp[IpOf[c]] \in Nat
      BY <2>1, <3>0 DEF Acquire, PeersInv, Slots
    <3>4. ASSUME NEW i \in Ip PROVE perIp'[i] <= Cardinality(Live(i)')
      <4>1. CASE i = IpOf[c]
        <5>1. Live(i) \in SUBSET Conn /\ c \notin Live(i) /\ Live(i)' = Live(i) \cup {c}
          BY <1>0, <2>2, <3>1, <4>1 DEF Live
        <5>2. Cardinality(Live(i)') = Cardinality(Live(i)) + 1 /\ Cardinality(Live(i)) \in Nat
          BY <5>1, Counts
        <5> QED BY <3>3, <4>1, <5>2 DEF PeersInv, Slots
      <4>2. CASE i # IpOf[c]
        <5>1. Live(i)' = Live(i)
          BY <3>1, <4>2 DEF Live
        <5> QED BY <3>3, <4>2, <5>1 DEF PeersInv, Slots
      <4> QED BY <4>1, <4>2
    <3>5. ASSUME NEW i \in Ip PROVE perIp'[i] <= MaxPerIp
      <4>1. ~ (perIp[IpOf[c]] >= MaxPerIp)
        BY <1>2 DEF LimitReached
      <4> QED BY <3>0, <3>3, <4>1 DEF PeersInv, Slots
    <3>6. /\ total' \in Nat /\ total' <= MaxTotal
          /\ subnet' \in Nat /\ subnet' <= MaxSubnet
      BY <1>2, <2>1, <3>0 DEF LimitReached, SubnetFull, Acquire, PeersInv, Slots
    <3>7. \A d \in Conn : pc'[d] = "dial" => d \in Outbound
      BY <3>1 DEF PeersInv, Slots
    <3> QED BY <3>2, <3>3, <3>4, <3>5, <3>6, <3>7 DEF Slots
  <2> QED BY <2>1, <2>2, <2>3, <2>4, <2>5 DEF PeersInv, Moved
<1> QED BY <1>1, <1>2

LEMMA AnnounceDialledStep ==
  ASSUME PeersInv, NEW c \in Conn, AnnounceDialled(c) PROVE PeersInv'
<1>0. c \in Task /\ Ready(c, "announce") /\ {"announce", "top"} \subseteq Place /\ c \in Outbound
  BY WantsIs DEF Task, Place, AnnounceDialled, Ready
<1>1. Goto(c, "top", {}) /\ UNCHANGED <<tables, perIp, total, dead>>
  BY DEF AnnounceDialled
<1>2. Moved(c, "top") /\ pc[c] = "announce"
  BY <1>0, <1>1, FitsFree, Move DEF PeersInv, Ready
<1>3. Entries'
  BY <1>0, <1>1, <1>2, EntriesKept DEF PeersInv, Moved, tables
<1>4. Routed'
  BY <1>0, <1>1, <1>2, RoutedKept DEF PeersInv, Moved
<1>5. Slots'
  <2>1. pc'[c] = "top" /\ \A d \in Conn \ {c} : pc'[d] = pc[d]
    BY <1>2 DEF Moved, PeersInv, LockInv, Task
  <2>2. Counted \in SUBSET Conn /\ c \notin Counted /\ Counted' = Counted \cup {c}
    BY <1>0, <1>2, <2>1 DEF Counted, Slotted
  <2>3. Cardinality(Counted') = Cardinality(Counted) + 1 /\ Cardinality(Counted) \in Nat
    BY <2>2, Counts
  <2>4. subnet' \in Nat /\ subnet' <= MaxSubnet /\ subnet' <= subnet + 1
    BY CppPeersAssumption DEF AnnounceDialled, SubnetFull, PeersInv, Slots
  <2>5. \A i \in Ip : Live(i)' = Live(i)
    BY <1>0, <2>1 DEF Live
  <2>6. subnet' <= Cardinality(Counted')
    BY <2>3, <2>4 DEF PeersInv, Slots
  <2> QED BY <1>1, <2>1, <2>4, <2>5, <2>6 DEF PeersInv, Slots
<1> QED BY <1>1, <1>2, <1>3, <1>4, <1>5 DEF PeersInv, Moved

-----------------------------------------------------------------------------
(* CppPeers: the steps on the tables. *)

\* With the table locked for writing nobody is between its two lookups.
LEMMA NobodyElse ==
  ASSUME PeersInv, NEW t \in Task, NEW at \in {"insert", "got", "late", "leave", "quit", "purge"},
         Ready(t, at)
  PROVE  \A c \in Conn \ {t} : pc[c] \notin {"join", "quit"}
<1>1. at \in Place /\ <<"peers", "w">> \in Uses(at)
  BY WantsIs DEF Place, Uses, Retains
<1> SUFFICES ASSUME NEW c \in Conn \ {t} PROVE pc[c] \notin {"join", "quit"}
  OBVIOUS
<1>2. c \in Task \ {t}
  BY DEF Task
<1>3. <<"peers", "r">> \notin Retains(pc[c]) /\ <<"peers", "w">> \notin Retains(pc[c])
  BY <1>1, <1>2, Alone DEF PeersInv
<1> QED BY <1>3 DEF Retains

\* What the places of a step on the tables have in common.
LEMMA TableMove ==
  ASSUME PeersInv, NEW c \in Conn,
         NEW at \in {"route", "join", "insert", "got", "late", "leave", "quit"}, Ready(c, at),
         NEW to, to # "dial", Slotted(c, at) => Slotted(c, to), NEW done, Fits(at, to, done),
         Goto(c, to, done), UNCHANGED <<slots, dead>>
  PROVE  /\ pc[c] = at /\ pc'[c] = to /\ \A d \in Conn \ {c} : pc'[d] = pc[d]
         /\ pc' = [pc EXCEPT ![c] = to] /\ to \in Place /\ LockInv' /\ Slots' /\ dead' \subseteq Conn
<1>1. c \in Task /\ at \in Place /\ to \in Place
  BY WantsIs DEF Task, Place, Fits
<1>2. Moved(c, to) /\ pc[c] = at
  BY <1>1, Move DEF PeersInv, Ready
<1>3. Slots'
  BY <1>1, <1>2, SlotsKept DEF PeersInv, Moved
<1> QED BY <1>1, <1>2, <1>3 DEF Moved, PeersInv, LockInv, Task

LEMMA RouteStep ==
  ASSUME PeersInv, NEW c \in Conn, Route(c) PROVE PeersInv'
<1>1. PICK to \in {"join", "announce"}, done \in SUBSET Lock :
        /\ Goto(c, to, done) /\ Fits("route", to, done)
        /\ to = "join" <=> PeerOf[c] \in DOMAIN peers
  <2>1. CASE PeerOf[c] \in DOMAIN peers
    BY <2>1, FitsTwo DEF Route, Lock
  <2>2. CASE PeerOf[c] \notin DOMAIN peers
    BY <2>2, FitsOne DEF Route, Lock
  <2> QED BY <2>1, <2>2
<1>2. Ready(c, "route") /\ UNCHANGED <<tables, slots, dead>> /\ (Slotted(c, "route") => Slotted(c, to))
  BY DEF Route, Slotted
<1>3. /\ pc[c] = "route" /\ pc'[c] = to /\ \A d \in Conn \ {c} : pc'[d] = pc[d]
      /\ pc' = [pc EXCEPT ![c] = to] /\ to \in Place /\ LockInv' /\ Slots' /\ dead' \subseteq Conn
  BY <1>1, <1>2, TableMove
<1>4. Entries'
  BY <1>2, <1>3, EntriesKept DEF PeersInv, tables, Task
<1>5. Routed'
  BY <1>1, <1>2, <1>3 DEF PeersInv, Routed, RouterFollowsTable, tables
<1> QED BY <1>3, <1>4, <1>5 DEF PeersInv

LEMMA JoinStep ==
  ASSUME PeersInv, NEW c \in Conn, Join(c) PROVE PeersInv'
<1>1. /\ Ready(c, "join") /\ Goto(c, "announce", {"peers", "router"})
      /\ Fits("join", "announce", {"peers", "router"})
      /\ router' = router \cup {PeerOf[c]} /\ UNCHANGED <<peers, slots, dead>>
      /\ Slotted(c, "join") => Slotted(c, "announce")
  BY FitsTwo DEF Join, Slotted
<1>2. /\ pc[c] = "join" /\ pc'[c] = "announce" /\ \A d \in Conn \ {c} : pc'[d] = pc[d]
      /\ pc' = [pc EXCEPT ![c] = "announce"] /\ "announce" \in Place
      /\ LockInv' /\ Slots' /\ dead' \subseteq Conn
  BY <1>1, TableMove
<1>3. Entries'
  BY <1>1, <1>2, EntriesKept DEF PeersInv, Task
<1>4. PeerOf[c] \in DOMAIN peers /\ PeerOf[c] \in Peer
  BY <1>2, CppPeersAssumption DEF PeersInv, Routed
<1>5. Routed'
  BY <1>1, <1>2, <1>4 DEF PeersInv, Routed, RouterFollowsTable
<1> QED BY <1>2, <1>3, <1>5 DEF PeersInv

\* An entry more, or one that starts anew.
LEMMA InsertStep ==
  ASSUME PeersInv, NEW c \in Conn, Insert(c) \/ InsertDialled(c) PROVE PeersInv'
<1>1. CASE InsertDialled(c) /\ PeerOf[c] \in DOMAIN peers
  <2>1. Fits("insert", "closed", {"peers"}) /\ ~ Slotted(c, "insert") /\ c \in Task /\ "insert" \in Place
    BY <1>1, FitsOne, WantsIs DEF InsertDialled, Slotted, Task, Place
  <2> QED BY <1>1, <2>1, Quiet DEF InsertDialled, tables
<1>2. CASE Insert(c) \/ PeerOf[c] \notin DOMAIN peers
  <2>1. /\ Ready(c, "insert") /\ Goto(c, "route", {"peers"}) /\ Fits("insert", "route", {"peers"})
        /\ peers' = WithEntry(c) /\ UNCHANGED <<router, slots, dead>>
        /\ Slotted(c, "insert") => Slotted(c, "route")
    BY <1>2, FitsOne DEF Insert, InsertDialled, Slotted
  <2>2. /\ pc[c] = "insert" /\ pc'[c] = "route" /\ \A d \in Conn \ {c} : pc'[d] = pc[d]
        /\ LockInv' /\ Slots' /\ dead' \subseteq Conn
    BY <2>1, TableMove
  <2>3. \A d \in Conn \ {c} : pc[d] \notin {"join", "quit"}
    BY <2>1, NobodyElse DEF Task
  <2>4. /\ DOMAIN peers' = DOMAIN peers \cup {PeerOf[c]} /\ PeerOf[c] \in Peer
        /\ peers'[PeerOf[c]] = [conn |-> c, timeouts |-> 0]
        /\ \A p \in DOMAIN peers \ {PeerOf[c]} : peers'[p] = peers[p]
    BY <2>1, CppPeersAssumption DEF WithEntry
  <2>5. ASSUME NEW p PROVE Leaving(p)' = Leaving(p)
    BY <2>2 DEF Leaving
  <2>6. Entries'
    <3>1. \A p \in DOMAIN peers \ {PeerOf[c]} :
            /\ p \in Peer /\ peers'[p] \in PeerEntry
            /\ peers'[p].timeouts <= MaxTimeouts - 1 + Cardinality(Leaving(p)')
      BY <2>4, <2>5 DEF PeersInv, Entries
    <3>2. /\ peers'[PeerOf[c]] \in PeerEntry /\ peers'[PeerOf[c]].timeouts = 0
          /\ Cardinality(Leaving(PeerOf[c])') \in Nat
      BY <2>4, <2>5, Counts DEF PeerEntry, Leaving
    <3>3. 0 <= MaxTimeouts - 1 + Cardinality(Leaving(PeerOf[c])')
      BY <3>2, CppPeersAssumption
    <3> QED BY <2>4, <3>1, <3>2, <3>3 DEF Entries
  <2>7. Routed'
    BY <2>1, <2>2, <2>3, <2>4 DEF PeersInv, Routed, RouterFollowsTable
  <2> QED BY <2>2, <2>6, <2>7 DEF PeersInv
<1> QED BY <1>1, <1>2

\* The table without changes but those of timeouts.
LEMMA SameIds ==
  ASSUME PeersInv, NEW c \in Conn, NEW at \in {"got", "late"}, NEW to \in {"top", "flock", "leave"},
         pc[c] = at, pc'[c] = to, \A d \in Conn \ {c} : pc'[d] = pc[d],
         DOMAIN peers' = DOMAIN peers, router' = router
  PROVE  Routed'
BY DEF PeersInv, Routed, RouterFollowsTable

LEMMA GotStep ==
  ASSUME PeersInv, NEW c \in Conn, Got(c) PROVE PeersInv'
<1>1. PICK to \in {"top", "flock"} : Goto(c, to, {"peers"})
  BY DEF Got
<1>2. Ready(c, "got") /\ Fits("got", to, {"peers"}) /\ Slotted(c, to) /\ UNCHANGED <<router, slots, dead>>
  BY FitsOne DEF Got, Slotted
<1>3. /\ pc[c] = "got" /\ pc'[c] = to /\ \A d \in Conn \ {c} : pc'[d] = pc[d]
      /\ LockInv' /\ Slots' /\ dead' \subseteq Conn
  BY <1>1, <1>2, TableMove
<1>4. /\ DOMAIN peers' = DOMAIN peers
      /\ \A p \in DOMAIN peers : peers'[p] = peers[p] \/ peers'[p] = [peers[p] EXCEPT !.timeouts = 0]
  BY DEF Got
<1>5. Routed'
  BY <1>2, <1>3, <1>4, SameIds
<1>6. Entries'
  <2> SUFFICES ASSUME NEW p \in DOMAIN peers
               PROVE  /\ p \in Peer /\ peers'[p] \in PeerEntry
                      /\ peers'[p].timeouts <= MaxTimeouts - 1 + Cardinality(Leaving(p)')
    BY <1>4 DEF Entries
  <2>1. Leaving(p)' = Leaving(p) /\ Cardinality(Leaving(p)) \in Nat
    BY <1>3, Counts DEF Leaving
  <2>2. /\ p \in Peer /\ peers[p] \in PeerEntry
        /\ peers[p].timeouts <= MaxTimeouts - 1 + Cardinality(Leaving(p))
    BY DEF PeersInv, Entries
  <2>3. peers'[p] \in PeerEntry /\ (peers'[p].timeouts = peers[p].timeouts \/ peers'[p].timeouts = 0)
    BY <1>4, <2>2 DEF PeerEntry
  <2>4. 0 <= MaxTimeouts - 1 + Cardinality(Leaving(p))
    BY <2>1, CppPeersAssumption
  <2> QED BY <2>1, <2>2, <2>3, <2>4
<1> QED BY <1>3, <1>5, <1>6 DEF PeersInv

\* A timeout over the limit is that of a connection that leaves.
LEMMA LateStep ==
  ASSUME PeersInv, NEW c \in Conn, Late(c) PROVE PeersInv'
<1> DEFINE q == PeerOf[c]
           to == IF q \in DOMAIN peers /\ peers[q].timeouts + 1 < MaxTimeouts THEN "top" ELSE "leave"
<1>1. /\ Goto(c, to, {"peers"}) /\ to \in {"top", "leave"}
      /\ Ready(c, "late") /\ UNCHANGED <<router, slots, dead>>
  BY DEF Late
<1>2. Fits("late", to, {"peers"}) /\ Slotted(c, to)
  BY FitsOne DEF Slotted
<1>3. /\ pc[c] = "late" /\ pc'[c] = to /\ \A d \in Conn \ {c} : pc'[d] = pc[d]
      /\ LockInv' /\ Slots' /\ dead' \subseteq Conn
  BY <1>1, <1>2, TableMove
<1>4. /\ DOMAIN peers' = DOMAIN peers
      /\ \A p \in DOMAIN peers \ {q} : peers'[p] = peers[p]
      /\ q \in DOMAIN peers => peers'[q] = [peers[q] EXCEPT !.timeouts = @ + 1]
  BY DEF Late
<1>5. Routed'
  BY <1>1, <1>3, <1>4, SameIds
<1>6. Entries'
  <2> SUFFICES ASSUME NEW p \in DOMAIN peers
               PROVE  /\ p \in Peer /\ peers'[p] \in PeerEntry
                      /\ peers'[p].timeouts <= MaxTimeouts - 1 + Cardinality(Leaving(p)')
    BY <1>4 DEF Entries
  <2>1. /\ p \in Peer /\ peers[p] \in PeerEntry
        /\ peers[p].timeouts <= MaxTimeouts - 1 + Cardinality(Leaving(p))
    BY DEF PeersInv, Entries
  <2>2. Leaving(p) \in SUBSET Conn /\ Cardinality(Leaving(p)) \in Nat /\ c \notin Leaving(p)
    BY <1>3, Counts DEF Leaving
  <2>3. CASE p # q
    <3>1. Leaving(p)' = Leaving(p) /\ peers'[p] = peers[p]
      BY <1>3, <1>4, <2>3 DEF Leaving
    <3> QED BY <2>1, <3>1
  <2>4. CASE p = q
    <3>1. peers'[p] \in PeerEntry /\ peers'[p].timeouts = peers[p].timeouts + 1
      BY <1>4, <2>1, <2>4 DEF PeerEntry
    <3>2. CASE to = "top"
      <4>1. Leaving(p)' = Leaving(p) /\ peers[p].timeouts + 1 < MaxTimeouts
        BY <1>3, <2>4, <3>2 DEF Leaving
      <4>2. peers[p].timeouts \in Nat /\ MaxTimeouts \in Nat
        BY <2>1, CppPeersAssumption DEF PeerEntry
      <4> HIDE DEF to, q
      <4> QED BY <2>1, <2>2, <3>1, <4>1, <4>2
    <3>3. CASE to = "leave"
      <4>1. Leaving(p)' = Leaving(p) \cup {c}
        BY <1>3, <2>4, <3>3 DEF Leaving
      <4>2. Cardinality(Leaving(p)') = Cardinality(Leaving(p)) + 1
        BY <2>2, <4>1, Counts
      <4>3. peers[p].timeouts \in Nat /\ MaxTimeouts \in Nat
        BY <2>1, CppPeersAssumption DEF PeerEntry
      <4> HIDE DEF to, q
      <4> QED BY <2>1, <2>2, <3>1, <4>2, <4>3
    <3> QED BY <1>1, <3>2, <3>3
  <2> QED BY <2>3, <2>4
<1> QED BY <1>3, <1>5, <1>6 DEF PeersInv

LEMMA LeaveStep ==
  ASSUME PeersInv, NEW c \in Conn, Leave(c) PROVE PeersInv'
<1> DEFINE q == PeerOf[c]
<1>1. PICK to \in {"quit", "free"}, done \in SUBSET Lock :
        /\ Goto(c, to, done) /\ Fits("leave", to, done)
        /\ to = "quit" <=> q \in DOMAIN peers
  <2>1. CASE q \in DOMAIN peers
    BY <2>1, FitsTwo DEF Leave, Lock
  <2>2. CASE q \notin DOMAIN peers
    BY <2>2, FitsOne DEF Leave, Lock
  <2> QED BY <2>1, <2>2
<1>2. Ready(c, "leave") /\ UNCHANGED <<router, slots, dead>> /\ Slotted(c, to)
  BY DEF Leave, Slotted
<1>3. /\ pc[c] = "leave" /\ pc'[c] = to /\ \A d \in Conn \ {c} : pc'[d] = pc[d]
      /\ LockInv' /\ Slots' /\ dead' \subseteq Conn
  BY <1>1, <1>2, TableMove
<1>4. \A d \in Conn \ {c} : pc[d] \notin {"join", "quit"}
  BY <1>2, NobodyElse DEF Task
<1>5. /\ DOMAIN peers' = DOMAIN peers \ {q}
      /\ \A p \in DOMAIN peers' : peers'[p] = peers[p]
  BY DEF Leave
<1>6. Entries'
  <2> SUFFICES ASSUME NEW p \in DOMAIN peers' PROVE Leaving(p)' = Leaving(p)
    BY <1>5 DEF PeersInv, Entries
  <2> QED BY <1>3, <1>5 DEF Leaving
<1>7. Routed'
  BY <1>1, <1>2, <1>3, <1>4, <1>5 DEF PeersInv, Routed, RouterFollowsTable
<1> QED BY <1>3, <1>6, <1>7 DEF PeersInv

LEMMA QuitStep ==
  ASSUME PeersInv, NEW c \in Conn, Quit(c) PROVE PeersInv'
<1>1. /\ Ready(c, "quit") /\ Goto(c, "free", {"peers", "router"})
      /\ Fits("quit", "free", {"peers", "router"}) /\ Slotted(c, "free")
      /\ router' = router \ {PeerOf[c]} /\ UNCHANGED <<peers, slots, dead>>
  BY FitsTwo DEF Quit, Slotted
<1>2. /\ pc[c] = "quit" /\ pc'[c] = "free" /\ \A d \in Conn \ {c} : pc'[d] = pc[d]
      /\ pc' = [pc EXCEPT ![c] = "free"] /\ "free" \in Place
      /\ LockInv' /\ Slots' /\ dead' \subseteq Conn
  BY <1>1, TableMove
<1>3. Entries'
  BY <1>1, <1>2, EntriesKept DEF PeersInv, Task
<1>4. PeerOf[c] \notin DOMAIN peers
  BY <1>2 DEF PeersInv, Routed
<1>5. Routed'
  BY <1>1, <1>2, <1>4 DEF PeersInv, Routed, RouterFollowsTable
<1> QED BY <1>2, <1>3, <1>5 DEF PeersInv

\* The sweep takes the same peers from both tables.
LEMMA PurgeStep ==
  ASSUME PeersInv, Purge PROVE PeersInv'
<1>0. Net \in Task /\ Net \notin Conn /\ "purge" \in Place
  BY CppPeersAssumption, WantsIs DEF Task, Place
<1>1. /\ Ready(Net, "purge") /\ Goto(Net, "idle", {"peers", "router"})
      /\ Fits("purge", "idle", {"peers", "router"})
      /\ peers' = [p \in DOMAIN peers \ Stale |-> peers[p]] /\ router' = router \ Stale
      /\ ReleaseAll({peers[p].conn : p \in Stale}) /\ dead' = dead
  BY FitsTwo DEF Purge
<1>2. Moved(Net, "idle")
  BY <1>0, <1>1, Move DEF PeersInv
<1>3. \A d \in Conn : pc'[d] = pc[d] /\ pc[d] \notin {"join", "quit"}
  <2>1. \A d \in Conn : pc'[d] = pc[d]
    BY <1>0, <1>2 DEF Moved, PeersInv, LockInv, Task
  <2>2. \A d \in Conn \ {Net} : pc[d] \notin {"join", "quit"}
    BY <1>0, <1>1, NobodyElse
  <2> QED BY <1>0, <2>1, <2>2
<1>4. Entries'
  <2> SUFFICES ASSUME NEW p \in DOMAIN peers' PROVE Leaving(p)' = Leaving(p)
    BY <1>1 DEF PeersInv, Entries
  <2> QED BY <1>3 DEF Leaving
<1>5. Routed'
  BY <1>1, <1>3 DEF PeersInv, Routed, RouterFollowsTable
<1>6. Slots'
  <2>1. {peers[p].conn : p \in Stale} \in SUBSET Conn
    BY DEF PeersInv, Entries, PeerEntry, Stale
  <2>2. /\ perIp' \in [Ip -> Nat] /\ total' \in Nat /\ subnet' \in Nat
        /\ total' <= total /\ subnet' <= subnet /\ \A i \in Ip : perIp'[i] <= perIp[i]
    BY <1>1, <2>1, Returned DEF PeersInv
  <2>3. Counted' = Counted /\ \A i \in Ip : Live(i)' = Live(i)
    BY <1>3 DEF Counted, Live
  <2>4. /\ MaxTotal \in Nat /\ MaxSubnet \in Nat /\ MaxPerIp \in Nat
        /\ Cardinality(Counted) \in Nat /\ \A i \in Ip : Cardinality(Live(i)) \in Nat
    BY CppPeersAssumption, Counts DEF Counted, Live
  <2>5. total' <= MaxTotal /\ subnet' <= MaxSubnet /\ subnet' <= Cardinality(Counted)
    BY <2>2, <2>4 DEF PeersInv, Slots
  <2>6. ASSUME NEW i \in Ip PROVE perIp'[i] <= MaxPerIp /\ perIp'[i] <= Cardinality(Live(i))
    BY <2>2, <2>4 DEF PeersInv, Slots
  <2>7. \A d \in Conn : pc'[d] = "dial" => d \in Outbound
    BY <1>3 DEF PeersInv, Slots
  <2> QED BY <2>2, <2>3, <2>5, <2>6, <2>7 DEF Slots
<1> QED BY <1>1, <1>2, <1>4, <1>5, <1>6 DEF PeersInv, Moved

-----------------------------------------------------------------------------

\* What does not touch places, tables and slots.
LEMMA PeersStutter ==
  ASSUME PeersInv, UNCHANGED <<pc, lock, tables, slots>>, dead' \subseteq Conn PROVE PeersInv'
<1>1. LockInv'
  BY DEF PeersInv, LockInv, Queues, Waiting, Holding
<1>2. Entries'
  BY DEF PeersInv, Entries, Leaving, tables
<1>3. Routed'
  BY DEF PeersInv, Routed, RouterFollowsTable, tables
<1>4. Slots'
  BY DEF PeersInv, Slots, Counted, Live, slots
<1> QED BY <1>1, <1>2, <1>3, <1>4 DEF PeersInv

LEMMA PeersInit == CppInit => PeersInv
<1> SUFFICES ASSUME CppInit PROVE PeersInv
  OBVIOUS
<1>1. pc \in [Task -> Place] /\ \A c \in Conn : pc[c] = "new"
  BY CppPeersAssumption DEF CppInit, Task, Place
<1>2. LockInv
  <2>1. Queues
    BY DEF CppInit, Queues, QueueOK
  <2>2. \A t \in Task : Uses(pc[t]) = {} /\ Retains(pc[t]) = {}
    BY WantsIs DEF CppInit, Uses, Retains
  <2>3. \A l \in Lock : In(lock[l]) = {}
    BY DEF CppInit, In
  <2> QED BY <1>1, <2>1, <2>2, <2>3 DEF LockInv, Waiting, Holding
<1>3. DOMAIN peers = {} /\ router = {} /\ dead = {}
  BY DEF CppInit
<1>4. Entries /\ Routed
  BY <1>1, <1>3 DEF Entries, Routed, RouterFollowsTable
<1>5. Slots
  <2>1. /\ Cardinality(Counted) \in Nat /\ \A i \in Ip : Cardinality(Live(i)) \in Nat
    BY Counts DEF Counted, Live
  <2>2. MaxTotal \in Nat /\ MaxSubnet \in Nat /\ MaxPerIp \in Nat
    BY CppPeersAssumption
  <2>3. perIp \in [Ip -> Nat] /\ total = 0 /\ subnet = 0 /\ \A i \in Ip : perIp[i] = 0
    BY DEF CppInit
  <2> QED BY <1>1, <2>1, <2>2, <2>3 DEF Slots
<1> QED BY <1>2, <1>3, <1>4, <1>5 DEF PeersInv

LEMMA PeersNext == PeersInv /\ [CppNext]_cppVars => PeersInv'
<1> SUFFICES ASSUME PeersInv, [CppNext]_cppVars PROVE PeersInv'
  OBVIOUS
<1>1. ASSUME NEW c \in Conn, Open(c) PROVE PeersInv'
  BY <1>1, QuietConnStep, GiveBackStep, InsertStep, AnnounceDialledStep, RouteStep, JoinStep DEF Open
<1>2. ASSUME NEW c \in Conn, ConnStep(c) PROVE PeersInv'
  BY <1>1, <1>2, QuietConnStep, GotStep, LateStep, LeaveStep, QuitStep, GiveBackStep DEF ConnStep
<1>3. ASSUME NEW c \in Conn, Accept(c) \/ StartDial(c) \/ Receive(c) \/ ReadFailed(c) PROVE PeersInv'
  BY <1>3, AcceptStep, QuietConnStep
<1>4. ASSUME NEW c \in Conn, Die(c) PROVE PeersInv'
  BY <1>4, PeersStutter DEF Die, PeersInv
<1>5. ASSUME Take \/ NetStep PROVE PeersInv'
  BY <1>5, QuietNetStep, PurgeStep DEF NetStep
<1>6. ASSUME UNCHANGED cppVars PROVE PeersInv'
  BY <1>6, PeersStutter DEF cppVars, tables, slots, PeersInv
<1> QED BY <1>2, <1>3, <1>4, <1>5, <1>6 DEF CppNext

LEMMA PeersSound == PeersInv => TablesSound
<1> SUFFICES ASSUME PeersInv PROVE TablesSound
  OBVIOUS
<1>1. \A l \in Lock : /\ lock[l] \in Seq(Task \X {"r", "w"})
                      /\ \A i, j \in DOMAIN lock[l] : lock[l][i][1] = lock[l][j][1] => i = j
  BY DEF PeersInv, LockInv, Queues, QueueOK, Request, Mode
<1>2. ASSUME NEW p \in DOMAIN peers
      PROVE  p \in Peer /\ peers[p].conn \in Conn /\ peers[p].timeouts \in 0..MaxTimeouts + Cardinality(Conn)
  <2>1. /\ p \in Peer /\ peers[p] \in PeerEntry
        /\ peers[p].timeouts <= MaxTimeouts - 1 + Cardinality(Leaving(p))
    BY DEF PeersInv, Entries
  <2>2. /\ Cardinality(Leaving(p)) <= Cardinality(Conn) /\ Cardinality(Leaving(p)) \in Nat
        /\ Cardinality(Conn) \in Nat /\ MaxTimeouts \in Nat
    BY CppPeersAssumption, Counts DEF Leaving
  <2>3. peers[p].conn \in Conn /\ peers[p].timeouts \in Nat
    BY <2>1 DEF PeerEntry
  <2> QED BY <2>1, <2>2, <2>3
<1>3. perIp \in [Ip -> 0..MaxPerIp] /\ total \in 0..MaxTotal /\ subnet \in 0..MaxSubnet
  BY CppPeersAssumption DEF PeersInv, Slots
<1>4. CppTypeOK
  BY <1>1, <1>2, <1>3 DEF CppTypeOK, PeersInv, LockInv, Routed
<1>5. NoSlotLeak
  <2>1. Counted \subseteq {c \in Conn : pc[c] \notin {"new", "closed"}}
    BY DEF Counted, Slotted
  <2>2. subnet <= Cardinality({c \in Conn : pc[c] \notin {"new", "closed"}})
    <3> DEFINE open == {c \in Conn : pc[c] \notin {"new", "closed"}}
    <3>1. /\ Cardinality(Counted) <= Cardinality(open) /\ Cardinality(Counted) \in Nat
          /\ Cardinality(open) \in Nat
      BY <2>1, Counts
    <3> QED BY <3>1 DEF PeersInv, Slots
  <2> QED BY <2>2 DEF NoSlotLeak, PeersInv, Slots
<1> QED BY <1>4, <1>5 DEF TablesSound, PeersInv, Routed

\* TablesSound of CppPeers, for any number of connections, peers, addresses and limits:
\* whoever waits for what, the tables lead to the same peers and no slot is lost.
THEOREM PeerTablesSound == CppSpec => []TablesSound
BY PeersInit, PeersNext, PeersSound, PTL DEF CppSpec

-----------------------------------------------------------------------------
(* Mesh: sets of numbers. *)

NatLess == OpToRel(<, Nat)

\* A non-empty set of natural numbers has a least element.
LEMMA LeastExists ==
  ASSUME NEW T \in SUBSET Nat, T # {}
  PROVE  \E n \in T : \A m \in T : n <= m
<1>1. IsWellFoundedOn(NatLess, Nat)
  BY NatLessThanWellFounded DEF NatLess
<1>2. PICK n \in T : \A m \in T : ~ (<<m, n>> \in NatLess)
  BY <1>1, WFMin
<1>3. ASSUME NEW m \in T PROVE n <= m
  <2>1. ~ (<<m, n>> \in NatLess) /\ m \in Nat /\ n \in Nat
    BY <1>2
  <2>2. ~ (m < n)
    BY <2>1 DEF NatLess, OpToRel
  <2> QED BY <2>1, <2>2
<1> QED BY <1>3

Below(S, i) == {j \in S : j <= i}

\* A finite set of numbers can be counted from its least element up: every rank
\* is that of an element.
LEMMA RankExists ==
  ASSUME NEW S \in SUBSET Nat, IsFiniteSet(S),
         NEW k \in Nat, 1 <= k, k <= Cardinality(S)
  PROVE  \E i \in S : Cardinality(Below(S, i)) = k
<1> DEFINE Bad == {r \in Nat : /\ 1 <= r /\ r <= Cardinality(S)
                               /\ ~ \E i \in S : Cardinality(Below(S, i)) = r}
<1> SUFFICES ASSUME Bad # {} PROVE FALSE
  OBVIOUS
<1>1. PICK r \in Bad : \A q \in Bad : r <= q
  BY LeastExists
<1>2. PICK A \in SUBSET S : /\ IsFiniteSet(A) /\ Cardinality(A) = r - 1
                            /\ \A a \in A, x \in S \ A : a < x
  <2>1. CASE r = 1
    BY <2>1, FS_EmptySet
  <2>2. CASE r # 1
    <3>1. r - 1 \in Nat /\ 1 <= r - 1 /\ r - 1 <= Cardinality(S) /\ r - 1 \notin Bad
      BY <1>1, <2>2, FS_CardinalityType
    <3>2. PICK i \in S : Cardinality(Below(S, i)) = r - 1
      BY <3>1
    <3>3. /\ Below(S, i) \in SUBSET S /\ IsFiniteSet(Below(S, i))
          /\ \A a \in Below(S, i), x \in S \ Below(S, i) : a < x
      BY FS_Subset DEF Below
    <3> QED BY <3>2, <3>3
  <2> QED BY <2>1, <2>2
<1>3. S \ A \in SUBSET Nat /\ S \ A # {}
  <2>1. r \in Nat /\ 1 <= r /\ r <= Cardinality(S) /\ Cardinality(S) \in Nat
    BY <1>1, FS_CardinalityType
  <2>2. A # S
    BY <1>2, <2>1
  <2> QED BY <1>2, <2>2
<1>4. PICK i \in S \ A : \A x \in S \ A : i <= x
  BY <1>3, LeastExists
<1>5. Below(S, i) = A \cup {i}
  <2>1. i \in S /\ i \notin A /\ \A x \in S : x \in Nat
    BY <1>4
  <2>2. ASSUME NEW x \in S PROVE x <= i <=> x \in A \cup {i}
    BY <1>2, <1>4, <2>1
  <2> QED BY <2>1, <2>2 DEF Below
<1>6. Cardinality(Below(S, i)) = r
  <2>1. IsFiniteSet(A) /\ i \notin A
    BY <1>2, <1>4
  <2>2. Cardinality(A \cup {i}) = Cardinality(A) + 1
    BY <2>1, FS_AddElement
  <2>3. Cardinality(A) = r - 1 /\ r \in Nat
    BY <1>1, <1>2
  <2> QED BY <1>5, <2>2, <2>3
<1> QED BY <1>1, <1>4, <1>6

-----------------------------------------------------------------------------
(* Mesh: links and events. *)

LinkRecord == [dialler : Node, acceptor : Node, due : SUBSET Side,
               reading : SUBSET Side, writing : SUBSET Side, broken : BOOLEAN]

LinksOK(ls) == DOMAIN ls \subseteq Link /\ \A i \in DOMAIN ls : ls[i] \in LinkRecord

Event == [kind : {"Connected", "Disconnected"}, peer : Node, end : Nat \X Side]
EventsOK == DOMAIN events = Node /\ \A n \in Node : events[n] \in Seq(Event)

PeerRecord == [state : States, missed : 0..MaxMissed]

PeersOK ==
  /\ DOMAIN known = Node
  /\ \A n \in Node : /\ DOMAIN known[n] \subseteq Others(n)
                     /\ \A m \in DOMAIN known[n] : known[n][m] \in PeerRecord

ViewsOK ==
  /\ DOMAIN writers = Node /\ DOMAIN joined = Node
  /\ \A n \in Node : DOMAIN writers[n] \subseteq Node /\ joined[n] \subseteq Node

MeshInv == LinksOK(links) /\ EventsOK /\ PeersOK /\ ViewsOK /\ ViewsAgree

\* At both ends of a connection there are nodes.
LEMMA BothEnds ==
  ASSUME LinksOK(links), NEW i \in DOMAIN links, NEW s \in Side
  PROVE  At(i, s) \in Node /\ Far(i, s) \in Node /\ i \in Nat
<1>1. links[i] \in LinkRecord /\ i \in Nat
  BY MeshAssumption DEF LinksOK
<1> QED BY <1>1 DEF LinkRecord, At, Far, Opposite

\* Connections nobody has a task on any more can go.
LEMMA KeptOK == ASSUME NEW ls, LinksOK(ls) PROVE LinksOK(Kept(ls))
BY DEF LinksOK, Kept

\* Channels that are dropped end write tasks, and nothing else.
LEMMA DroppedOK == ASSUME NEW ls, LinksOK(ls), NEW ends PROVE LinksOK(Dropped(ls, ends))
<1>1. ASSUME NEW i \in DOMAIN ls PROVE Dropped(ls, ends)[i] \in LinkRecord
  <2>1. ls[i] \in LinkRecord
    BY DEF LinksOK
  <2>2. {s \in ls[i].writing : <<i, s>> \notin ends} \in SUBSET Side
    BY <2>1 DEF LinkRecord
  <2> QED BY <2>1, <2>2 DEF Dropped, LinkRecord
<1> QED BY <1>1 DEF LinksOK, Dropped

\* A new connection is one of the two nodes.
LEMMA DialOK ==
  ASSUME NEW n \in Node, NEW m \in Node
  PROVE  Dialled(n, m) \in LinkRecord
BY DEF LinkRecord, Dialled, Side

\* As long as there are names for them, new connections get names of their own
\* and lead to the peers dialled.
LEMMA WithDialsOK ==
  ASSUME LinksOK(links), NEW n \in Node, NEW targets \in SUBSET Node,
         CanDial(Cardinality(targets))
  PROVE  LinksOK(WithDials(links, n, targets))
<1> DEFINE F == FreeName(links)
           rank(m) == Cardinality(Below(targets, m))
           name(k) == CHOOSE i \in F : Cardinality(Below(F, i)) = k
           new == {name(k) : k \in 1..Cardinality(targets)}
<1>1. /\ F \in SUBSET Nat /\ F \subseteq Link /\ IsFiniteSet(F) /\ Cardinality(F) \in Nat
  BY MeshAssumption, FS_Subset, FS_CardinalityType DEF FreeName
<1>2. /\ targets \in SUBSET Nat /\ IsFiniteSet(targets) /\ Cardinality(targets) \in Nat
      /\ Cardinality(targets) <= Cardinality(F)
  BY <1>1, MeshAssumption, FS_Subset, FS_CardinalityType DEF CanDial
<1>3. ASSUME NEW k \in 1..Cardinality(targets)
      PROVE  name(k) \in F /\ \E m \in targets : rank(m) = k
  <2>1. k \in Nat /\ 1 <= k /\ k <= Cardinality(targets) /\ k <= Cardinality(F)
    BY <1>1, <1>2
  <2>2. \E i \in F : Cardinality(Below(F, i)) = k
    BY <1>1, <2>1, RankExists
  <2>3. \E m \in targets : Cardinality(Below(targets, m)) = k
    BY <1>2, <2>1, RankExists
  <2> QED BY <2>2, <2>3
<1>4. WithDials(links, n, targets) =
        [i \in DOMAIN links \cup new |->
           IF i \in new THEN Dialled(n, CHOOSE m \in targets : name(rank(m)) = i) ELSE links[i]]
  BY DEF WithDials, Below
<1>5. ASSUME NEW i \in new
      PROVE  i \in Link /\ Dialled(n, CHOOSE m \in targets : name(rank(m)) = i) \in LinkRecord
  <2>1. PICK k \in 1..Cardinality(targets) : i = name(k)
    OBVIOUS
  <2>2. i \in F /\ \E m \in targets : name(rank(m)) = i
    BY <1>3, <2>1
  <2>3. (CHOOSE m \in targets : name(rank(m)) = i) \in Node
    BY <2>2
  <2> QED BY <1>1, <2>2, <2>3, DialOK
<1> HIDE DEF F, rank, name, new
<1> QED BY <1>4, <1>5 DEF LinksOK

-----------------------------------------------------------------------------
(* Mesh: the start-up. *)

\* Every first dial gets a name, and a connection that leads to the seed.
LEMMA MeshStart == MeshInit => MeshInv
<1> SUFFICES ASSUME MeshInit PROVE MeshInv
  OBVIOUS
<1>0. PICK u \in Setups : StartWith(u)
  BY DEF MeshInit
<1> DEFINE dials == FirstDials(u.seeds)
           before(d) == {e \in dials : e[1] < d[1] \/ (e[1] = d[1] /\ e[2] < d[2])}
           name(d) == CHOOSE i \in Link :
                        Cardinality({j \in Link : j < i}) = Cardinality(before(d))
           names == {name(d) : d \in dials}
<1>1. /\ dials \subseteq Node \X Node
      /\ IsFiniteSet(dials) /\ Cardinality(dials) \in Nat
  <2>1. dials \subseteq Node \X Node
    <3>1. /\ \A n \in DOMAIN u.seeds : n \in Node /\ u.seeds[n] \subseteq Node
          /\ dials = UNION {{<<n, m>> : m \in u.seeds[n]} : n \in DOMAIN u.seeds}
      BY MeshAssumption DEF FirstDials
    <3> HIDE DEF dials
    <3> QED BY <3>1
  <2>2. IsFiniteSet(Node \X Node)
    BY MeshAssumption, FS_Product
  <2> QED BY <2>1, <2>2, FS_Subset, FS_CardinalityType
<1>2. ASSUME NEW d \in dials PROVE name(d) \in Link
  <2>1. /\ IsFiniteSet(before(d)) /\ Cardinality(before(d)) \in Nat
        /\ Cardinality(before(d)) < Cardinality(dials)
    <3>1. d[1] \in Nat /\ d[2] \in Nat
      BY <1>1, MeshAssumption
    <3>2. d \notin before(d)
      BY <3>1
    <3>3. before(d) \in SUBSET dials /\ before(d) # dials
      BY <3>2
    <3> QED BY <1>1, <3>3, FS_Subset, FS_CardinalityType
  <2>2. Link \in SUBSET Nat /\ IsFiniteSet(Link) /\ Cardinality(Link) \in Nat
    BY MeshAssumption, FS_CardinalityType
  <2> DEFINE k == Cardinality(before(d)) + 1
  <2>3. k \in Nat /\ 1 <= k /\ k <= Cardinality(Link)
    BY <1>1, <2>1, <2>2, MeshAssumption
  <2> HIDE DEF k
  <2>4. PICK i \in Link : Cardinality(Below(Link, i)) = k
    BY <2>2, <2>3, RankExists
  <2>5. Below(Link, i) \ {i} = {j \in Link : j < i} /\ i \in Below(Link, i)
    <3>1. \A j \in Link : j \in Nat
      BY <2>2
    <3>2. \A j \in Link : j < i <=> j <= i /\ j # i
      BY <2>4, <3>1
    <3> QED BY <2>4, <3>1, <3>2 DEF Below
  <2>6. IsFiniteSet(Below(Link, i))
    BY <2>2, FS_Subset DEF Below
  <2>7. Cardinality({j \in Link : j < i}) = k - 1
    BY <2>4, <2>5, <2>6, FS_RemoveElement
  <2>8. Cardinality({j \in Link : j < i}) = Cardinality(before(d))
    BY <2>1, <2>7 DEF k
  <2> QED BY <2>4, <2>8
<1>3. links = [i \in names |->
                 LET d == CHOOSE d \in dials : name(d) = i IN Dialled(d[1], d[2])]
  BY <1>0 DEF StartWith
<1>4. LinksOK(links)
  <2>1. ASSUME NEW i \in names PROVE i \in Link /\ links[i] \in LinkRecord
    <3>1. PICK d \in dials : name(d) = i
      OBVIOUS
    <3> DEFINE c == CHOOSE x \in dials : name(x) = i
    <3>2. c \in dials
      BY <3>1
    <3>3. links[i] = Dialled(c[1], c[2])
      BY <1>3
    <3> HIDE DEF c
    <3>4. c[1] \in Node /\ c[2] \in Node
      BY <1>1, <3>2
    <3> QED BY <1>2, <3>1, <3>3, <3>4, DialOK
  <2> HIDE DEF names
  <2> QED BY <1>3, <2>1 DEF LinksOK
<1>5. EventsOK /\ PeersOK /\ ViewsOK /\ ViewsAgree
  BY <1>0 DEF StartWith, EventsOK, PeersOK, ViewsOK, ViewsAgree, Connected
<1> QED BY <1>4, <1>5 DEF MeshInv

-----------------------------------------------------------------------------
(* Mesh: the tasks of a connection. *)

\* An event more.
LEMMA SentOK ==
  ASSUME EventsOK, NEW n \in Node, NEW evs \in Seq(Event), Sent(n, evs)
  PROVE  EventsOK'
<1>1. /\ DOMAIN events' = Node /\ events'[n] = events[n] \o evs
      /\ \A k \in Node \ {n} : events'[k] = events[k]
  BY DEF EventsOK, Sent
<1>2. events[n] \o evs \in Seq(Event)
  <2>1. events[n] \in Seq(Event)
    BY DEF EventsOK
  <2> QED BY <2>1
<1> QED BY <1>1, <1>2 DEF EventsOK

\* The tables follow the events only.
LEMMA TablesKept ==
  ASSUME MeshInv, UNCHANGED <<known, writers, joined>>
  PROVE  PeersOK' /\ ViewsOK' /\ ViewsAgree'
BY DEF MeshInv, PeersOK, ViewsOK, ViewsAgree, Connected

LEMMA TaskStep ==
  ASSUME MeshInv, NEW i \in DOMAIN links, NEW s \in Side,
         Finalize(i, s) \/ HandshakeFails(i, s) \/ ReadEnds(i, s) \/ WriteFails(i, s)
  PROVE  MeshInv'
<1> DEFINE n == At(i, s)
           up == Up(Far(i, s), i, s)
           down == Down(Far(i, s))
<1>1. LinksOK(links) /\ EventsOK /\ links[i] \in LinkRecord
  BY DEF MeshInv, LinksOK
<1>2. n \in Node /\ Far(i, s) \in Node /\ i \in Nat
  BY <1>1, BothEnds
<1>3. up \in Event /\ down \in Event
  BY <1>2 DEF Up, Down, Event, Side
<1>4. PeersOK' /\ ViewsOK' /\ ViewsAgree'
  BY TablesKept DEF Finalize, HandshakeFails, ReadEnds, WriteFails, views
<1>5. /\ links[i].due \ {s} \in SUBSET Side
      /\ links[i].reading \cup {s} \in SUBSET Side /\ links[i].reading \ {s} \in SUBSET Side
      /\ links[i].writing \cup {s} \in SUBSET Side /\ links[i].writing \ {s} \in SUBSET Side
  BY <1>1 DEF LinkRecord
<1>6. ASSUME NEW evs \in Seq(Event), Sent(n, evs), LinksOK(links') PROVE MeshInv'
  BY <1>1, <1>2, <1>4, <1>6, SentOK DEF MeshInv
<1>7. <<up>> \in Seq(Event) /\ <<down, up>> \in Seq(Event) /\ <<down>> \in Seq(Event)
  <2> HIDE DEF up, down
  <2> QED BY <1>3
<1>8. CASE Finalize(i, s)
  <2>1. LinksOK(links')
    <3>1. /\ DOMAIN links' = DOMAIN links /\ \A j \in DOMAIN links \ {i} : links'[j] = links[j]
          /\ \/ links'[i] = [links[i] EXCEPT !.due = @ \ {s}, !.reading = @ \cup {s},
                                             !.writing = @ \cup {s}]
             \/ links'[i] = [links[i] EXCEPT !.due = @ \ {s}, !.writing = @ \cup {s}]
      BY <1>8 DEF Finalize
    <3>2. links'[i] \in LinkRecord
      BY <1>1, <1>5, <3>1 DEF LinkRecord
    <3> QED BY <1>1, <3>1, <3>2 DEF LinksOK
  <2>2. Sent(n, <<up>>) \/ Sent(n, <<down, up>>)
    BY <1>8 DEF Finalize
  <2> HIDE DEF up, down
  <2> QED BY <1>6, <1>7, <2>1, <2>2
<1>9. CASE HandshakeFails(i, s)
  <2>1. LinksOK([links EXCEPT ![i].due = @ \ {s}])
    BY <1>1, <1>5 DEF LinksOK, LinkRecord
  <2>2. LinksOK(links')
    BY <1>9, <2>1, KeptOK DEF HandshakeFails
  <2>3. EventsOK'
    BY <1>1, <1>9 DEF HandshakeFails, EventsOK, Event
  <2> QED BY <1>4, <2>2, <2>3 DEF MeshInv
<1>10. CASE ReadEnds(i, s)
  <2>1. LinksOK([links EXCEPT ![i].reading = @ \ {s}])
    BY <1>1, <1>5 DEF LinksOK, LinkRecord
  <2>2. LinksOK(links') /\ Sent(n, <<down>>)
    BY <1>10, <2>1, KeptOK DEF ReadEnds
  <2> HIDE DEF down
  <2> QED BY <1>6, <1>7, <2>2
<1>11. CASE WriteFails(i, s)
  <2>1. LinksOK([links EXCEPT ![i].writing = @ \ {s}])
    BY <1>1, <1>5 DEF LinksOK, LinkRecord
  <2>2. LinksOK(links') /\ Sent(n, <<down>>)
    BY <1>11, <2>1, KeptOK DEF WriteFails
  <2> HIDE DEF down
  <2> QED BY <1>6, <1>7, <2>2
<1> QED BY <1>8, <1>9, <1>10, <1>11

LEMMA BreakStep ==
  ASSUME MeshInv, NEW i \in DOMAIN links, Break(i) PROVE MeshInv'
<1>1. LinksOK(links')
  <2>1. /\ DOMAIN links' = DOMAIN links /\ links'[i] = [links[i] EXCEPT !.broken = TRUE]
        /\ \A j \in DOMAIN links \ {i} : links'[j] = links[j]
    BY DEF Break
  <2>2. links'[i] \in LinkRecord
    BY <2>1 DEF MeshInv, LinksOK, LinkRecord
  <2> QED BY <2>1, <2>2 DEF MeshInv, LinksOK
<1>2. EventsOK'
  BY DEF MeshInv, Break, EventsOK, Event
<1> QED BY <1>1, <1>2, TablesKept DEF MeshInv, Break, views

-----------------------------------------------------------------------------
(* Mesh: the event loop. *)

\* The event at the head of the queue.
LEMMA HeadEvent ==
  ASSUME EventsOK, NEW n \in Node, events[n] # <<>>,
         events' = [events EXCEPT ![n] = Tail(@)]
  PROVE  Head(events[n]) \in Event /\ EventsOK'
<1>1. Head(events[n]) \in Event /\ Tail(events[n]) \in Seq(Event)
  <2>1. events[n] \in Seq(Event)
    BY DEF EventsOK
  <2> QED BY <2>1
<1>2. /\ DOMAIN events' = Node /\ events'[n] = Tail(events[n])
      /\ \A k \in Node \ {n} : events'[k] = events[k]
  BY DEF EventsOK
<1> QED BY <1>1, <1>2 DEF EventsOK

\* What Lose takes away it takes from channels and coordinator alike.
LEMMA LoseOK ==
  ASSUME LinksOK(links), ViewsOK, NEW n \in Node, NEW ms, Lose(n, ms)
  PROVE  /\ LinksOK(links') /\ ViewsOK'
         /\ DOMAIN writers'[n] = DOMAIN writers[n] \ ms /\ joined'[n] = joined[n] \ ms
         /\ \A k \in Others(n) : writers'[k] = writers[k] /\ joined'[k] = joined[k]
<1>1. LinksOK(links')
  BY DroppedOK, KeptOK DEF Lose
<1>2. /\ ViewsOK'
      /\ DOMAIN writers'[n] = DOMAIN writers[n] \ ms /\ joined'[n] = joined[n] \ ms
      /\ \A k \in Node \ {n} : writers'[k] = writers[k] /\ joined'[k] = joined[k]
  BY DEF Lose, ViewsOK
<1> QED BY <1>1, <1>2 DEF Others

LEMMA ConnectedStep ==
  ASSUME MeshInv, NEW n \in Node, HandleConnected(n) PROVE MeshInv'
<1> DEFINE ev == Head(events[n])
<1>1. ev \in Event /\ EventsOK'
  BY HeadEvent DEF MeshInv, HandleConnected
<1>2. ev.peer \in Node
  BY <1>1 DEF Event
<1>3. CASE ev.peer \in DOMAIN writers[n]
  <2>1. links' = Kept(Dropped(links, {ev.end})) /\ UNCHANGED <<known, writers, joined>>
    BY <1>3 DEF HandleConnected, views
  <2>2. LinksOK(links')
    BY <2>1, DroppedOK, KeptOK DEF MeshInv
  <2> QED BY <1>1, <2>1, <2>2, TablesKept DEF MeshInv
<1>4. CASE ev.peer \notin DOMAIN writers[n]
  <2>1. /\ known' = IF ev.peer = n THEN known
                    ELSE [known EXCEPT ![n] = Put(@, ev.peer, Record("Connected"))]
        /\ writers' = [writers EXCEPT ![n] = Put(@, ev.peer, ev.end)]
        /\ joined' = [joined EXCEPT ![n] = @ \cup {ev.peer}]
        /\ UNCHANGED links
    BY <1>4 DEF HandleConnected
  <2> HIDE DEF ev
  <2>2. Record("Connected") \in PeerRecord /\ Record("Connected").state = "Connected"
    BY MeshAssumption DEF Record, PeerRecord, States
  <2>3. /\ DOMAIN writers'[n] = DOMAIN writers[n] \cup {ev.peer}
        /\ joined'[n] = joined[n] \cup {ev.peer}
        /\ DOMAIN writers' = Node /\ DOMAIN joined' = Node
        /\ \A k \in Node \ {n} : writers'[k] = writers[k] /\ joined'[k] = joined[k]
    BY <2>1 DEF MeshInv, ViewsOK, Put
  <2>4. ViewsOK'
    BY <1>2, <2>3 DEF MeshInv, ViewsOK
  <2>5. /\ PeersOK' /\ Connected(n)' = Connected(n) \cup ({ev.peer} \ {n})
        /\ \A k \in Node \ {n} : Connected(k)' = Connected(k)
    <3>1. CASE ev.peer = n
      <4>1. known' = known
        BY <2>1, <3>1
      <4> QED BY <3>1, <4>1 DEF MeshInv, PeersOK, Connected
    <3>2. CASE ev.peer # n
      <4>1. known' = [known EXCEPT ![n] = Put(@, ev.peer, Record("Connected"))]
        BY <2>1, <3>2
      <4>2. /\ DOMAIN known'[n] = DOMAIN known[n] \cup {ev.peer} /\ DOMAIN known' = Node
            /\ \A m \in DOMAIN known'[n] :
                 known'[n][m] = IF m = ev.peer THEN Record("Connected") ELSE known[n][m]
            /\ \A k \in Node \ {n} : known'[k] = known[k]
        BY <4>1 DEF MeshInv, PeersOK, Put
      <4>3. PeersOK'
        BY <1>2, <2>2, <3>2, <4>2 DEF MeshInv, PeersOK, Others
      <4>4. Connected(n)' = Connected(n) \cup {ev.peer}
        BY <2>2, <4>2 DEF Connected
      <4>5. \A k \in Node \ {n} : Connected(k)' = Connected(k)
        BY <4>2 DEF Connected
      <4> QED BY <3>2, <4>3, <4>4, <4>5
    <3> QED BY <3>1, <3>2
  <2>6. ViewsAgree'
    BY <2>3, <2>5 DEF MeshInv, ViewsAgree
  <2> QED BY <1>1, <2>1, <2>4, <2>5, <2>6 DEF MeshInv
<1> QED BY <1>3, <1>4

\* A table from which ms have ceased to be connected fits what Lose leaves.
LEMMA LostOK ==
  ASSUME MeshInv, NEW n \in Node, NEW ms, Lose(n, ms), EventsOK',
         NEW table, known' = [known EXCEPT ![n] = table],
         DOMAIN table = DOMAIN known[n],
         \A m \in DOMAIN table : table[m] \in PeerRecord,
         \A m \in DOMAIN table :
           table[m].state = "Connected" <=> known[n][m].state = "Connected" /\ m \notin ms
  PROVE  MeshInv'
<1>1. /\ LinksOK(links') /\ ViewsOK'
      /\ DOMAIN writers'[n] = DOMAIN writers[n] \ ms /\ joined'[n] = joined[n] \ ms
      /\ \A k \in Others(n) : writers'[k] = writers[k] /\ joined'[k] = joined[k]
  BY LoseOK DEF MeshInv
<1>2. /\ DOMAIN known' = Node /\ known'[n] = table
      /\ \A k \in Node \ {n} : known'[k] = known[k]
  BY DEF MeshInv, PeersOK
<1>3. PeersOK'
  BY <1>2 DEF MeshInv, PeersOK
<1>4. Connected(n)' = Connected(n) \ ms /\ \A k \in Node \ {n} : Connected(k)' = Connected(k)
  BY <1>2 DEF Connected
<1>5. ViewsAgree'
  BY <1>1, <1>4 DEF MeshInv, ViewsAgree, Others
<1> QED BY <1>1, <1>3, <1>5 DEF MeshInv

LEMMA DisconnectedStep ==
  ASSUME MeshInv, NEW n \in Node, HandleDisconnected(n) PROVE MeshInv'
<1> DEFINE m == Head(events[n]).peer
           table == [k \in DOMAIN known[n] |->
                       IF k = m THEN [known[n][k] EXCEPT !.state = "Dead"] ELSE known[n][k]]
<1>1. EventsOK'
  BY HeadEvent DEF MeshInv, HandleDisconnected
<1>2. Lose(n, {m})
  BY DEF HandleDisconnected
<1>3. CASE m \in DOMAIN known[n]
  <2>1. known' = [known EXCEPT ![n][m].state = "Dead"]
    BY <1>3 DEF HandleDisconnected
  <2> HIDE DEF m
  <2>3. /\ \A k \in DOMAIN table : table[k] \in PeerRecord
        /\ \A k \in DOMAIN table :
             table[k].state = "Connected" <=> known[n][k].state = "Connected" /\ k \notin {m}
    BY DEF MeshInv, PeersOK, PeerRecord, States
  <2>5. known' = [known EXCEPT ![n] = table]
    BY <2>1
  <2>6. DOMAIN table = DOMAIN known[n]
    OBVIOUS
  <2> HIDE DEF table
  <2> QED BY <1>1, <1>2, <2>3, <2>5, <2>6, LostOK
<1>4. CASE m \notin DOMAIN known[n]
  <2>1. known' = known
    BY <1>4 DEF HandleDisconnected
  <2> HIDE DEF m
  <2>2. PeersOK' /\ \A k \in Node : Connected(k)' = Connected(k)
    BY <2>1 DEF MeshInv, PeersOK, Connected
  <2>3. m \notin Connected(n)
    BY <1>4 DEF Connected
  <2>4. /\ LinksOK(links') /\ ViewsOK'
        /\ DOMAIN writers'[n] = DOMAIN writers[n] \ {m} /\ joined'[n] = joined[n] \ {m}
        /\ \A k \in Others(n) : writers'[k] = writers[k] /\ joined'[k] = joined[k]
    BY <1>2, LoseOK DEF MeshInv
  <2>5. Connected(n)' = DOMAIN writers'[n] \ {n} /\ joined'[n] = DOMAIN writers'[n]
    <3>1. Connected(n) = DOMAIN writers[n] \ {n} /\ joined[n] = DOMAIN writers[n]
      BY DEF MeshInv, ViewsAgree
    <3>2. Connected(n)' = Connected(n)
      BY <2>2
    <3> QED BY <2>3, <2>4, <3>1, <3>2
  <2>6. ASSUME NEW k \in Others(n)
        PROVE  Connected(k)' = DOMAIN writers'[k] \ {k} /\ joined'[k] = DOMAIN writers'[k]
    <3>1. Connected(k)' = Connected(k)
      BY <2>2 DEF Others
    <3>2. Connected(k) = DOMAIN writers[k] \ {k} /\ joined[k] = DOMAIN writers[k]
      BY DEF MeshInv, ViewsAgree, Others
    <3> QED BY <2>4, <3>1, <3>2
  <2>7. ViewsAgree'
    <3> DEFINE agree(k) == Connected(k) = DOMAIN writers[k] \ {k} /\ joined[k] = DOMAIN writers[k]
    <3>1. \A k \in Node : agree(k)'
      BY <2>5, <2>6 DEF Others
    <3> QED BY <3>1 DEF ViewsAgree
  <2> QED BY <1>1, <2>2, <2>4, <2>7 DEF MeshInv
<1> QED BY <1>3, <1>4

LEMMA HeartbeatStep ==
  ASSUME MeshInv, NEW n \in Node, HeartbeatTick(n) PROVE MeshInv'
<1> DEFINE missed(m) == IF Hears(n, m) THEN 0 ELSE known[n][m].missed + 1
           gone == {m \in Connected(n) : missed(m) >= MaxMissed}
           table == [m \in DOMAIN known[n] |->
                       IF m \in gone THEN [known[n][m] EXCEPT !.state = "Dead", !.missed = MaxMissed]
                       ELSE IF m \in Connected(n) THEN [known[n][m] EXCEPT !.missed = missed(m)]
                       ELSE known[n][m]]
<1>1. Lose(n, gone) /\ known' = [known EXCEPT ![n] = table] /\ UNCHANGED events
  BY DEF HeartbeatTick
<1>2. EventsOK'
  BY <1>1 DEF MeshInv, EventsOK, Event
<1>3. ASSUME NEW m \in DOMAIN table
      PROVE  /\ table[m] \in PeerRecord
             /\ table[m].state = "Connected" <=> known[n][m].state = "Connected" /\ m \notin gone
  <2>1. known[n][m] \in PeerRecord /\ known[n][m].missed \in Nat /\ MaxMissed \in Nat
    BY MeshAssumption DEF MeshInv, PeersOK, PeerRecord
  <2>2. missed(m) \in Nat
    BY <2>1
  <2>3. CASE m \in gone
    <3> HIDE DEF missed, gone
    <3>1. table[m] = [known[n][m] EXCEPT !.state = "Dead", !.missed = MaxMissed]
      BY <2>3
    <3>2. MaxMissed \in 0..MaxMissed /\ "Dead" \in States
      BY <2>1 DEF States
    <3>3. table[m] \in PeerRecord /\ table[m].state = "Dead"
      <4> HIDE DEF table
      <4> QED BY <2>1, <3>1, <3>2 DEF PeerRecord
    <3> QED BY <2>3, <3>3
  <2>4. CASE m \in Connected(n) \ gone
    <3>1. missed(m) \in 0..MaxMissed
      BY <2>1, <2>2, <2>4
    <3> HIDE DEF missed, gone
    <3>2. table[m] = [known[n][m] EXCEPT !.missed = missed(m)]
      BY <2>4
    <3> QED BY <2>1, <2>4, <3>1, <3>2 DEF PeerRecord
  <2>5. CASE m \notin Connected(n)
    <3>1. table[m] = known[n][m] /\ known[n][m].state # "Connected"
      BY <2>5 DEF Connected
    <3> QED BY <2>1, <3>1
  <2> QED BY <2>3, <2>4, <2>5
<1>4. DOMAIN table = DOMAIN known[n]
  OBVIOUS
<1> HIDE DEF table, gone
<1> QED BY <1>1, <1>2, <1>3, <1>4, LostOK

\* New entries and connecting peers are not connected: the views stay.
LEMMA DialStep ==
  ASSUME MeshInv, NEW n \in Node, NEW targets \in SUBSET Node,
         CanDial(Cardinality(targets)), links' = WithDials(links, n, targets),
         UNCHANGED <<writers, events, joined>>,
         NEW table, known' = [known EXCEPT ![n] = table],
         DOMAIN table \subseteq Others(n),
         \A m \in DOMAIN table : table[m] \in PeerRecord,
         \A m \in Others(n) : (m \in DOMAIN table /\ table[m].state = "Connected")
                                <=> (m \in DOMAIN known[n] /\ known[n][m].state = "Connected")
  PROVE  MeshInv'
<1>1. LinksOK(links')
  BY WithDialsOK DEF MeshInv
<1>2. EventsOK' /\ ViewsOK'
  BY DEF MeshInv, EventsOK, Event, ViewsOK
<1>3. /\ DOMAIN known' = Node /\ known'[n] = table
      /\ \A k \in Node \ {n} : known'[k] = known[k]
  BY DEF MeshInv, PeersOK
<1>4. PeersOK'
  BY <1>3 DEF MeshInv, PeersOK
<1>5. Connected(n)' = Connected(n) /\ \A k \in Node \ {n} : Connected(k)' = Connected(k)
  BY <1>3 DEF MeshInv, PeersOK, Connected
<1>6. ViewsAgree'
  BY <1>5 DEF MeshInv, ViewsAgree
<1> QED BY <1>1, <1>2, <1>4, <1>6 DEF MeshInv

LEMMA ExchangeStep ==
  ASSUME MeshInv, NEW n \in Node, NEW m \in Others(n), PeerExchange(n, m) PROVE MeshInv'
<1> DEFINE new == Connected(m) \ (DOMAIN known[n] \cup {n})
           dialled == {p \in new : ShouldDial(n, p) /\ p \notin DOMAIN writers[n]}
           table == [p \in DOMAIN known[n] \cup new |->
                       IF p \in new THEN Record("Disconnected") ELSE known[n][p]]
<1>1. new \subseteq Others(n) /\ new \cap DOMAIN known[n] = {}
  BY DEF MeshInv, PeersOK, Connected, Others
<1>2. /\ CanDial(Cardinality(dialled)) /\ links' = WithDials(links, n, dialled)
      /\ known' = [known EXCEPT ![n] = table] /\ UNCHANGED <<writers, events, joined>>
  BY DEF PeerExchange
<1> HIDE DEF new
<1>3. Record("Disconnected") \in PeerRecord /\ Record("Disconnected").state = "Disconnected"
  BY MeshAssumption DEF Record, PeerRecord, States
<1>4. /\ DOMAIN table \subseteq Others(n) /\ \A p \in DOMAIN table : table[p] \in PeerRecord
      /\ \A p \in Others(n) : (p \in DOMAIN table /\ table[p].state = "Connected")
                                <=> (p \in DOMAIN known[n] /\ known[n][p].state = "Connected")
  BY <1>1, <1>3 DEF MeshInv, PeersOK
<1>5. dialled \in SUBSET Node
  BY <1>1 DEF Others
<1> HIDE DEF table, dialled
<1> QED BY <1>2, <1>4, <1>5, DialStep

LEMMA ReconnectStep ==
  ASSUME MeshInv, NEW n \in Node, Reconnect(n) PROVE MeshInv'
<1> DEFINE dialled == {m \in DOMAIN known[n] : /\ known[n][m].state = "Dead"
                                               /\ ShouldDial(n, m) /\ m \notin DOMAIN writers[n]}
<1>1. PICK some \in SUBSET dialled \ {{}} :
        /\ CanDial(Cardinality(some))
        /\ known' = [known EXCEPT ![n] =
             [m \in DOMAIN @ |-> IF m \in some THEN [@[m] EXCEPT !.state = "Connecting"] ELSE @[m]]]
        /\ links' = WithDials(links, n, some)
  BY DEF Reconnect
<1> DEFINE table == [m \in DOMAIN known[n] |->
                       IF m \in some THEN [known[n][m] EXCEPT !.state = "Connecting"] ELSE known[n][m]]
<1>2. some \in SUBSET Node /\ \A m \in some : m \in DOMAIN known[n] /\ known[n][m].state = "Dead"
  BY DEF MeshInv, PeersOK, Others
<1> HIDE DEF dialled
<1>3. known' = [known EXCEPT ![n] = table]
  BY <1>1
<1>4. /\ DOMAIN table \subseteq Others(n) /\ \A p \in DOMAIN table : table[p] \in PeerRecord
      /\ \A p \in Others(n) : (p \in DOMAIN table /\ table[p].state = "Connected")
                                <=> (p \in DOMAIN known[n] /\ known[n][p].state = "Connected")
  BY <1>2 DEF MeshInv, PeersOK, PeerRecord, States
<1>5. UNCHANGED <<writers, events, joined>>
  BY DEF Reconnect
<1> HIDE DEF table
<1> QED BY <1>1, <1>2, <1>3, <1>4, <1>5, DialStep

-----------------------------------------------------------------------------

LEMMA MeshStep == MeshInv /\ [MeshNext]_meshVars => MeshInv'
<1> SUFFICES ASSUME MeshInv, [MeshNext]_meshVars PROVE MeshInv'
  OBVIOUS
<1>1. CASE \E i \in DOMAIN links : LinkTask(i)
  BY <1>1, TaskStep DEF LinkTask
<1>2. CASE \E i \in DOMAIN links : Break(i)
  BY <1>2, BreakStep
<1>3. CASE \E n \in Node : Handle(n)
  BY <1>3, ConnectedStep, DisconnectedStep DEF Handle
<1>4. CASE \E n \in Node : HeartbeatTick(n)
  BY <1>4, HeartbeatStep
<1>5. CASE \E n \in Node : Reconnect(n)
  BY <1>5, ReconnectStep
<1>6. CASE \E n \in Node : \E m \in Others(n) : PeerExchange(n, m)
  BY <1>6, ExchangeStep
<1>7. CASE UNCHANGED meshVars
  BY <1>7 DEF meshVars, MeshInv, LinksOK, EventsOK, PeersOK, ViewsOK, ViewsAgree, Connected
<1> QED BY <1>1, <1>2, <1>3, <1>4, <1>5, <1>6, <1>7 DEF MeshNext

\* Whatever connects, breaks, is dialled twice, dials itself or is declared dead,
\* and whenever timers fire: the tables are well-formed and the three views of a
\* node agree, but for the node itself when it was dialled (event_loop,
\* mesh/mod.rs).
THEOREM ViewsNeverPart == MeshSpec => []ViewsSound
<1>1. MeshInv => ViewsSound
  <2> SUFFICES ASSUME MeshInv PROVE MeshTypeOK
    BY DEF MeshInv, ViewsSound
  <2>1. /\ DOMAIN links \subseteq Link
        /\ \A i \in DOMAIN links :
             /\ links[i].dialler \in Node /\ links[i].acceptor \in Node
             /\ links[i].due \cup links[i].reading \cup links[i].writing \subseteq Side
    BY DEF MeshInv, LinksOK, LinkRecord
  <2>2. \A n \in Node :
          /\ DOMAIN known[n] \subseteq Others(n)
          /\ \A m \in DOMAIN known[n] : known[n][m].state \in States /\ known[n][m].missed \in 0..MaxMissed
          /\ DOMAIN writers[n] \subseteq Node /\ joined[n] \subseteq Node
    BY DEF MeshInv, PeersOK, ViewsOK, PeerRecord
  <2> QED BY <2>1, <2>2 DEF MeshTypeOK
<1> QED BY <1>1, MeshStart, MeshStep, PTL DEF MeshSpec
==============================================================================
