--------------------------- MODULE DatabaseProofs ---------------------------
(***************************************************************************)
(* Proofs about the MySQL connection pool and the transactions that run on *)
(* its connections (Database), for any number of threads, connections,     *)
(* jobs and faults.                                                        *)
(*                                                                         *)
(* PoolInv says where each connection is: once in the queue or held by one *)
(* call. SessionInv says what the server has on it: an open transaction    *)
(* belongs to the call that holds the connection first, contains what that *)
(* call has written so far, and is gone when the connection is lost.       *)
(* DurableInv says that a job's writes are durable together. None of them  *)
(* is inductive alone: a transaction stays whole because its connection is *)
(* not shared, and a connection is passed on clean because its transaction *)
(* was ended.                                                              *)
(***************************************************************************)
EXTENDS Database, TLAPS

-----------------------------------------------------------------------------
(* Database: who holds which connection, and what the server has on it      *)

Places == {"rest", "acquire", "ping", "begin", "write1", "write2", "commit", "rollback",
           "lookup", "release"}

DbTypeOK ==
    /\ idle \in Seq(Conns)
    /\ connected \in [Conns -> BOOLEAN] /\ alive \in [Conns -> BOOLEAN]
    /\ session \in [Conns -> [open : BOOLEAN, writes : SUBSET (Nat \X {1, 2})]]
    /\ thread \in [Threads -> [pc : Places, job : Nat, held : Seq(Conns)]]
    /\ jobs \in Nat

\* How many connections a call holds in each of its places
HeldAt(pc, n) ==
    /\ n \in 0 .. 2
    /\ pc = "rest" => n = 0
    /\ pc \in {"begin", "write1", "write2", "commit", "rollback"} => n = 1
    /\ pc = "acquire" => n < 2
    /\ pc \in {"ping", "release"} => n > 0
    /\ pc = "lookup" => n = 2

HeldInv == \A t \in Threads : HeldAt(thread[t].pc, Len(thread[t].held))

\* No connection is in two places, and none is lost
QueuedOnce == \A i, j \in 1 .. Len(idle) : idle[i] = idle[j] => i = j
HeldOrQueued ==
    \A t \in Threads : \A k \in 1 .. Len(thread[t].held), i \in 1 .. Len(idle) :
        idle[i] # thread[t].held[k]
HeldOnce ==
    \A t, u \in Threads : \A k \in 1 .. Len(thread[t].held), l \in 1 .. Len(thread[u].held) :
        thread[t].held[k] = thread[u].held[l] => t = u /\ k = l
NoneLost ==
    \A c \in Conns :
        \/ \E i \in 1 .. Len(idle) : idle[i] = c
        \/ \E t \in Threads : \E k \in 1 .. Len(thread[t].held) : thread[t].held[k] = c
PoolInv == QueuedOnce /\ HeldOrQueued /\ HeldOnce /\ NoneLost

\* Between BEGIN and the end of ~MySqlTransaction
InTransaction(t) ==
    \/ thread[t].pc \in {"write1", "write2", "commit", "rollback"}
    \/ thread[t].pc = "acquire" /\ Len(thread[t].held) = 1
    \/ thread[t].pc \in {"ping", "lookup", "release"} /\ Len(thread[t].held) = 2

Written(t) ==
    CASE thread[t].pc = "write1" -> {}
      [] thread[t].pc = "write2" -> {<<thread[t].job, 1>>}
      [] thread[t].pc = "commit" -> {<<thread[t].job, 1>>, <<thread[t].job, 2>>}

\* The server has a transaction only on a connection whose user is inside one, and
\* then with exactly what that user has written; a connection that was lost has none
SessionInv ==
    /\ \A c \in Conns : alive[c] => connected[c]
    /\ \A c \in Conns : ~alive[c] => session[c] = NoTx
    /\ \A c \in Conns : session[c] # NoTx => \E t \in Threads : InTransaction(t) /\ First(t) = c
    /\ \A t \in Threads :
           thread[t].pc \in {"write1", "write2", "commit"} /\ alive[First(t)] =>
               session[First(t)] = [open |-> TRUE, writes |-> Written(t)]

DurableInv == \A j \in Nat : <<j, 1>> \in durable <=> <<j, 2>> \in durable

DatabaseInv == DbTypeOK /\ HeldInv /\ PoolInv /\ SessionInv /\ DurableInv

-----------------------------------------------------------------------------
\* A step that moves no connection keeps them in their places.
LEMMA KeepStep ==
    ASSUME PoolInv, UNCHANGED idle, \A t \in Threads : thread'[t].held = thread[t].held
    PROVE  PoolInv'
<1>1. QueuedOnce'
    BY Zenon DEF PoolInv, QueuedOnce
<1>2. HeldOrQueued'
    BY DEF PoolInv, HeldOrQueued
<1>3. HeldOnce'
    <2>1. ASSUME NEW t \in Threads, NEW u \in Threads, NEW k \in 1 .. Len(thread'[t].held),
                 NEW l \in 1 .. Len(thread'[u].held), thread'[t].held[k] = thread'[u].held[l]
          PROVE  t = u /\ k = l
        <3>1. thread'[t].held = thread[t].held /\ thread'[u].held = thread[u].held
            BY Zenon
        <3> QED
            BY <2>1, <3>1 DEF PoolInv, HeldOnce
    <2> QED
        BY <2>1, Zenon DEF HeldOnce
<1>4. NoneLost'
    BY DEF PoolInv, NoneLost
<1> QED
    BY <1>1, <1>2, <1>3, <1>4, Zenon DEF PoolInv

\* The head of the queue becomes the last connection of a call.
LEMMA TakeIndexes ==
    ASSUME PoolInv, NEW t \in Threads, NEW m \in Nat, NEW n \in Nat,
           Len(idle) = m + 1, Len(thread[t].held) = n,
           Len(idle') = m, \A i \in 1 .. m : idle'[i] = idle[i + 1],
           Len(thread'[t].held) = n + 1, thread'[t].held[n + 1] = idle[1],
           \A k \in 1 .. n : thread'[t].held[k] = thread[t].held[k],
           \A u \in Threads \ {t} : thread'[u].held = thread[u].held
    PROVE  PoolInv'
<1> DEFINE New(w, i) == w = t /\ i = n + 1
<1>1. ASSUME NEW w \in Threads, NEW i \in 1 .. Len(thread'[w].held)
      PROVE  \/ New(w, i) /\ thread'[w].held[i] = idle[1]
             \/ /\ i \in 1 .. Len(thread[w].held) /\ thread'[w].held[i] = thread[w].held[i]
                /\ ~New(w, i)
    <2>1. CASE w = t
        <3>1. (i \in 1 .. n /\ i # n + 1) \/ i = n + 1
            BY <2>1
        <3> QED
            BY <2>1, <3>1, Zenon
    <2>2. CASE w # t
        BY <2>2, Zenon
    <2> QED
        BY <2>1, <2>2, Zenon
<1>2. \A i \in 1 .. m : i + 1 \in 1 .. Len(idle) /\ 1 \in 1 .. Len(idle) /\ i + 1 # 1
    OBVIOUS
<1>3. 1 \in 1 .. Len(idle)
    OBVIOUS
<1>4. QueuedOnce'
    <2>1. ASSUME NEW i \in 1 .. m, NEW j \in 1 .. m, idle'[i] = idle'[j]
          PROVE  i = j
        <3>1. i + 1 \in 1 .. Len(idle) /\ j + 1 \in 1 .. Len(idle) /\ idle[i + 1] = idle[j + 1]
            BY <1>2, <2>1, Zenon
        <3>2. i + 1 = j + 1
            BY <3>1, Zenon DEF PoolInv, QueuedOnce
        <3> QED
            BY <3>2
    <2> QED
        BY <2>1, Zenon DEF QueuedOnce
<1>5. \A i \in 1 .. m : idle'[i] # idle[1]
    BY <1>2 DEF PoolInv, QueuedOnce
<1>6. \A u \in Threads : \A k \in 1 .. Len(thread[u].held) : thread[u].held[k] # idle[1]
    BY <1>3 DEF PoolInv, HeldOrQueued
<1>7. ASSUME NEW u \in Threads, NEW k \in 1 .. Len(thread'[u].held), NEW i \in 1 .. Len(idle')
      PROVE  idle'[i] # thread'[u].held[k]
    <2>1. i \in 1 .. m /\ idle'[i] = idle[i + 1] /\ i + 1 \in 1 .. Len(idle)
        BY <1>2, Zenon
    <2>2. CASE New(u, k)
        BY <1>1, <1>5, <2>1, <2>2, Zenon
    <2>3. CASE ~New(u, k)
        <3>1. k \in 1 .. Len(thread[u].held) /\ thread'[u].held[k] = thread[u].held[k]
            BY <1>1, <2>3, Zenon
        <3> HIDE DEF New
        <3> QED
            BY <2>1, <3>1 DEF PoolInv, HeldOrQueued
    <2> QED
        BY <2>2, <2>3, Zenon
<1>8. ASSUME NEW u \in Threads, NEW v \in Threads, NEW k \in 1 .. Len(thread'[u].held),
             NEW l \in 1 .. Len(thread'[v].held), thread'[u].held[k] = thread'[v].held[l]
      PROVE  u = v /\ k = l
    <2>1. CASE New(u, k) /\ New(v, l)
        BY <2>1, Zenon
    <2>2. CASE ~New(u, k) /\ New(v, l)
        <3>1. thread'[v].held[l] = idle[1]
            BY <1>1, <2>2, Zenon
        <3>2. k \in 1 .. Len(thread[u].held) /\ thread'[u].held[k] = thread[u].held[k]
            BY <1>1, <2>2, Zenon
        <3>3. thread[u].held[k] # idle[1]
            BY <1>6, <3>2, Zenon
        <3> QED
            BY <1>8, <3>1, <3>2, <3>3, Zenon
    <2>3. CASE New(u, k) /\ ~New(v, l)
        <3>1. thread'[u].held[k] = idle[1]
            BY <1>1, <2>3, Zenon
        <3>2. l \in 1 .. Len(thread[v].held) /\ thread'[v].held[l] = thread[v].held[l]
            BY <1>1, <2>3, Zenon
        <3>3. thread[v].held[l] # idle[1]
            BY <1>6, <3>2, Zenon
        <3> QED
            BY <1>8, <3>1, <3>2, <3>3, Zenon
    <2>4. CASE ~New(u, k) /\ ~New(v, l)
        <3>1. /\ k \in 1 .. Len(thread[u].held) /\ thread'[u].held[k] = thread[u].held[k]
              /\ l \in 1 .. Len(thread[v].held) /\ thread'[v].held[l] = thread[v].held[l]
            BY <1>1, <2>4, Zenon
        <3>2. thread[u].held[k] = thread[v].held[l]
            BY <1>8, <3>1, Zenon
        <3> QED
            BY <3>1, <3>2 DEF PoolInv, HeldOnce
    <2> QED
        BY <2>1, <2>2, <2>3, <2>4, Zenon
<1>9. ASSUME NEW d \in Conns
      PROVE  \/ \E i \in 1 .. Len(idle') : idle'[i] = d
             \/ \E u \in Threads : \E k \in 1 .. Len(thread'[u].held) : thread'[u].held[k] = d
    <2>1. CASE d = idle[1]
        <3>1. n + 1 \in 1 .. Len(thread'[t].held)
            OBVIOUS
        <3> QED
            BY <2>1, <3>1, Zenon
    <2>2. ASSUME NEW i \in 1 .. Len(idle), idle[i] = d, d # idle[1]
          PROVE  \E j \in 1 .. Len(idle') : idle'[j] = d
        <3>1. i - 1 \in 1 .. m /\ (i - 1) + 1 = i
            BY <2>2
        <3> QED
            BY <2>2, <3>1, Zenon
    <2>3. ASSUME NEW u \in Threads, NEW k \in 1 .. Len(thread[u].held), thread[u].held[k] = d
          PROVE  k \in 1 .. Len(thread'[u].held) /\ thread'[u].held[k] = d
        <3>1. CASE u = t
            <4>1. k \in 1 .. n /\ k \in 1 .. n + 1
                BY <3>1
            <4> QED
                BY <2>3, <3>1, <4>1, Zenon
        <3>2. CASE u # t
            BY <2>3, <3>2, Zenon
        <3> QED
            BY <3>1, <3>2, Zenon
    <2>4. CASE \E i \in 1 .. Len(idle) : idle[i] = d
        BY <2>1, <2>2, <2>4, Zenon
    <2>5. CASE \E u \in Threads : \E k \in 1 .. Len(thread[u].held) : thread[u].held[k] = d
        BY <2>3, <2>5, Zenon
    <2> QED
        BY <2>4, <2>5, Zenon DEF PoolInv, NoneLost
<1> QED
    BY <1>4, <1>7, <1>8, <1>9, Zenon DEF PoolInv, HeldOrQueued, HeldOnce, NoneLost

\* The connection that is idle longest may be taken from the queue.
LEMMA TakeStep ==
    ASSUME DbTypeOK, PoolInv, NEW t \in Threads, idle # <<>>, idle' = Tail(idle),
           thread'[t].held = Append(thread[t].held, Head(idle)),
           \A u \in Threads \ {t} : thread'[u].held = thread[u].held
    PROVE  PoolInv'
<1> DEFINE h == thread[t].held
           n == Len(h)
           m == Len(idle) - 1
<1>1. /\ n \in Nat /\ m \in Nat /\ h \in Seq(Conns) /\ Head(idle) = idle[1] /\ idle[1] \in Conns
      /\ Len(idle) = m + 1
    BY DEF DbTypeOK
<1>2. Len(idle') = m /\ \A i \in 1 .. m : idle'[i] = idle[i + 1]
    BY <1>1 DEF DbTypeOK
<1>3. /\ Len(thread'[t].held) = n + 1 /\ thread'[t].held[n + 1] = idle[1]
      /\ \A k \in 1 .. n : thread'[t].held[k] = h[k]
    BY <1>1
<1>4. Len(thread[t].held) = n
    BY Zenon
<1> HIDE DEF n, m
<1> QED
    BY <1>1, <1>2, <1>3, <1>4, TakeIndexes, Zenon

\* The last connection of a call becomes the end of the queue.
LEMMA GiveIndexes ==
    ASSUME PoolInv, NEW t \in Threads, NEW m \in Nat, NEW n \in Nat,
           Len(idle) = m, Len(thread[t].held) = n + 1,
           Len(idle') = m + 1, idle'[m + 1] = thread[t].held[n + 1],
           \A i \in 1 .. m : idle'[i] = idle[i],
           Len(thread'[t].held) = n,
           \A k \in 1 .. n : thread'[t].held[k] = thread[t].held[k],
           \A u \in Threads \ {t} : thread'[u].held = thread[u].held
    PROVE  PoolInv'
<1> DEFINE c == thread[t].held[n + 1]
<1>1. n + 1 \in 1 .. Len(thread[t].held)
    OBVIOUS
<1>2. \A i \in 1 .. m : idle[i] # c
    BY <1>1, Zenon DEF PoolInv, HeldOrQueued
<1>3. ASSUME NEW u \in Threads, NEW k \in 1 .. Len(thread'[u].held)
      PROVE  /\ k \in 1 .. Len(thread[u].held) /\ thread'[u].held[k] = thread[u].held[k]
             /\ thread[u].held[k] # c
    <2>1. CASE u = t
        <3>1. k \in 1 .. n /\ k \in 1 .. Len(thread[t].held) /\ k # n + 1
            BY <2>1
        <3>2. thread[t].held[k] # c
            BY <1>1, <3>1 DEF PoolInv, HeldOnce
        <3> QED
            BY <2>1, <3>1, <3>2, Zenon
    <2>2. CASE u # t
        <3>1. k \in 1 .. Len(thread[u].held) /\ thread'[u].held = thread[u].held
            BY <2>2, Zenon
        <3>2. thread[u].held[k] # c
            BY <1>1, <2>2, <3>1, Zenon DEF PoolInv, HeldOnce
        <3> QED
            BY <3>1, <3>2, Zenon
    <2> QED
        BY <2>1, <2>2, Zenon
<1> HIDE DEF c
<1>4. QueuedOnce'
    <2>1. ASSUME NEW i \in 1 .. Len(idle'), NEW j \in 1 .. Len(idle'), idle'[i] = idle'[j]
          PROVE  i = j
        <3>1. (i \in 1 .. m \/ i = m + 1) /\ (j \in 1 .. m \/ j = m + 1)
            OBVIOUS
        <3> QED
            BY <1>2, <2>1, <3>1 DEF PoolInv, QueuedOnce, c
    <2> QED
        BY <2>1, Zenon DEF QueuedOnce
<1>5. ASSUME NEW u \in Threads, NEW k \in 1 .. Len(thread'[u].held), NEW i \in 1 .. Len(idle')
      PROVE  idle'[i] # thread'[u].held[k]
    <2>1. /\ k \in 1 .. Len(thread[u].held) /\ thread'[u].held[k] = thread[u].held[k]
          /\ thread[u].held[k] # c
        BY <1>3, Zenon
    <2>2. CASE i \in 1 .. m
        BY <2>1, <2>2 DEF PoolInv, HeldOrQueued
    <2>3. CASE i = m + 1
        BY <2>1, <2>3, Zenon DEF c
    <2> QED
        BY <2>2, <2>3
<1>6. ASSUME NEW u \in Threads, NEW v \in Threads, NEW k \in 1 .. Len(thread'[u].held),
             NEW l \in 1 .. Len(thread'[v].held), thread'[u].held[k] = thread'[v].held[l]
      PROVE  u = v /\ k = l
    <2>1. k \in 1 .. Len(thread[u].held) /\ thread'[u].held[k] = thread[u].held[k]
        BY <1>3, Zenon
    <2>2. l \in 1 .. Len(thread[v].held) /\ thread'[v].held[l] = thread[v].held[l]
        BY <1>3, Zenon
    <2>3. thread[u].held[k] = thread[v].held[l]
        BY <1>6, <2>1, <2>2, Zenon
    <2> QED
        BY <2>1, <2>2, <2>3 DEF PoolInv, HeldOnce
<1>7. ASSUME NEW d \in Conns
      PROVE  \/ \E i \in 1 .. Len(idle') : idle'[i] = d
             \/ \E u \in Threads : \E k \in 1 .. Len(thread'[u].held) : thread'[u].held[k] = d
    <2>1. CASE d = c
        <3>1. m + 1 \in 1 .. Len(idle')
            OBVIOUS
        <3> QED
            BY <2>1, <3>1, Zenon DEF c
    <2>2. ASSUME NEW i \in 1 .. Len(idle), idle[i] = d
          PROVE  i \in 1 .. Len(idle') /\ idle'[i] = d
        BY <2>2
    <2>3. ASSUME NEW u \in Threads, NEW k \in 1 .. Len(thread[u].held), thread[u].held[k] = d, d # c
          PROVE  k \in 1 .. Len(thread'[u].held) /\ thread'[u].held[k] = d
        <3>1. CASE u = t
            <4>1. k \in 1 .. n
                BY <2>3, <3>1 DEF c
            <4> QED
                BY <2>3, <3>1, <4>1, Zenon
        <3>2. CASE u # t
            BY <2>3, <3>2, Zenon
        <3> QED
            BY <3>1, <3>2, Zenon
    <2> QED
        BY <2>1, <2>2, <2>3, Zenon DEF PoolInv, NoneLost
<1> QED
    BY <1>4, <1>5, <1>6, <1>7, Zenon DEF PoolInv, HeldOrQueued, HeldOnce, NoneLost

\* The last connection of a call may be put at the end of the queue.
LEMMA GiveStep ==
    ASSUME DbTypeOK, PoolInv, NEW t \in Threads, Len(thread[t].held) > 0,
           idle' = Append(idle, Conn(t)),
           thread'[t].held = SubSeq(thread[t].held, 1, Len(thread[t].held) - 1),
           \A u \in Threads \ {t} : thread'[u].held = thread[u].held
    PROVE  PoolInv'
<1> DEFINE h == thread[t].held
           n == Len(h) - 1
           m == Len(idle)
<1>1. /\ n \in Nat /\ m \in Nat /\ h \in Seq(Conns) /\ Conn(t) = h[n + 1] /\ Conn(t) \in Conns
      /\ Len(h) = n + 1
    BY DEF DbTypeOK, Conn
<1>2. Len(idle') = m + 1 /\ idle'[m + 1] = h[n + 1] /\ \A i \in 1 .. m : idle'[i] = idle[i]
    BY <1>1 DEF DbTypeOK
<1>3. Len(thread'[t].held) = n /\ \A k \in 1 .. n : thread'[t].held[k] = h[k]
    BY <1>1
<1>4. Len(idle) = m
    BY Zenon
<1> HIDE DEF n, m
<1> QED
    BY <1>1, <1>2, <1>3, <1>4, GiveIndexes, Zenon

-----------------------------------------------------------------------------
\* A call that goes on keeps its job and its connections, and no other call moves.
LEMMA GoFacts ==
    ASSUME DbTypeOK, NEW t \in Threads, NEW place \in Places, go(t, place)
    PROVE  /\ thread' \in [Threads -> [pc : Places, job : Nat, held : Seq(Conns)]]
           /\ thread'[t].pc = place /\ thread'[t].job = thread[t].job
           /\ thread'[t].held = thread[t].held
           /\ \A u \in Threads \ {t} : thread'[u] = thread[u]
BY Zenon DEF DbTypeOK, go

\* Two calls never use the same connection.
LEMMA Exclusive ==
    ASSUME DbTypeOK, PoolInv, NEW t \in Threads, NEW u \in Threads, t # u,
           Len(thread[t].held) > 0, Len(thread[u].held) > 0
    PROVE  First(u) # First(t) /\ First(u) # Conn(t)
<1>1. Len(thread[t].held) \in Nat /\ Len(thread[u].held) \in Nat
    BY DEF DbTypeOK
<1>2. 1 \in 1 .. Len(thread[u].held) /\ 1 \in 1 .. Len(thread[t].held)
      /\ Len(thread[t].held) \in 1 .. Len(thread[t].held)
    BY <1>1
<1>3. \A k \in 1 .. Len(thread[u].held), l \in 1 .. Len(thread[t].held) :
          thread[u].held[k] # thread[t].held[l]
    BY Zenon DEF PoolInv, HeldOnce
<1> QED
    BY <1>2, <1>3, Zenon DEF First, Conn

Writing == {"write1", "write2", "commit"}

\* A step of call t that changes nothing at the server keeps the transactions what
\* they are.
LEMMA QuietStep ==
    ASSUME DatabaseInv, NEW t \in Threads,
           UNCHANGED session, \A u \in Threads \ {t} : thread'[u] = thread[u],
           thread'[t].pc \notin Writing,
           InTransaction(t) => \/ ~alive[First(t)]
                               \/ InTransaction(t)' /\ First(t)' = First(t),
           \A c \in Conns : alive'[c] => connected'[c],
           \A c \in Conns : ~alive'[c] => ~alive[c],
           \A u \in Threads \ {t} : thread[u].pc \in Writing => alive'[First(u)] = alive[First(u)]
    PROVE  SessionInv'
<1> USE DEF DatabaseInv, Writing
<1>1. SessionInv!1'
    BY Zenon DEF SessionInv
<1>2. SessionInv!2'
    BY Zenon DEF SessionInv
<1>3. ASSUME NEW c \in Conns, session'[c] # NoTx
      PROVE  \E u \in Threads : InTransaction(u)' /\ First(u)' = c
    <2>1. session[c] # NoTx
        BY <1>3, Zenon
    <2>2. PICK u \in Threads : InTransaction(u) /\ First(u) = c
        BY <2>1, Zenon DEF SessionInv
    <2>3. CASE u = t
        BY <2>1, <2>2, <2>3, Zenon DEF SessionInv
    <2>4. CASE u # t
        BY <2>2, <2>4, Zenon DEF InTransaction, First
    <2> QED
        BY <2>3, <2>4, Zenon
<1>4. ASSUME NEW u \in Threads, thread'[u].pc \in Writing, alive'[First(u)']
      PROVE  session'[First(u)'] = [open |-> TRUE, writes |-> Written(u)']
    <2>1. u # t /\ thread'[u] = thread[u] /\ First(u)' = First(u) /\ Written(u)' = Written(u)
        BY <1>4, Zenon DEF First, Written
    <2>2. alive[First(u)]
        BY <1>4, <2>1, Zenon
    <2> QED
        BY <1>4, <2>1, <2>2, Zenon DEF SessionInv
<1> QED
    BY <1>1, <1>2, <1>3, <1>4, Zenon DEF SessionInv

\* A statement of call t changes what the server has on t's connection to s.
LEMMA EffectStep ==
    ASSUME DatabaseInv, NEW t \in Threads, Len(thread[t].held) = 1,
           NEW s, \A c \in Conns : session'[c] = IF c = First(t) THEN s ELSE session[c],
           \A u \in Threads \ {t} : thread'[u] = thread[u],
           First(t)' = First(t),
           s # NoTx => InTransaction(t)',
           thread'[t].pc \in Writing => s = [open |-> TRUE, writes |-> Written(t)'],
           \A c \in Conns : alive'[c] => connected'[c],
           \A c \in Conns \ {First(t)} : alive'[c] = alive[c],
           ~alive'[First(t)] => s = NoTx
    PROVE  SessionInv'
<1>0. DbTypeOK /\ HeldInv /\ PoolInv /\ SessionInv
    BY Zenon DEF DatabaseInv
<1> USE DEF Writing
<1>1. SessionInv!1'
    BY <1>0, Zenon DEF SessionInv
<1>2. \A c \in Conns : session'[c] = IF c = First(t) THEN s ELSE session[c]
    BY Zenon
<1>3. First(t) \in Conns
    BY <1>0 DEF DbTypeOK, First
<1>4. SessionInv!2'
    BY <1>0, <1>2 DEF SessionInv
<1>5. ASSUME NEW c \in Conns, session'[c] # NoTx
      PROVE  \E u \in Threads : InTransaction(u)' /\ First(u)' = c
    <2>1. CASE c = First(t)
        BY <1>2, <1>5, <2>1, Zenon
    <2>2. CASE c # First(t)
        <3>1. PICK u \in Threads : InTransaction(u) /\ First(u) = c
            BY <1>0, <1>2, <1>5, <2>2, Zenon DEF SessionInv
        <3> QED
            BY <2>2, <3>1 DEF InTransaction, First
    <2> QED
        BY <2>1, <2>2, Zenon
<1>6. ASSUME NEW u \in Threads, thread'[u].pc \in Writing, alive'[First(u)']
      PROVE  session'[First(u)'] = [open |-> TRUE, writes |-> Written(u)']
    <2>1. CASE u = t
        BY <1>2, <1>3, <1>6, <2>1, Zenon
    <2>2. CASE u # t
        <3>1. thread'[u] = thread[u] /\ First(u)' = First(u) /\ Written(u)' = Written(u)
            BY <2>2, Zenon DEF First, Written
        <3>2. Len(thread[u].held) = 1
            BY <1>0, <1>6, <3>1 DEF HeldInv, HeldAt
        <3>3. First(u) # First(t) /\ First(u) \in Conns
            <4>1. First(u) # First(t)
                <5>1. Len(thread[t].held) > 0 /\ Len(thread[u].held) > 0
                    BY <3>2
                <5> QED
                    BY <1>0, <2>2, <5>1, Exclusive, Zenon
            <4> QED
                BY <1>0, <3>2, <4>1 DEF DbTypeOK, First
        <3>4. session'[First(u)] = session[First(u)] /\ alive'[First(u)] = alive[First(u)]
            BY <1>2, <3>3, Zenon
        <3> QED
            BY <1>0, <1>6, <3>1, <3>4 DEF SessionInv
    <2> QED
        BY <2>1, <2>2, Zenon
<1> QED
    BY <1>1, <1>4, <1>5, <1>6, Zenon DEF SessionInv

-----------------------------------------------------------------------------
(* Statements                                                               *)

Statements == {"begin", "write1", "write2", "commit", "rollback"}
Sessions == [open : BOOLEAN, writes : SUBSET (Nat \X {1, 2})]

\* A statement runs on the one connection that the call holds, and moves none.
LEMMA StatementShape ==
    ASSUME DatabaseInv, NEW t \in Threads, thread[t].pc \in Statements,
           NEW place \in {"write1", "write2", "commit", "release", "rollback", "acquire"},
           go(t, place), UNCHANGED <<idle, jobs>>, session' \in [Conns -> Sessions],
           connected' \in [Conns -> BOOLEAN], alive' \in [Conns -> BOOLEAN]
    PROVE  /\ DbTypeOK' /\ HeldInv' /\ PoolInv'
           /\ Len(thread[t].held) = 1 /\ Len(thread'[t].held) = 1 /\ First(t)' = First(t)
           /\ First(t) \in Conns /\ thread'[t].pc = place /\ thread'[t].job = thread[t].job
           /\ \A u \in Threads \ {t} : thread'[u] = thread[u]
<1>1. Len(thread[t].held) = 1
    BY Zenon DEF DatabaseInv, HeldInv, HeldAt, Statements
<1>2. /\ thread' \in [Threads -> [pc : Places, job : Nat, held : Seq(Conns)]]
      /\ thread'[t].pc = place /\ thread'[t].job = thread[t].job
      /\ thread'[t].held = thread[t].held
      /\ \A u \in Threads \ {t} : thread'[u] = thread[u]
    <2>1. place \in Places
        BY Zenon DEF Places
    <2> QED
        BY <2>1, GoFacts, Zenon DEF DatabaseInv
<1>3. DbTypeOK'
    BY <1>2, Zenon DEF DatabaseInv, DbTypeOK, Sessions
<1>4. HeldInv'
    <2>1. Len(thread'[t].held) = 1 /\ thread'[t].pc = place
        BY <1>1, <1>2, Zenon
    <2>2. HeldAt(thread'[t].pc, Len(thread'[t].held))
        BY <2>1 DEF HeldAt
    <2> QED
        BY <1>2, <2>2, Zenon DEF DatabaseInv, HeldInv
<1>5. PoolInv'
    BY <1>2, KeepStep, Zenon DEF DatabaseInv
<1>6. First(t)' = First(t) /\ First(t) \in Conns
    BY <1>1, <1>2 DEF First, DatabaseInv, DbTypeOK
<1> QED
    BY <1>1, <1>2, <1>3, <1>4, <1>5, <1>6, Zenon

\* A statement that failed without effect leaves the server as it is.
LEMMA FailedStatement ==
    ASSUME DatabaseInv, NEW t \in Threads, thread[t].pc \in Statements,
           NEW failed \in {"release", "rollback", "acquire"}, go(t, failed),
           thread[t].pc = "rollback" => ~alive[First(t)],
           thread[t].pc \in Writing => failed # "release",
           UNCHANGED <<idle, jobs, alive, session, durable>>,
           connected' \in [Conns -> BOOLEAN],
           \A c \in Conns : alive[c] => connected'[c]
    PROVE  DatabaseInv'
<1>1. /\ DbTypeOK' /\ HeldInv' /\ PoolInv'
      /\ Len(thread[t].held) = 1 /\ Len(thread'[t].held) = 1 /\ First(t)' = First(t)
      /\ First(t) \in Conns /\ thread'[t].pc = failed
      /\ \A u \in Threads \ {t} : thread'[u] = thread[u]
    BY StatementShape, Zenon DEF DatabaseInv, DbTypeOK, Sessions
<1>2. InTransaction(t) => ~alive[First(t)] \/ InTransaction(t)'
    BY <1>1, Zenon DEF InTransaction, Writing, Statements
<1>3. SessionInv'
    BY <1>1, <1>2, QuietStep, Zenon DEF Writing
<1>4. DurableInv'
    BY Zenon DEF DatabaseInv, DurableInv
<1> QED
    BY <1>1, <1>3, <1>4, Zenon DEF DatabaseInv

\* A statement that was executed takes the transaction one step on.
LEMMA ExecutedStatement ==
    ASSUME DatabaseInv, NEW t \in Threads, NEW what \in Statements, thread[t].pc = what,
           NEW place \in {"write1", "write2", "commit", "release", "rollback"}, go(t, place),
           what = "begin" => place = "write1", what = "write1" => place = "write2",
           what = "write2" => place = "commit", what = "commit" => place \in {"release", "rollback"},
           what = "rollback" => place = "release",
           alive[First(t)], Effect(t, what), UNCHANGED <<idle, jobs>>,
           connected' \in [Conns -> BOOLEAN], alive' \in [Conns -> BOOLEAN],
           \A c \in Conns : alive'[c] => connected'[c],
           \A c \in Conns \ {First(t)} : alive'[c] = alive[c],
           what # "commit" => alive'[First(t)]
    PROVE  DatabaseInv'
<1> DEFINE c == First(t)
           j == thread[t].job
<1>1. Len(thread[t].held) = 1 /\ c \in Conns /\ j \in Nat
    <2>1. Len(thread[t].held) = 1
        BY Zenon DEF DatabaseInv, HeldInv, HeldAt, Statements
    <2> QED
        BY <2>1 DEF DatabaseInv, DbTypeOK, First
<1>2. thread'[t].pc = place /\ thread'[t].job = j
    BY GoFacts DEF DatabaseInv, Places
<1>3. ASSUME NEW s, session' \in [Conns -> Sessions], DurableInv',
             \A d \in Conns : session'[d] = IF d = c THEN s ELSE session[d],
             s # NoTx => place \in Writing,
             place \in Writing => s = [open |-> TRUE, writes |-> Written(t)'],
             ~alive'[c] => s = NoTx
      PROVE  DatabaseInv'
    <2>2. /\ DbTypeOK' /\ HeldInv' /\ PoolInv' /\ First(t)' = First(t)
          /\ Len(thread'[t].held) = 1 /\ \A u \in Threads \ {t} : thread'[u] = thread[u]
        BY <1>3, StatementShape
    <2>3. s # NoTx => InTransaction(t)'
        BY <1>2, <1>3, Zenon DEF InTransaction, Writing
    <2>4. thread'[t].pc \in Writing => s = [open |-> TRUE, writes |-> Written(t)']
        BY <1>2, <1>3, Zenon
    <2>5. SessionInv'
        BY <1>1, <1>3, <2>2, <2>3, <2>4, EffectStep, Zenon
    <2> QED
        BY <1>3, <2>2, <2>5, Zenon DEF DatabaseInv
<1>4. CASE what = "begin"
    <2>1. session[c] = NoTx
        <3>1. SUFFICES ASSUME session[c] # NoTx PROVE FALSE
            BY Zenon
        <3>2. PICK u \in Threads : InTransaction(u) /\ First(u) = c
            BY <1>1, <3>1, Zenon DEF DatabaseInv, SessionInv
        <3>3. u # t
            BY <1>1, <1>4, <3>2, Zenon DEF InTransaction
        <3>4. Len(thread[u].held) > 0
            BY <3>2 DEF InTransaction, DatabaseInv, HeldInv, HeldAt
        <3> QED
            <4>1. DbTypeOK /\ PoolInv /\ Len(thread[t].held) > 0
                BY <1>1 DEF DatabaseInv
            <4> QED
                BY <3>2, <3>3, <3>4, <4>1, Exclusive, Zenon
    <2>2. session[c].writes = {}
        BY <2>1 DEF NoTx
    <2>6. [open |-> TRUE, writes |-> {}] \in Sessions
        BY Zenon DEF Sessions
    <2>3. /\ session' = [session EXCEPT ![c] = [open |-> TRUE, writes |-> {}]]
          /\ durable' = durable
        BY <1>4, <2>2, Zenon DEF Effect
    <2>7. /\ session' \in [Conns -> Sessions]
          /\ \A d \in Conns : session'[d] = IF d = c THEN [open |-> TRUE, writes |-> {}] ELSE session[d]
        BY <1>1, <2>3, <2>6, Zenon DEF DatabaseInv, DbTypeOK, Sessions
    <2>4. DurableInv'
        BY <2>3, Zenon DEF DatabaseInv, DurableInv
    <2>5. Written(t)' = {} /\ place = "write1"
        BY <1>2, <1>4, Zenon DEF Written
    <2> QED
        BY <1>3, <1>4, <2>4, <2>5, <2>7, Zenon DEF Writing
<1>5. CASE what = "write1"
    <2>1. session[c] = [open |-> TRUE, writes |-> {}]
        BY <1>1, <1>5, Zenon DEF DatabaseInv, SessionInv, Written
    <2>7. session[c].open = TRUE /\ session[c].writes = {}
        BY <2>1
    <2>2. session' = [session EXCEPT ![c].writes = @ \cup {<<j, 1>>}] /\ durable' = durable
        BY <1>5, <2>7, Zenon DEF Effect
    <2>8. session \in [Conns -> Sessions]
        BY Zenon DEF DatabaseInv, DbTypeOK, Sessions
    <2>3. /\ session' \in [Conns -> Sessions] 
          /\ session'[c].open = TRUE /\ session'[c].writes = {<<j, 1>>}
          /\ \A d \in Conns \ {c} : session'[d] = session[d]
        <3>1. {<<j, 1>>} \in SUBSET (Nat \X {1, 2}) /\ session[c].writes \cup {<<j, 1>>} = {<<j, 1>>}
            BY <1>1, <2>7
        <3>2. session' \in [Conns -> Sessions]
            BY <1>1, <2>2, <2>8, <3>1 DEF Sessions
        <3> QED
            BY <1>1, <2>2, <2>7, <2>8, <3>1, <3>2 DEF Sessions
    <2>4. DurableInv'
        BY <2>2, Zenon DEF DatabaseInv, DurableInv
    <2>5. Written(t)' = {<<j, 1>>} /\ place = "write2"
        BY <1>2, <1>5, Zenon DEF Written
    <2>6. session'[c] = [open |-> TRUE, writes |-> {<<j, 1>>}]
        BY <1>1, <2>3, Zenon DEF Sessions
    <2> QED
        BY <1>3, <1>5, <2>3, <2>4, <2>5, <2>6, Zenon DEF Writing
<1>6. CASE what = "write2"
    <2>1. session[c] = [open |-> TRUE, writes |-> {<<j, 1>>}]
        BY <1>1, <1>6, Zenon DEF DatabaseInv, SessionInv, Written
    <2>7. session[c].open = TRUE /\ session[c].writes = {<<j, 1>>}
        BY <2>1
    <2>2. session' = [session EXCEPT ![c].writes = @ \cup {<<j, 2>>}] /\ durable' = durable
        BY <1>6, <2>7, Zenon DEF Effect
    <2>8. session \in [Conns -> Sessions]
        BY Zenon DEF DatabaseInv, DbTypeOK, Sessions
    <2>3. /\ session' \in [Conns -> Sessions] 
          /\ session'[c].open = TRUE /\ session'[c].writes = {<<j, 1>>, <<j, 2>>}
          /\ \A d \in Conns \ {c} : session'[d] = session[d]
        <3>1. {<<j, 1>>, <<j, 2>>} \in SUBSET (Nat \X {1, 2}) /\ session[c].writes \cup {<<j, 2>>} = {<<j, 1>>, <<j, 2>>}
            BY <1>1, <2>7
        <3>2. session' \in [Conns -> Sessions]
            BY <1>1, <2>2, <2>8, <3>1 DEF Sessions
        <3> QED
            BY <1>1, <2>2, <2>7, <2>8, <3>1, <3>2, Zenon DEF Sessions
    <2>4. DurableInv'
        BY <2>2, Zenon DEF DatabaseInv, DurableInv
    <2>5. Written(t)' = {<<j, 1>>, <<j, 2>>} /\ place = "commit"
        BY <1>2, <1>6 DEF Written
    <2>6. session'[c] = [open |-> TRUE, writes |-> {<<j, 1>>, <<j, 2>>}]
        BY <1>1, <2>3, Zenon DEF Sessions
    <2> QED
        BY <1>3, <1>6, <2>3, <2>4, <2>5, <2>6, Zenon DEF Writing
<1>7. NoTx \in Sessions
    BY Zenon DEF NoTx, Sessions
<1>8. CASE what = "commit"
    <2>1. session[c] = [open |-> TRUE, writes |-> {<<j, 1>>, <<j, 2>>}]
        BY <1>1, <1>8 DEF DatabaseInv, SessionInv, Written
    <2>2. session' = [session EXCEPT ![c] = NoTx] /\ durable' = durable \cup {<<j, 1>>, <<j, 2>>}
        BY <1>8, <2>1 DEF Effect
    <2>3. DurableInv'
        BY <2>2, Zenon DEF DatabaseInv, DurableInv
    <2>4. place \notin Writing
        BY <1>8, Zenon DEF Writing
    <2>5. /\ session' \in [Conns -> Sessions]
          /\ \A d \in Conns : session'[d] = IF d = c THEN NoTx ELSE session[d]
        BY <1>1, <1>7, <2>2, Zenon DEF DatabaseInv, DbTypeOK, Sessions
    <2> QED
        BY <1>3, <1>8, <2>3, <2>4, <2>5, Zenon
<1>9. CASE what = "rollback"
    <2>1. session' = [session EXCEPT ![c] = NoTx] /\ durable' = durable
        BY <1>9, Zenon DEF Effect
    <2>2. DurableInv'
        BY <2>1, Zenon DEF DatabaseInv, DurableInv
    <2>3. place \notin Writing
        BY <1>9, Zenon DEF Writing
    <2>4. /\ session' \in [Conns -> Sessions]
          /\ \A d \in Conns : session'[d] = IF d = c THEN NoTx ELSE session[d]
        BY <1>1, <1>7, <2>1, Zenon DEF DatabaseInv, DbTypeOK, Sessions
    <2> QED
        BY <1>3, <1>9, <2>2, <2>3, <2>4, Zenon
<1> QED
    BY <1>4, <1>5, <1>6, <1>8, <1>9, Zenon DEF Statements

\* executeUpdate, however it ends.
LEMMA UpdateStep ==
    ASSUME DatabaseInv, NEW t \in Threads, NEW what \in Statements,
           NEW ok \in {"write1", "write2", "commit", "release"},
           NEW failed \in {"release", "rollback", "acquire"},
           what = "begin" => ok = "write1" /\ failed = "release",
           what = "write1" => ok = "write2" /\ failed # "release",
           what = "write2" => ok = "commit" /\ failed = "rollback",
           what = "commit" => ok = "release" /\ failed = "rollback",
           what = "rollback" => ok = "release" /\ failed = "release",
           executeUpdate(t, what, ok, failed)
    PROVE  DatabaseInv'
<1> DEFINE c == First(t)
<1>0. DbTypeOK /\ SessionInv
    BY Zenon DEF DatabaseInv
<1>1. c \in Conns /\ thread[t].pc = what
    <2>1. thread[t].pc = what
        BY Zenon DEF executeUpdate
    <2>2. Len(thread[t].held) = 1
        BY <2>1, Zenon DEF DatabaseInv, HeldInv, HeldAt, Statements
    <2> QED
        BY <1>0, <2>1, <2>2 DEF DbTypeOK, First
<1>2. connected \in [Conns -> BOOLEAN] /\ alive \in [Conns -> BOOLEAN] /\ \A d \in Conns : alive[d] => connected[d]
    BY <1>0, Zenon DEF DbTypeOK, SessionInv
<1>3. UNCHANGED <<idle, jobs>>
    BY Zenon DEF executeUpdate
<1>4. what \in Writing => failed # "release"
    BY Zenon DEF Writing
<1>5. CASE ~alive[c] /\ go(t, failed) /\ UNCHANGED <<alive, mysqld>>
           /\ (UNCHANGED connected \/ close(c))
    <2>1. connected' \in [Conns -> BOOLEAN] /\ \A d \in Conns : alive[d] => connected'[d]
        BY <1>1, <1>2, <1>5, Zenon DEF close
    <2> QED
        BY <1>1, <1>3, <1>4, <1>5, <2>1, FailedStatement, Zenon DEF mysqld
<1>6. CASE what # "rollback" /\ go(t, failed) /\ UNCHANGED <<connected, alive, mysqld>>
    BY <1>1, <1>2, <1>3, <1>4, <1>6, FailedStatement, Zenon DEF mysqld
<1>7. CASE alive[c] /\ Effect(t, what) /\ go(t, ok) /\ UNCHANGED <<connected, alive>>
    BY <1>1, <1>2, <1>3, <1>7, ExecutedStatement, Zenon DEF Statements
<1>8. CASE /\ alive[c] /\ what = "commit" /\ Effect(t, what) /\ close(c)
           /\ alive' = [alive EXCEPT ![c] = FALSE] /\ go(t, failed)
    <2>1. /\ connected' \in [Conns -> BOOLEAN] /\ alive' \in [Conns -> BOOLEAN]
          /\ \A d \in Conns : alive'[d] => connected'[d]
          /\ \A d \in Conns \ {c} : alive'[d] = alive[d]
        BY <1>1, <1>2, <1>8, Zenon DEF close
    <2> QED
        BY <1>1, <1>3, <1>8, <2>1, ExecutedStatement, Zenon DEF Statements
<1> QED
    BY <1>1, <1>2, <1>5, <1>6, <1>7, <1>8, Zenon DEF executeUpdate

-----------------------------------------------------------------------------
(* The pool                                                                 *)

ThreadType == [Threads -> [pc : Places, job : Nat, held : Seq(Conns)]]

\* A call that takes a connection, returns one or goes on outside its statements.
LEMMA PoolShape ==
    ASSUME DatabaseInv, NEW t \in Threads,
           thread' \in ThreadType, \A u \in Threads \ {t} : thread'[u] = thread[u],
           idle' \in Seq(Conns), connected' \in [Conns -> BOOLEAN], alive' \in [Conns -> BOOLEAN],
           jobs' \in Nat, UNCHANGED session,
           HeldAt(thread'[t].pc, Len(thread'[t].held))
    PROVE  DbTypeOK' /\ HeldInv'
<1>1. DbTypeOK'
    BY Zenon DEF DatabaseInv, DbTypeOK, ThreadType
<1>2. HeldInv'
    BY Zenon DEF DatabaseInv, HeldInv
<1> QED
    BY <1>1, <1>2, Zenon

\* A thread that starts a call holds nothing yet (request).
LEMMA RequestStep == ASSUME DatabaseInv, NEW t \in Threads, request(t) PROVE DatabaseInv'
<1>0. DbTypeOK /\ HeldInv /\ PoolInv /\ SessionInv /\ DurableInv
    BY Zenon DEF DatabaseInv
<1>1. Len(thread[t].held) = 0 /\ thread[t].held = <<>> /\ thread[t].pc = "rest"
    <2>1. thread[t].pc = "rest" /\ thread[t].held \in Seq(Conns)
        BY <1>0, Zenon DEF request, DbTypeOK
    <2>2. Len(thread[t].held) = 0
        BY <1>0, <2>1, Zenon DEF HeldInv, HeldAt
    <2> QED
        BY <2>1, <2>2
<1>2. /\ thread' \in ThreadType /\ thread'[t].pc = "acquire" /\ thread'[t].held = <<>>
      /\ \A u \in Threads \ {t} : thread'[u] = thread[u]
    BY <1>0 DEF request, DbTypeOK, ThreadType, Places
<1>3. UNCHANGED <<idle, connected, alive, session, durable>> /\ jobs' \in Nat
    BY <1>0 DEF request, DbTypeOK, mysqld
<1>4. DbTypeOK' /\ HeldInv'
    <2>1. HeldAt(thread'[t].pc, Len(thread'[t].held))
        BY <1>2 DEF HeldAt
    <2>2. idle' \in Seq(Conns) /\ connected' \in [Conns -> BOOLEAN] /\ alive' \in [Conns -> BOOLEAN]
        BY <1>0, <1>3, Zenon DEF DbTypeOK
    <2> QED
        BY <1>2, <1>3, <2>1, <2>2, PoolShape, Zenon
<1>5. PoolInv'
    BY <1>0, <1>1, <1>2, <1>3, KeepStep, Zenon
<1>6. SessionInv'
    <2>1. ~InTransaction(t) /\ "acquire" \notin Writing
        BY <1>1, Zenon DEF InTransaction, Writing
    <2> QED
        BY <1>0, <1>2, <1>3, <2>1, QuietStep, Zenon DEF SessionInv
<1>7. DurableInv'
    BY <1>0, <1>3, Zenon DEF DurableInv
<1> QED
    BY <1>4, <1>5, <1>6, <1>7, Zenon DEF DatabaseInv

\* acquire takes the head of the queue, or gives up and leaves all where it is.
LEMMA AcquireStep == ASSUME DatabaseInv, NEW t \in Threads, acquire(t) PROVE DatabaseInv'
<1>0. DbTypeOK /\ HeldInv /\ PoolInv /\ SessionInv /\ DurableInv
    BY Zenon DEF DatabaseInv
<1> DEFINE h == thread[t].held
<1>1. h \in Seq(Conns) /\ Len(h) \in {0, 1} /\ thread[t].pc = "acquire"
    <2>1. thread[t].pc = "acquire"
        BY Zenon DEF acquire
    <2>2. HeldAt("acquire", Len(h))
        BY <1>0, <2>1, Zenon DEF HeldInv
    <2>3. Len(h) \in {0, 1}
        BY <2>2 DEF HeldAt
    <2> QED
        BY <1>0, <2>1, <2>3, Zenon DEF DbTypeOK
<1>2. UNCHANGED <<connected, alive, session, durable, jobs>>
    BY Zenon DEF acquire, mysqld
<1>3. DurableInv'
    BY <1>0, <1>2, Zenon DEF DurableInv
<1>4. CASE idle # <<>>
    <2>1. /\ idle' = Tail(idle)
          /\ thread' = [thread EXCEPT ![t].pc = "ping", ![t].held = Append(@, Head(idle))]
        BY <1>4, Zenon DEF acquire
    <2>2. Append(h, Head(idle)) \in Seq(Conns) /\ idle' \in Seq(Conns)
        BY <1>0, <1>1, <1>4, <2>1 DEF DbTypeOK
    <2>3. /\ thread' \in ThreadType /\ thread'[t].pc = "ping" /\ thread'[t].held = Append(h, Head(idle))
          /\ \A u \in Threads \ {t} : thread'[u] = thread[u]
        BY <1>0, <2>1, <2>2, Zenon DEF DbTypeOK, ThreadType, Places
    <2>4. Head(idle) \in Conns
        BY <1>0, <1>4 DEF DbTypeOK
    <2>5. /\ Len(thread'[t].held) = Len(h) + 1
          /\ Len(h) = 1 => thread'[t].held[1] = h[1]
        BY <1>1, <2>3, <2>4
    <2>6. DbTypeOK' /\ HeldInv'
        <3>1. HeldAt(thread'[t].pc, Len(thread'[t].held))
            BY <1>1, <2>3, <2>5 DEF HeldAt
        <3>2. connected' \in [Conns -> BOOLEAN] /\ alive' \in [Conns -> BOOLEAN] /\ jobs' \in Nat
            BY <1>0, <1>2, Zenon DEF DbTypeOK
        <3> QED
            BY <1>2, <2>2, <2>3, <3>1, <3>2, PoolShape, Zenon
    <2>7. PoolInv'
        BY <1>0, <1>4, <2>1, <2>3, TakeStep, Zenon
    <2>8. InTransaction(t) => InTransaction(t)' /\ First(t)' = First(t)
        BY <1>1, <2>3, <2>5 DEF InTransaction, First
    <2>9. SessionInv'
        BY <1>0, <1>2, <2>3, <2>8, QuietStep, Zenon DEF SessionInv, Writing
    <2> QED
        BY <1>3, <2>6, <2>7, <2>9, Zenon DEF DatabaseInv
<1>5. CASE idle = <<>>
    <2>1. UNCHANGED idle /\ go(t, giveUp(t))
        BY <1>5, Zenon DEF acquire
    <2>2. giveUp(t) \in Places /\ giveUp(t) = IF Len(h) = 0 THEN "rest" ELSE "rollback"
        BY <1>1 DEF giveUp, Places
    <2>3. /\ thread' \in ThreadType /\ thread'[t].pc = giveUp(t) /\ thread'[t].held = h
          /\ \A u \in Threads \ {t} : thread'[u] = thread[u]
        BY <1>0, <2>1, <2>2, GoFacts, Zenon DEF ThreadType
    <2>4. DbTypeOK' /\ HeldInv'
        <3>1. HeldAt(thread'[t].pc, Len(thread'[t].held))
            BY <1>1, <2>2, <2>3 DEF HeldAt
        <3>2. /\ connected' \in [Conns -> BOOLEAN] /\ alive' \in [Conns -> BOOLEAN]
              /\ jobs' \in Nat /\ idle' \in Seq(Conns)
            BY <1>0, <1>2, <2>1, Zenon DEF DbTypeOK
        <3> QED
            BY <1>2, <2>3, <3>1, <3>2, PoolShape, Zenon
    <2>5. PoolInv'
        BY <1>0, <2>1, <2>3, KeepStep, Zenon
    <2>6. InTransaction(t) => InTransaction(t)' /\ First(t)' = First(t)
        <3>1. CASE Len(h) = 0
            BY <1>1, <3>1 DEF InTransaction
        <3>2. CASE Len(h) = 1
            BY <2>2, <2>3, <3>2 DEF InTransaction, First
        <3> QED
            BY <1>1, <3>1, <3>2, Zenon
    <2>7. SessionInv'
        BY <1>0, <1>2, <2>2, <2>3, <2>6, QuietStep, Zenon DEF SessionInv, Writing
    <2> QED
        BY <1>3, <2>4, <2>5, <2>7, Zenon DEF DatabaseInv
<1> QED
    BY <1>4, <1>5, Zenon

\* The lookup after a conflict uses the second connection and changes no transaction.
LEMMA LookupStep == ASSUME DatabaseInv, NEW t \in Threads, lookup(t) PROVE DatabaseInv'
<1>0. DbTypeOK /\ HeldInv /\ PoolInv /\ SessionInv /\ DurableInv
    BY Zenon DEF DatabaseInv
<1>1. Len(thread[t].held) = 2 /\ thread[t].pc = "lookup" /\ Conn(t) \in Conns
    <2>1. Len(thread[t].held) = 2 /\ thread[t].pc = "lookup"
        BY <1>0, Zenon DEF lookup, HeldInv, HeldAt
    <2> QED
        BY <1>0, <2>1 DEF DbTypeOK, Conn
<1>2. /\ thread' \in ThreadType /\ thread'[t].pc = "release" /\ thread'[t].held = thread[t].held
      /\ \A u \in Threads \ {t} : thread'[u] = thread[u]
    BY <1>0, GoFacts, Zenon DEF ThreadType, lookup, Places
<1>3. UNCHANGED <<idle, alive, session, durable, jobs>>
    BY Zenon DEF lookup, mysqld
<1>4. connected' \in [Conns -> BOOLEAN] /\ \A c \in Conns : alive[c] => connected'[c]
    BY <1>0, <1>1, Zenon DEF lookup, close, DbTypeOK, SessionInv
<1>5. DbTypeOK' /\ HeldInv'
    <2>3. Len(thread'[t].held) = 2 /\ thread'[t].pc = "release"
        BY <1>1, <1>2, Zenon
    <2>1. HeldAt(thread'[t].pc, Len(thread'[t].held))
        BY <2>3 DEF HeldAt
    <2>2. idle' \in Seq(Conns) /\ alive' \in [Conns -> BOOLEAN] /\ jobs' \in Nat
        BY <1>0, <1>3, Zenon DEF DbTypeOK
    <2> QED
        BY <1>2, <1>3, <1>4, <2>1, <2>2, PoolShape, Zenon
<1>6. PoolInv'
    BY <1>0, <1>2, <1>3, KeepStep, Zenon
<1>7. InTransaction(t)' /\ First(t)' = First(t)
    BY <1>1, <1>2, Zenon DEF InTransaction, First
<1>8. SessionInv'
    BY <1>2, <1>3, <1>4, <1>7, QuietStep, Zenon DEF Writing
<1>9. DurableInv'
    BY <1>0, <1>3, Zenon DEF DurableInv
<1> QED
    BY <1>5, <1>6, <1>8, <1>9, Zenon DEF DatabaseInv

\* A connection that the server drops loses its transaction, and nothing else (serverGone).
LEMMA GoneStep == ASSUME DatabaseInv, NEW c \in Conns, serverGone(c) PROVE DatabaseInv'
<1>0. DbTypeOK /\ HeldInv /\ PoolInv /\ SessionInv /\ DurableInv
    BY Zenon DEF DatabaseInv
<1>1. UNCHANGED <<idle, connected, durable, thread, jobs>>
    BY Zenon DEF serverGone
<1>2. /\ alive' = [alive EXCEPT ![c] = FALSE] /\ session' = [session EXCEPT ![c] = NoTx]
    BY Zenon DEF serverGone
<1>3. DbTypeOK'
    BY <1>0, <1>1, <1>2, Zenon DEF DbTypeOK, NoTx
<1>4. HeldInv'
    BY <1>0, <1>1, Zenon DEF HeldInv, HeldAt
<1>5. PoolInv'
    BY <1>0, <1>1, KeepStep, Zenon
<1>6. DurableInv'
    BY <1>0, <1>1, Zenon DEF DurableInv
<1>7. \A d \in Conns : /\ alive'[d] = (alive[d] /\ d # c)
                       /\ session'[d] = IF d = c THEN NoTx ELSE session[d]
    BY <1>0, <1>2, Zenon DEF DbTypeOK
<1>8. SessionInv!1' /\ SessionInv!2'
    BY <1>0, <1>1, <1>7, Zenon DEF SessionInv
<1>9. SessionInv!3'
    BY <1>0, <1>1, <1>7 DEF SessionInv, InTransaction, First
<1>10. ASSUME NEW t \in Threads, thread'[t].pc \in Writing, alive'[First(t)']
       PROVE  session'[First(t)'] = [open |-> TRUE, writes |-> Written(t)']
    <2>1. First(t)' = First(t) /\ Written(t)' = Written(t)
        BY <1>1, Zenon DEF First, Written
    <2>2. First(t) \in Conns
        <3>1. Len(thread[t].held) = 1
            BY <1>0, <1>1, <1>10 DEF HeldInv, HeldAt, Writing
        <3> QED
            BY <1>0, <3>1 DEF DbTypeOK, First
    <2> QED
        BY <1>0, <1>1, <1>7, <1>10, <2>1, <2>2, Zenon DEF SessionInv, Writing
<1>11. SessionInv'
    BY <1>8, <1>9, <1>10, Zenon DEF SessionInv, Writing
<1> QED
    BY <1>3, <1>4, <1>5, <1>6, <1>11 DEF DatabaseInv

\* What a call holds when it has given its last connection back.
LEMMA OneLess ==
    ASSUME NEW S, NEW h \in Seq(S), (Len(h) = 1 \/ Len(h) = 2)
    PROVE  /\ SubSeq(h, 1, Len(h) - 1) \in Seq(S)
           /\ Len(SubSeq(h, 1, Len(h) - 1)) = Len(h) - 1
           /\ Len(h) = 2 => SubSeq(h, 1, Len(h) - 1)[1] = h[1]
           /\ Len(h) = 1 => SubSeq(h, 1, Len(h) - 1) = <<>>
           /\ Len(h) = 2 => SubSeq(h, 1, Len(h) - 1) # <<>>
           /\ h[Len(h)] \in S /\ h[1] \in S
<1>1. CASE Len(h) = 1
    <2>1. SubSeq(h, 1, 0) = <<>>
        OBVIOUS
    <2> QED
        BY <1>1, <2>1
<1>2. CASE Len(h) = 2
    <2>1. h[1] \in S /\ h[2] \in S
        BY <1>2
    <2>2. SubSeq(h, 1, 1) \in Seq(S) /\ Len(SubSeq(h, 1, 1)) = 1 /\ SubSeq(h, 1, 1)[1] = h[1]
        BY <1>2, <2>1
    <2>3. SubSeq(h, 1, 1) # <<>>
        BY <2>2
    <2> QED
        BY <1>2, <2>1, <2>2, <2>3
<1> QED
    BY <1>1, <1>2, Zenon

givesBack(t) ==
    /\ thread' = [thread EXCEPT ![t].held = SubSeq(thread[t].held, 1, Len(thread[t].held) - 1),
                                ![t].pc = IF Len(thread[t].held) = 1 THEN "rest" ELSE "rollback"]
    /\ idle' = Append(idle, Conn(t))

\* A call gives its last connection back, which it may have connected again or found
\* lost: it is at rest when it held no other, and else rolls back on that one.
LEMMA GiveBackStep ==
    ASSUME DatabaseInv, NEW t \in Threads, thread[t].pc \in {"ping", "release"},
           thread[t].pc = "release" /\ Len(thread[t].held) = 1 => ~InTransaction(t),
           givesBack(t), UNCHANGED <<session, durable, jobs>>,
           connected' \in [Conns -> BOOLEAN], alive' \in [Conns -> BOOLEAN],
           \A c \in Conns : alive'[c] => connected'[c],
           \A c \in Conns : ~alive'[c] => ~alive[c],
           \A c \in Conns \ {Conn(t)} : alive'[c] = alive[c]
    PROVE  DatabaseInv'
<1>0. DbTypeOK /\ HeldInv /\ PoolInv /\ SessionInv /\ DurableInv
    BY Zenon DEF DatabaseInv
<1> DEFINE h == thread[t].held
           rest == SubSeq(h, 1, Len(h) - 1)
<1>1. h \in Seq(Conns) /\ (Len(h) = 1 \/ Len(h) = 2) /\ Len(h) > 0
    <2>1. HeldAt(thread[t].pc, Len(h))
        BY <1>0, Zenon DEF HeldInv
    <2>2. (Len(h) = 1 \/ Len(h) = 2) /\ Len(h) > 0
        BY <2>1 DEF HeldAt
    <2> QED
        BY <1>0, <2>2, Zenon DEF DbTypeOK
<1>2. /\ rest \in Seq(Conns) /\ Len(rest) = Len(h) - 1 /\ (Len(h) = 2 => rest[1] = h[1])
    BY <1>1, OneLess, Zenon
<1>3. Conn(t) \in Conns
    BY <1>1, OneLess, Zenon DEF Conn
<1> HIDE DEF rest
<1>4. /\ thread' \in ThreadType /\ thread'[t].held = rest
      /\ thread'[t].pc = IF Len(h) = 1 THEN "rest" ELSE "rollback"
      /\ \A u \in Threads \ {t} : thread'[u] = thread[u]
    <2>1. thread' = [thread EXCEPT ![t].held = rest, ![t].pc = IF Len(h) = 1 THEN "rest" ELSE "rollback"]
        BY Zenon DEF givesBack, rest
    <2>2. thread \in ThreadType
        BY <1>0, Zenon DEF DbTypeOK, ThreadType
    <2> QED
        BY <1>2, <2>1, <2>2 DEF ThreadType, Places
<1>5. idle' \in Seq(Conns)
    BY <1>0, <1>3 DEF DbTypeOK, givesBack
<1>6. HeldAt(thread'[t].pc, Len(thread'[t].held))
    <2>1. CASE Len(h) = 1
        BY <1>2, <1>4, <2>1 DEF HeldAt
    <2>2. CASE Len(h) = 2
        BY <1>2, <1>4, <2>2 DEF HeldAt
    <2> QED
        BY <1>1, <2>1, <2>2, Zenon
<1>7. DbTypeOK' /\ HeldInv'
    <2>1. jobs' \in Nat
        BY <1>0, Zenon DEF DbTypeOK
    <2> QED
        BY <1>4, <1>5, <1>6, <2>1, PoolShape, Zenon
<1>8. PoolInv'
    <2>1. Len(thread[t].held) > 0
        BY <1>1, Zenon
    <2> QED
        BY <1>0, <1>4, <2>1, GiveStep, Zenon DEF rest, givesBack
<1>9. InTransaction(t) => InTransaction(t)' /\ First(t)' = First(t)
    <2>1. CASE Len(h) = 1
        BY <2>1 DEF InTransaction
    <2>2. CASE Len(h) = 2
        BY <1>2, <1>4, <2>2 DEF InTransaction, First
    <2> QED
        BY <1>1, <2>1, <2>2, Zenon
<1>10. ASSUME NEW u \in Threads \ {t}, thread[u].pc \in Writing
       PROVE  alive'[First(u)] = alive[First(u)]
    <2>1. HeldAt(thread[u].pc, Len(thread[u].held))
        BY <1>0 DEF HeldInv
    <2>2. Len(thread[u].held) = 1
        BY <1>10, <2>1, Zenon DEF HeldAt, Writing
    <2>3. First(u) \in Conns
        BY <1>0, <2>2 DEF DbTypeOK, First
    <2>4. Len(thread[u].held) > 0 /\ Len(thread[t].held) > 0
        BY <1>1, <2>2
    <2> QED
        BY <1>0, <2>3, <2>4, Exclusive
<1>11. SessionInv'
    <2>1. thread'[t].pc \notin Writing
        BY <1>4, Zenon DEF Writing
    <2> QED
        BY <1>4, <1>9, <1>10, <2>1, QuietStep, Zenon
<1>12. DurableInv'
    BY <1>0, Zenon DEF DurableInv
<1> QED
    BY <1>7, <1>8, <1>11, <1>12, Zenon DEF DatabaseInv

\* ~ConnectionGuard gives the connection back, connected again or not (release).
LEMMA ReleaseStep == ASSUME DatabaseInv, NEW t \in Threads, release(t) PROVE DatabaseInv'
<1>0. DbTypeOK /\ HeldInv /\ SessionInv
    BY Zenon DEF DatabaseInv
<1>1. thread[t].pc = "release" /\ (Len(thread[t].held) = 1 \/ Len(thread[t].held) = 2)
    <2>1. thread[t].pc = "release"
        BY Zenon DEF release
    <2>2. HeldAt(thread[t].pc, Len(thread[t].held))
        BY <1>0, Zenon DEF HeldInv
    <2> QED
        BY <2>1, <2>2 DEF HeldAt
<1>2. Conn(t) \in Conns
    <2>1. thread[t].held \in Seq(Conns)
        BY <1>0, Zenon DEF DbTypeOK
    <2> QED
        BY <1>1, <2>1, OneLess, Zenon DEF Conn
<1>3. connected \in [Conns -> BOOLEAN] /\ alive \in [Conns -> BOOLEAN] /\ \A c \in Conns : alive[c] => connected[c]
    BY <1>0, Zenon DEF DbTypeOK, SessionInv
<1>4. /\ connected' \in [Conns -> BOOLEAN] /\ alive' \in [Conns -> BOOLEAN]
      /\ \A c \in Conns : alive'[c] => connected'[c]
      /\ \A c \in Conns : ~alive'[c] => ~alive[c]
      /\ \A c \in Conns \ {Conn(t)} : alive'[c] = alive[c]
    <2>1. CASE UNCHANGED <<connected, alive>>
        BY <1>3, <2>1, Zenon
    <2>2. CASE /\ connected' = [connected EXCEPT ![Conn(t)] = TRUE]
               /\ alive' = [alive EXCEPT ![Conn(t)] = TRUE]
        BY <1>2, <1>3, <2>2, Zenon
    <2> QED
        BY <2>1, <2>2 DEF release
<1>5. givesBack(t) /\ UNCHANGED <<session, durable, jobs>>
    BY Zenon DEF release, mysqld, givesBack
<1>6. Len(thread[t].held) = 1 => ~InTransaction(t)
    BY <1>1 DEF InTransaction
<1> QED
    BY <1>1, <1>4, <1>5, <1>6, GiveBackStep, Zenon

\* ping keeps a usable connection and gives a dead one back (acquire's failure path).
LEMMA PingStep == ASSUME DatabaseInv, NEW t \in Threads, ping(t) PROVE DatabaseInv'
<1>0. DbTypeOK /\ HeldInv /\ PoolInv /\ SessionInv /\ DurableInv
    BY DEF DatabaseInv
<1> DEFINE c == Conn(t)
           h == thread[t].held
           usable == IF Len(h) = 1 THEN "begin" ELSE "lookup"
<1>1. thread[t].pc = "ping" /\ (Len(h) = 1 \/ Len(h) = 2) /\ h \in Seq(Conns)
    <2>1. thread[t].pc = "ping"
        BY Zenon DEF ping
    <2>2. HeldAt(thread[t].pc, Len(h))
        BY <1>0, Zenon DEF HeldInv
    <2>3. (Len(h) = 1 \/ Len(h) = 2)
        BY <2>1, <2>2 DEF HeldAt
    <2> QED
        BY <1>0, <2>1, <2>3, Zenon DEF DbTypeOK
<1>2. c \in Conns
    BY <1>1, OneLess, Zenon DEF Conn
<1>3. connected \in [Conns -> BOOLEAN] /\ alive \in [Conns -> BOOLEAN] /\ \A d \in Conns : alive[d] => connected[d]
    BY <1>0, Zenon DEF DbTypeOK, SessionInv
<1>4. UNCHANGED <<session, durable, jobs>>
    BY Zenon DEF ping, mysqld
<1>5. /\ Len(SubSeq(h, 1, Len(h) - 1)) = 0 <=> Len(h) = 1
      /\ SubSeq(h, 1, Len(h) - 1) = <<>> <=> Len(h) = 1
    BY <1>1, OneLess
<1>6. ASSUME go(t, usable), UNCHANGED idle,
             \/ UNCHANGED <<connected, alive>>
             \/ /\ connected' = [connected EXCEPT ![c] = TRUE]
                /\ alive' = [alive EXCEPT ![c] = TRUE]
      PROVE  DatabaseInv'
    <2>1. usable \in Places /\ usable \notin Writing
        BY DEF Places, Writing
    <2>2. /\ thread' \in ThreadType /\ thread'[t].pc = usable /\ thread'[t].held = h
          /\ \A u \in Threads \ {t} : thread'[u] = thread[u]
        BY <1>0, <1>6, <2>1, GoFacts DEF ThreadType
    <2>3. /\ connected' \in [Conns -> BOOLEAN] /\ alive' \in [Conns -> BOOLEAN]
          /\ \A d \in Conns : alive'[d] => connected'[d]
          /\ \A d \in Conns : ~alive'[d] => ~alive[d]
          /\ \A d \in Conns \ {c} : alive'[d] = alive[d]
        <3>1. CASE UNCHANGED <<connected, alive>>
            BY <1>3, <3>1, Zenon
        <3>2. CASE /\ connected' = [connected EXCEPT ![c] = TRUE]
                   /\ alive' = [alive EXCEPT ![c] = TRUE]
            BY <1>2, <1>3, <3>2, Zenon
        <3> QED
            BY <1>6, <3>1, <3>2
    <2>4. HeldAt(thread'[t].pc, Len(thread'[t].held))
        BY <1>1, <2>2 DEF HeldAt
    <2>5. DbTypeOK' /\ HeldInv'
        <3>1. jobs' \in Nat /\ idle' \in Seq(Conns)
            BY <1>0, <1>4, <1>6, Zenon DEF DbTypeOK
        <3> QED
            BY <1>4, <2>2, <2>3, <2>4, <3>1, PoolShape, Zenon
    <2>6. PoolInv'
        BY <1>0, <1>6, <2>2, KeepStep, Zenon
    <2>7. InTransaction(t) => InTransaction(t)' /\ First(t)' = First(t)
        <3>1. CASE Len(h) = 1
            BY <1>1, <3>1 DEF InTransaction
        <3>2. CASE Len(h) = 2
            BY <2>2, <3>2 DEF InTransaction, First
        <3> QED
            BY <1>1, <3>1, <3>2, Zenon
    <2>8. ASSUME NEW u \in Threads \ {t}, thread[u].pc \in Writing
          PROVE  alive'[First(u)] = alive[First(u)]
        <3>1. HeldAt(thread[u].pc, Len(thread[u].held))
            BY <1>0, Zenon DEF HeldInv
        <3>2. Len(thread[u].held) = 1
            BY <2>8, <3>1, Zenon DEF HeldAt, Writing
        <3>3. First(u) \in Conns
            BY <1>0, <3>2 DEF DbTypeOK, First
        <3>4. Len(thread[u].held) > 0 /\ Len(thread[t].held) > 0
            BY <1>1, <3>2
        <3> QED
            BY <1>0, <2>3, <3>3, <3>4, Exclusive, Zenon
    <2>9. SessionInv'
        <3> HIDE DEF usable
        <3> QED
            BY <1>4, <2>1, <2>2, <2>3, <2>7, <2>8, QuietStep, Zenon
    <2>10. DurableInv'
        BY <1>0, <1>4, Zenon DEF DurableInv
    <2> QED
        BY <2>5, <2>6, <2>9, <2>10, Zenon DEF DatabaseInv
<1>7. CASE /\ ~(connected[c] /\ alive[c]) /\ close(c) /\ idle' = Append(idle, c) /\ UNCHANGED alive
           /\ thread' = [thread EXCEPT ![t].held = SubSeq(h, 1, Len(h) - 1),
                                       ![t].pc = IF Len(h) = 1 THEN "rest" ELSE "rollback"]
    <2>1. /\ connected' \in [Conns -> BOOLEAN] /\ alive' \in [Conns -> BOOLEAN]
          /\ \A d \in Conns : alive'[d] => connected'[d]
          /\ \A d \in Conns : ~alive'[d] => ~alive[d]
          /\ \A d \in Conns \ {c} : alive'[d] = alive[d]
        BY <1>2, <1>3, <1>7, Zenon DEF close
    <2> QED
        BY <1>1, <1>4, <1>7, <2>1, GiveBackStep, Zenon DEF givesBack
<1> QED
    BY <1>5, <1>6, <1>7, Zenon DEF ping

-----------------------------------------------------------------------------
(* DatabaseInv holds from the start, and what it shows                     *)

Sizes == INSTANCE FiniteSetTheorems

\* Finite sets and their sizes are those that FiniteSetTheorems speaks of.
LEMMA SizesAgree == \A S : /\ Sizes!IsFiniteSet(S) <=> IsFiniteSet(S)
                           /\ Sizes!Cardinality(S) = Cardinality(S)
BY Zenon DEF IsFiniteSet, Cardinality, Sizes!IsFiniteSet, Sizes!Cardinality

\* init() connects every connection of the pool and queues each of them once.
LEMMA DatabaseInitially == DatabaseInit => DatabaseInv
<1> SUFFICES ASSUME DatabaseInit PROVE DatabaseInv
    BY Zenon
<1> DEFINE n == Cardinality(Conns)
<1>1. n \in Nat
    BY DatabaseAssumption, SizesAgree, Sizes!FS_CardinalityType, Zenon
<1>2. idle \in [1 .. n -> Conns] /\ \A c \in Conns : \E i \in 1 .. n : idle[i] = c
    BY DEF DatabaseInit
<1>3. idle \in Seq(Conns) /\ Len(idle) = n
    BY <1>1, <1>2
<1>4. \A i, j \in 1 .. n : idle[i] = idle[j] => i = j
    <2>1. IsFiniteSet(1 .. n) /\ Cardinality(1 .. n) = n
        BY <1>1, SizesAgree, Sizes!FS_Interval
    <2>2. idle \in Sizes!Surjection(1 .. n, Conns)
        BY <1>2, Zenon DEF Sizes!Surjection
    <2>3. idle \in Sizes!Injection(1 .. n, Conns)
        BY <2>1, <2>2, SizesAgree, Sizes!FS_SurjSameCardinalityImpliesInj
    <2> QED
        BY <2>3 DEF Sizes!Injection, Sizes!IsInjective
<1> HIDE DEF n
<1>5. thread = [t \in Threads |-> [pc |-> "rest", job |-> 0, held |-> <<>>]]
    BY Zenon DEF DatabaseInit
<1>6. DbTypeOK
    BY <1>3, <1>5 DEF DatabaseInit, DbTypeOK, NoTx, Places
<1>7. HeldInv
    BY <1>5 DEF HeldInv, HeldAt
<1>8. PoolInv
    BY <1>2, <1>3, <1>4, <1>5 DEF PoolInv, QueuedOnce, HeldOrQueued, HeldOnce, NoneLost
<1>9. SessionInv
    BY <1>5 DEF DatabaseInit, SessionInv
<1>10. DurableInv
    BY Zenon DEF DatabaseInit, DurableInv
<1> QED
    BY <1>6, <1>7, <1>8, <1>9, <1>10, Zenon DEF DatabaseInv

\* Every step of the calls, of the pool and of the server keeps the invariant.
LEMMA DatabaseStep == DatabaseInv /\ [DatabaseNext]_databaseVars => DatabaseInv'
<1> SUFFICES ASSUME DatabaseInv, [DatabaseNext]_databaseVars PROVE DatabaseInv'
    OBVIOUS
<1>1. ASSUME NEW t \in Threads, beginTransaction(t) PROVE DatabaseInv'
    BY <1>1, UpdateStep, Zenon DEF beginTransaction, Statements
<1>2. ASSUME NEW t \in Threads, write1(t) PROVE DatabaseInv'
    BY <1>2, UpdateStep DEF write1, Statements
<1>3. ASSUME NEW t \in Threads, write2(t) PROVE DatabaseInv'
    BY <1>3, UpdateStep, Zenon DEF write2, Statements
<1>4. ASSUME NEW t \in Threads, commit(t) PROVE DatabaseInv'
    BY <1>4, UpdateStep, Zenon DEF commit, Statements
<1>5. ASSUME NEW t \in Threads, rollback(t) PROVE DatabaseInv'
    BY <1>5, UpdateStep, Zenon DEF rollback, Statements
<1>6. CASE UNCHANGED databaseVars
    <2>1. UNCHANGED <<idle, connected, alive, session, durable, thread, jobs>>
        BY <1>6, Zenon DEF databaseVars
    <2>2. DbTypeOK' /\ HeldInv' /\ DurableInv'
        BY <2>1, Zenon DEF DatabaseInv, DbTypeOK, HeldInv, DurableInv
    <2>3. PoolInv'
        BY <2>1, KeepStep, Zenon DEF DatabaseInv
    <2>4. SessionInv'
        BY <2>1 DEF DatabaseInv, SessionInv, InTransaction, First, Written
    <2> QED
        BY <2>2, <2>3, <2>4 DEF DatabaseInv
<1> QED
    BY <1>1, <1>2, <1>3, <1>4, <1>5, <1>6, RequestStep, AcquireStep, PingStep, ReleaseStep,
       LookupStep, GoneStep DEF DatabaseNext, ThreadStep

\* The two writes of a transaction are durable together or not at all, and no
\* connection comes back to the pool with a transaction open, for any number of
\* threads, connections and faults (MySqlTransaction, MySqlConnectionPool).
THEOREM TransactionsAreAtomic == DatabaseSpec => []AllOrNothing
<1>1. DatabaseInv => AllOrNothing
    <2> SUFFICES ASSUME DatabaseInv PROVE AllOrNothing
        OBVIOUS
    <2>1. ASSUME NEW i \in 1 .. Len(idle) PROVE ~session[idle[i]].open
        <3>1. idle[i] \in Conns
            BY DEF DatabaseInv, DbTypeOK
        <3>2. session[idle[i]] = NoTx
            <4> SUFFICES ASSUME session[idle[i]] # NoTx PROVE FALSE
                OBVIOUS
            <4>1. PICK t \in Threads : InTransaction(t) /\ First(t) = idle[i]
                BY <3>1, Zenon DEF DatabaseInv, SessionInv
            <4>2. HeldAt(thread[t].pc, Len(thread[t].held))
                BY DEF DatabaseInv, HeldInv
            <4>3. 1 \in 1 .. Len(thread[t].held)
                BY <4>1, <4>2 DEF InTransaction, HeldAt
            <4> QED
                BY <4>1, <4>3, Zenon DEF DatabaseInv, PoolInv, HeldOrQueued, First
        <3> QED
            BY <3>2 DEF NoTx
    <2>2. \A j \in 1 .. jobs : <<j, 1>> \in durable <=> <<j, 2>> \in durable
        <3>1. jobs \in Nat
            BY Zenon DEF DatabaseInv, DbTypeOK
        <3>2. DurableInv
            BY Zenon DEF DatabaseInv
        <3>3. \A j \in 1 .. jobs : j \in Nat
            BY <3>1
        <3> QED
            BY <3>2, <3>3, Zenon DEF DurableInv
    <2> QED
        BY <2>1, <2>2, Zenon DEF AllOrNothing, NoOpenTransactionInPool
<1> QED
    BY DatabaseInitially, DatabaseStep, <1>1, PTL DEF DatabaseSpec

\* No connection is ever lost to the pool or leased by two guards.
THEOREM ConnectionsAreLeasedOnce == DatabaseSpec => []LeasedOnce
<1>1. DatabaseInv => LeasedOnce
    <2> SUFFICES ASSUME DatabaseInv, NEW c \in Conns
                 PROVE  LeasedOnce!(c)
        BY Zenon DEF LeasedOnce
    <2> DEFINE Q == {i \in 1 .. Len(idle) : idle[i] = c}
               H == {x \in Threads \X (1 .. 2) :
                        x[2] <= Len(thread[x[1]].held) /\ thread[x[1]].held[x[2]] = c}
    <2>1. PoolInv /\ HeldInv
        BY Zenon DEF DatabaseInv
    <2>2. \A t \in Threads : Len(thread[t].held) \in 0 .. 2
        BY <2>1, Zenon DEF HeldInv, HeldAt
    <2>3. CASE \E i \in 1 .. Len(idle) : idle[i] = c
        <3>1. PICK i \in 1 .. Len(idle) : idle[i] = c
            BY <2>3, Zenon
        <3>2. Q = {i}
            BY <2>1, <3>1, Zenon DEF PoolInv, QueuedOnce
        <3>3. H = {}
            <4> SUFFICES ASSUME NEW t \in Threads, NEW k \in 1 .. 2, k <= Len(thread[t].held),
                                thread[t].held[k] = c
                         PROVE  FALSE
                BY Zenon
            <4>1. k \in 1 .. Len(thread[t].held)
                BY <2>2
            <4> QED
                BY <2>1, <3>1, <4>1, Zenon DEF PoolInv, HeldOrQueued
        <3>4. Cardinality(Q) = 1 /\ Cardinality(H) = 0
            <4> HIDE DEF Q, H
            <4> QED
                BY <3>2, <3>3, SizesAgree, Sizes!FS_Singleton, Sizes!FS_EmptySet, Zenon
        <3> QED
            BY <3>4
    <2>4. CASE \E t \in Threads : \E k \in 1 .. Len(thread[t].held) : thread[t].held[k] = c
        <3>1. PICK t \in Threads : \E k \in 1 .. Len(thread[t].held) : thread[t].held[k] = c
            BY <2>4, Zenon
        <3>2. PICK k \in 1 .. Len(thread[t].held) : thread[t].held[k] = c
            BY <3>1, Zenon
        <3>3. Q = {}
            BY <2>1, <3>2, Zenon DEF PoolInv, HeldOrQueued
        <3>4. H = {<<t, k>>}
            <4>1. <<t, k>> \in H
                BY <2>2, <3>2
            <4>2. ASSUME NEW u \in Threads, NEW l \in 1 .. 2, l <= Len(thread[u].held),
                         thread[u].held[l] = c
                  PROVE  u = t /\ l = k
                <5>1. l \in 1 .. Len(thread[u].held)
                    BY <2>2, <4>2
                <5> QED
                    BY <2>1, <3>2, <4>2, <5>1, Zenon DEF PoolInv, HeldOnce
            <4> QED
                BY <4>1, <4>2
        <3>5. Cardinality(Q) = 0 /\ Cardinality(H) = 1
            <4> HIDE DEF Q, H
            <4> QED
                BY <3>3, <3>4, SizesAgree, Sizes!FS_Singleton, Sizes!FS_EmptySet, Zenon
        <3> QED
            BY <3>5
    <2> QED
        BY <2>1, <2>3, <2>4, Zenon DEF PoolInv, NoneLost
<1> QED
    BY DatabaseInitially, DatabaseStep, <1>1, PTL DEF DatabaseSpec
=============================================================================
