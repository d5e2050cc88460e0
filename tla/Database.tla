------------------------------ MODULE Database ------------------------------
(***************************************************************************)
(* MySqlConnectionPool, MySqlConnection and MySqlTransaction as the DAOs   *)
(* use them: a thread leases a connection, runs a transaction of two       *)
(* writes, and returns it.  When a write meets a conflict the message      *)
(* service leases a second connection for a lookup before it returns the   *)
(* first.  The server may drop a connection at any time; it then rolls its *)
(* transaction back.  A write outside a transaction commits by itself.     *)
(***************************************************************************)
EXTENDS Integers, Sequences, FiniteSets

CONSTANTS
    Threads,
    Conns,
    MaxJobs,        \* bound: transactions
    MaxFaults       \* bound: dropped connections, failed statements and reconnects

ASSUME DatabaseAssumption == IsFiniteSet(Conns)

VARIABLES
    idle,           \* idle_, a queue
    connected,      \* connected_ of each connection
    alive,          \* the server still has the connection
    session,        \* the server's transaction on each connection
    durable,        \* writes that are committed: <<job, 1>> and <<job, 2>>
    thread,         \* where each thread is, its job and the guards it holds
    jobs, faults

databaseVars == <<idle, connected, alive, session, durable, thread, jobs, faults>>
mysqld == <<session, durable>>

NoTx == [open |-> FALSE, writes |-> {}]

\* init(): every connection is connected and idle
DatabaseInit ==
    /\ idle \in {q \in [1 .. Cardinality(Conns) -> Conns] : \A c \in Conns : \E i \in DOMAIN q : q[i] = c}
    /\ connected = [c \in Conns |-> TRUE] /\ alive = [c \in Conns |-> TRUE]
    /\ session = [c \in Conns |-> NoTx] /\ durable = {}
    /\ thread = [t \in Threads |-> [pc |-> "rest", job |-> 0, held |-> <<>>]]
    /\ jobs = 0 /\ faults = 0

Fault == faults < MaxFaults /\ faults' = faults + 1
NoFault == UNCHANGED faults
go(t, place) == thread' = [thread EXCEPT ![t].pc = place]
Conn(t) == thread[t].held[Len(thread[t].held)]
First(t) == thread[t].held[1]

\* The connection is lost: the server rolls back
serverGone(c) ==
    /\ alive[c] /\ Fault
    /\ alive' = [alive EXCEPT ![c] = FALSE] /\ session' = [session EXCEPT ![c] = NoTx]
    /\ UNCHANGED <<idle, connected, durable, thread, jobs>>

\* close(), also by markDisconnectedIfNeeded
close(c) == connected' = [connected EXCEPT ![c] = FALSE]

-----------------------------------------------------------------------------
(* The pool                                                                 *)

request(t) ==
    /\ thread[t].pc = "rest" /\ jobs < MaxJobs /\ jobs' = jobs + 1
    /\ thread' = [thread EXCEPT ![t] = [pc |-> "acquire", job |-> jobs', held |-> <<>>]]
    /\ UNCHANGED <<idle, connected, alive, mysqld, faults>>

\* A call that got no connection gives up; the lookup after a conflict as well
giveUp(t) == IF thread[t].held = <<>> THEN "rest" ELSE "rollback"

\* Mutation: acquire() waits for as long as it takes
acquireForever(t) ==
    /\ thread[t].pc = "acquire" /\ idle # <<>>
    /\ thread' = [thread EXCEPT ![t].pc = "ping", ![t].held = Append(@, Head(idle))]
    /\ idle' = Tail(idle)
    /\ UNCHANGED <<connected, alive, mysqld, jobs, faults>>

\* acquire() takes the connection that is idle longest, or gives up after its timeout
acquire(t) ==
    /\ thread[t].pc = "acquire"
    /\ \/ /\ idle # <<>> /\ idle' = Tail(idle)
          /\ thread' = [thread EXCEPT ![t].pc = "ping", ![t].held = Append(@, Head(idle))]
       \/ /\ idle = <<>> /\ UNCHANGED idle
          /\ go(t, giveUp(t))
    /\ UNCHANGED <<connected, alive, mysqld, jobs, faults>>

\* ping() and, when it fails, reconnect(), without the pool's mutex; a connection
\* that stays dead goes back to the queue
ping(t) ==
    LET c == Conn(t)
        held == SubSeq(thread[t].held, 1, Len(thread[t].held) - 1)
        usable == IF Len(held) = 0 THEN "begin" ELSE "lookup"
    IN  /\ thread[t].pc = "ping"
        /\ \/ /\ connected[c] /\ alive[c] /\ go(t, usable) /\ NoFault
              /\ UNCHANGED <<idle, connected, alive>>
           \/ /\ ~(connected[c] /\ alive[c]) /\ go(t, usable) /\ NoFault
              /\ connected' = [connected EXCEPT ![c] = TRUE] /\ alive' = [alive EXCEPT ![c] = TRUE]
              /\ UNCHANGED idle
           \/ /\ ~(connected[c] /\ alive[c]) /\ Fault /\ close(c)
              /\ idle' = Append(idle, c) /\ UNCHANGED alive
              /\ thread' = [thread EXCEPT ![t].held = held,
                                          ![t].pc = IF held = <<>> THEN "rest" ELSE "rollback"]
        /\ UNCHANGED <<mysqld, jobs>>

\* ~ConnectionGuard: a connection known to be lost is connected again, and in any
\* case it goes back to the queue
release(t) ==
    LET c == Conn(t)
    IN  /\ thread[t].pc = "release"
        /\ \/ connected[c] /\ UNCHANGED <<connected, alive>> /\ NoFault
           \/ /\ ~connected[c] /\ NoFault
              /\ connected' = [connected EXCEPT ![c] = TRUE] /\ alive' = [alive EXCEPT ![c] = TRUE]
           \/ ~connected[c] /\ Fault /\ UNCHANGED <<connected, alive>>
        /\ idle' = Append(idle, c)
        /\ thread' = [thread EXCEPT ![t].held = SubSeq(@, 1, Len(@) - 1),
                                    ![t].pc = IF Len(thread[t].held) = 1 THEN "rest" ELSE "rollback"]
        /\ UNCHANGED <<mysqld, jobs>>

-----------------------------------------------------------------------------
(* Statements                                                               *)

\* What the server does with statement what of t
Effect(t, what) ==
    LET c == First(t)
        write(n) == {<<thread[t].job, n>>}
        put(n) == IF session[c].open
                  THEN session' = [session EXCEPT ![c].writes = @ \cup write(n)] /\ UNCHANGED durable
                  ELSE durable' = durable \cup write(n) /\ UNCHANGED session
    IN  CASE what = "begin" -> /\ durable' = durable \cup session[c].writes
                               /\ session' = [session EXCEPT ![c] = [open |-> TRUE, writes |-> {}]]
          [] what = "write1" -> put(1)
          [] what = "write2" -> put(2)
          [] what = "commit" -> /\ durable' = durable \cup session[c].writes
                                /\ session' = [session EXCEPT ![c] = NoTx]
          [] what = "rollback" -> session' = [session EXCEPT ![c] = NoTx] /\ UNCHANGED durable

\* Mutation: a statement on a lost connection connects again and goes on
executeUpdateReconnects(t, what, ok, failed) ==
    LET c == First(t)
    IN  /\ thread[t].pc = what /\ NoFault
        /\ connected' = [connected EXCEPT ![c] = TRUE] /\ alive' = [alive EXCEPT ![c] = TRUE]
        /\ Effect(t, what) /\ go(t, ok)
        /\ UNCHANGED <<idle, jobs>>

\* executeUpdate: a lost connection is closed and stays closed; other errors leave
\* it as it is; the reply to a statement that was executed can be lost
executeUpdate(t, what, ok, failed) ==
    LET c == First(t)
    IN  /\ thread[t].pc = what
        /\ \/ ~connected[c] /\ NoFault /\ go(t, failed) /\ UNCHANGED <<connected, alive, mysqld>>
           \/ /\ connected[c] /\ ~alive[c] /\ NoFault /\ close(c) /\ go(t, failed)
              /\ UNCHANGED <<alive, mysqld>>
           \/ /\ connected[c] /\ alive[c] /\ NoFault /\ Effect(t, what) /\ go(t, ok)
              /\ UNCHANGED <<connected, alive>>
           \/ /\ connected[c] /\ alive[c] /\ what # "rollback" /\ Fault /\ go(t, failed)
              /\ UNCHANGED <<connected, alive, mysqld>>
           \/ /\ connected[c] /\ alive[c] /\ what = "commit" /\ Fault /\ Effect(t, what)
              /\ close(c) /\ alive' = [alive EXCEPT ![c] = FALSE] /\ go(t, failed)
        /\ UNCHANGED <<idle, jobs>>

\* A failed BEGIN leaves no transaction to roll back; a first write that fails may
\* be a conflict, after which the message service looks the message up
beginTransaction(t) == executeUpdate(t, "begin", "write1", "release")
write1(t) == executeUpdate(t, "write1", "write2", "rollback") \/ executeUpdate(t, "write1", "write2", "acquire")
write2(t) == executeUpdate(t, "write2", "commit", "rollback")
commit(t) == executeUpdate(t, "commit", "release", "rollback")

\* ~MySqlTransaction
rollback(t) == executeUpdate(t, "rollback", "release", "release")

\* executeQuery on the second connection, which changes nothing but may find it lost
lookup(t) ==
    LET c == Conn(t)
    IN  /\ thread[t].pc = "lookup" /\ go(t, "release")
        /\ IF alive[c] THEN UNCHANGED connected ELSE close(c)
        /\ UNCHANGED <<idle, alive, mysqld, jobs, faults>>

ThreadStep(t) ==
    \/ acquire(t) \/ ping(t) \/ release(t) \/ lookup(t)
    \/ beginTransaction(t) \/ write1(t) \/ write2(t) \/ commit(t) \/ rollback(t)

DatabaseNext ==
    \/ \E c \in Conns : serverGone(c)
    \/ \E t \in Threads : request(t) \/ ThreadStep(t)

DatabaseSpec == DatabaseInit /\ [][DatabaseNext]_databaseVars

-----------------------------------------------------------------------------
(* Properties                                                               *)

\* No connection in the pool carries a transaction that its last user left open,
\* which the next user's BEGIN would commit (~MySqlTransaction, release)
NoOpenTransactionInPool == \A i \in 1 .. Len(idle) : ~session[idle[i]].open

\* The two writes of a transaction are durable together or not at all, whenever
\* connections are dropped, connected again and passed on: a connection that is
\* lost inside a transaction stays closed until it is returned (executeUpdate,
\* markDisconnectedIfNeeded, ~MySqlTransaction), and none is passed on open.
AllOrNothing ==
    /\ NoOpenTransactionInPool
    /\ \A j \in 1 .. jobs : <<j, 1>> \in durable <=> <<j, 2>> \in durable

\* Every connection is in exactly one place: once in the queue, or leased by one
\* guard (acquire and its failure path, release, the guard's moves)
LeasedOnce ==
    \A c \in Conns :
        Cardinality({i \in 1 .. Len(idle) : idle[i] = c})
          + Cardinality({x \in Threads \X (1 .. 2) :
                           x[2] <= Len(thread[x[1]].held) /\ thread[x[1]].held[x[2]] = c}) = 1

\* Every request comes to its end, also when every connection is held by a thread
\* that waits for a second one (acquire's timeout), and no connection is lost to the
\* pool or given to two of them.
PoolNeverWedges == []LeasedOnce /\ []<>(\A t \in Threads : thread[t].pc = "rest")
=============================================================================
