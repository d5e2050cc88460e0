------------------------------ MODULE Requests ------------------------------
(***************************************************************************)
(* The gateway's request path on one connection: the router's handlers,    *)
(* the circuit breakers, the RPC executor with its bounded thread pool and *)
(* the callbacks that answer on the connection's loop.                     *)
(*                                                                         *)
(* A request is the number of its packet.  What the limiter answers        *)
(* (RateLimit), whether a body parses, and what a backend replies are      *)
(* choices; the online keys a login writes are in Session.                 *)
(***************************************************************************)
EXTENDS Integers, Sequences, FiniteSets

CONSTANTS
    Workers,            \* threads of the executor's pool
    MaxPackets,         \* bound: packets of the client
    QueueSize,          \* max_queue_size
    FailureThreshold,
    NoTask

Services == {"user_service", "message_service"}

VARIABLES
    up, authenticated,  \* the connection and its context
    packets,            \* packets received
    task,               \* service and purpose of each request
    answers,            \* packets sent in reply to each request
    breaker,            \* state, failure_count and whether open_timeout_ms passed
    queue, running,     \* tasks_ and the task of each worker
    functors,           \* callbacks queued in the connection's loop
    pool,               \* "on", "stopping" or "off"
    pendingCount        \* pending_

requestVars == <<up, authenticated, packets, task, answers, breaker, queue, running, functors,
                 pool, pendingCount>>
executor == <<queue, running, pool, pendingCount>>
connection == <<up, authenticated>>

Closed == [state |-> "CLOSED", failures |-> 0, cooled |-> FALSE]

RequestsInit ==
    /\ up = TRUE /\ authenticated = FALSE /\ packets = 0
    /\ task = <<>> /\ answers = <<>>
    /\ breaker = [s \in Services |-> Closed]
    /\ queue = <<>> /\ running = [w \in Workers |-> NoTask] /\ functors = <<>>
    /\ pool = "on" /\ pendingCount = 0

-----------------------------------------------------------------------------
(* Circuit breaker                                                          *)

Admits(s) == breaker[s].state # "OPEN" \/ breaker[s].cooled

\* The first request after the timeout finds the breaker half open, and so do all
\* that come before its result
allowRequest(s) ==
    /\ Admits(s)
    /\ breaker' = [breaker EXCEPT ![s].state = IF @ = "OPEN" THEN "HALF_OPEN" ELSE @]

recordSuccess(s) == [breaker EXCEPT ![s] = Closed]

\* A failure while open starts the timeout again
recordFailure(s) ==
    LET b == breaker[s]
        opens == b.state = "HALF_OPEN" \/ b.failures + 1 >= FailureThreshold
    IN  [breaker EXCEPT ![s] = [state |-> IF opens THEN "OPEN" ELSE b.state,
                                failures |-> b.failures + 1, cooled |-> FALSE]]

\* open_timeout_ms passed since the breaker opened
openTimeout(s) ==
    /\ breaker[s].state = "OPEN" /\ ~breaker[s].cooled
    /\ breaker' = [breaker EXCEPT ![s].cooled = TRUE]
    /\ UNCHANGED <<connection, packets, task, answers, executor, functors>>

-----------------------------------------------------------------------------
(* RPC executor and thread pool                                             *)

\* ThreadPool::submit throws otherwise
Accepts == pool = "on" /\ Len(queue) < QueueSize

Callback(q, result) == [request |-> q, result |-> result]

\* Mutation: a request the pool does not take is dropped
submitForgetsRejected(q) ==
    IF Accepts
    THEN queue' = Append(queue, q) /\ pendingCount' = pendingCount + 1 /\ UNCHANGED functors
    ELSE UNCHANGED <<queue, pendingCount, functors>>

\* A pool that stops or whose queue is full throws, and the callback runs with
\* the error instead
submit(q) ==
    IF Accepts
    THEN queue' = Append(queue, q) /\ pendingCount' = pendingCount + 1 /\ UNCHANGED functors
    ELSE functors' = Append(functors, Callback(q, "rejected")) /\ UNCHANGED <<queue, pendingCount>>

\* A worker takes the oldest task, also while the pool stops
workerLoop(w) ==
    /\ running[w] = NoTask /\ queue # <<>>
    /\ running' = [running EXCEPT ![w] = Head(queue)] /\ queue' = Tail(queue)
    /\ UNCHANGED <<connection, packets, task, answers, breaker, functors, pool, pendingCount>>

\* The call of a backend, which ends within its deadline: with an answer, which may
\* be a refusal, or with a failure.  Its result is recorded in the breaker, the
\* callback queued in the loop, and pending_ goes down
rpc(w) ==
    LET q == running[w]
        s == task[q].service
    IN  /\ q # NoTask
        /\ \/ \E r \in {"ok", "refused"} :
                  breaker' = recordSuccess(s) /\ functors' = Append(functors, Callback(q, r))
           \/ breaker' = recordFailure(s) /\ functors' = Append(functors, Callback(q, "failed"))
        /\ running' = [running EXCEPT ![w] = NoTask] /\ pendingCount' = pendingCount - 1
        /\ UNCHANGED <<connection, packets, task, answers, queue, pool>>

\* stop() wakes the workers
stop ==
    /\ pool = "on" /\ pool' = "stopping"
    /\ UNCHANGED <<connection, packets, task, answers, breaker, queue, running, functors, pendingCount>>

\* stop() goes on when every worker has ended, which it does on an empty queue
join ==
    /\ pool = "stopping" /\ pool' = "off"
    /\ \A w \in Workers : running[w] = NoTask /\ ~ENABLED workerLoop(w)
    /\ UNCHANGED <<connection, packets, task, answers, breaker, queue, running, functors, pendingCount>>

-----------------------------------------------------------------------------
(* The router                                                               *)

\* A packet arrives: updateActiveTime, then the handler of its type
handlePacket(service, purpose, replies) ==
    /\ up /\ packets < MaxPackets /\ packets' = packets + 1
    /\ task' = Append(task, [service |-> service, purpose |-> purpose])
    /\ answers' = Append(answers, replies)
    /\ UNCHANGED <<connection, running, pool>>

\* sendError, or the reply to a heartbeat, on the spot
reply ==
    /\ handlePacket("gateway", "reply", 1)
    /\ UNCHANGED <<breaker, queue, functors, pendingCount>>

\* The rest of every handler: refused by its body, by the rate limiter or by the
\* breaker; otherwise submitted to the executor
forward(service, purpose) ==
    \/ reply
    \/ /\ allowRequest(service)
       /\ handlePacket(service, purpose, 0)
       /\ submit(packets')

requireAuth(service, purpose) ==
    \/ ~authenticated /\ reply
    \/ authenticated /\ forward(service, purpose)

handleHeartbeat == reply
handleRegister == forward("user_service", "answer")
handleLogin == forward("user_service", "bind")
handleResumeSession == forward("user_service", "bind")
handleSendSingleMessage == requireAuth("message_service", "answer")
handleSendGroupMessage == requireAuth("message_service", "answer")
handleAck == requireAuth("message_service", "answer")
handlePullOfflineMessages == requireAuth("message_service", "answer")

\* The callback runs on the loop: nothing is sent on a connection that is gone; a
\* login whose keys were written binds the user
runCallback ==
    LET f == Head(functors)
    IN  /\ functors # <<>> /\ functors' = Tail(functors)
        /\ answers' = IF up THEN [answers EXCEPT ![f.request] = @ + 1] ELSE answers
        /\ authenticated' = (authenticated \/ (up /\ task[f.request].purpose = "bind" /\ f.result = "ok"))
        /\ UNCHANGED <<up, packets, task, breaker, executor>>

\* onConnection of a connection that closed
connectionDown ==
    /\ up /\ up' = FALSE /\ authenticated' = FALSE
    /\ UNCHANGED <<packets, task, answers, breaker, executor, functors>>

LoopStep ==
    \/ handleHeartbeat \/ handleRegister \/ handleLogin \/ handleResumeSession
    \/ handleSendSingleMessage \/ handleSendGroupMessage \/ handleAck \/ handlePullOfflineMessages
    \/ runCallback \/ connectionDown

RequestsNext ==
    \/ LoopStep \/ stop \/ join
    \/ \E w \in Workers : workerLoop(w) \/ rpc(w)
    \/ \E s \in Services : openTimeout(s)

RequestsSpec == RequestsInit /\ [][RequestsNext]_requestVars

-----------------------------------------------------------------------------
(* Properties                                                               *)

\* No packet is answered twice
AnsweredAtMostOnce == \A q \in 1 .. packets : answers[q] <= 1

\* pending_ counts exactly the tasks that wait or run, so it is 0 at rest
\* (fetch_add and fetch_sub of RpcExecutor::submit on every path)
PendingIsExact == pendingCount = Len(queue) + Cardinality({w \in Workers : running[w] # NoTask})

\* A pool that has stopped has run every task it accepted (ThreadPool::stop and
\* workerLoop)
StopDrains == pool = "off" => queue = <<>> /\ pendingCount = 0

\* A closed breaker has seen fewer failures than the threshold since the last
\* success, however late the results of calls that it admitted in other states
\* arrive (recordSuccess, recordFailure)
ClosedIsHealthy ==
    \A s \in Services : breaker[s].state = "CLOSED" => breaker[s].failures < FailureThreshold

\* Every packet of a connection that stays open is answered in the end, and no
\* packet twice, whichever path its request takes: refused at once, rejected by
\* the pool, failed in the backend or completed.  Breakers, pool and executor keep
\* their counts on all of them (GatewayRouter's handlers and callbacks,
\* RpcExecutor::submit, ThreadPool, CircuitBreaker).
RequestsAreServed ==
    /\ [](AnsweredAtMostOnce /\ PendingIsExact /\ StopDrains /\ ClosedIsHealthy)
    /\ []<>(up => \A q \in 1 .. packets : answers[q] = 1)
=============================================================================
