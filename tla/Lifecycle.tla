----------------------------- MODULE Lifecycle -----------------------------
(***************************************************************************)
(* The life of a service process: main() builds the context, starts its    *)
(* worker thread if it has one and its gRPC server, installs the signal    *)
(* watcher, serves until SIGTERM or SIGINT, and destroys everything in the *)
(* reverse order of construction.  A main() and its context's init() are   *)
(* sequences of steps; a step of init() or of the start of the server may  *)
(* fail, and main() then returns, which destroys what there is.            *)
(*                                                                         *)
(* The worker thread is the outbox worker of the message service, the push *)
(* worker of the push service or a thread of the gateway's RpcExecutor.    *)
(* It uses a Kafka producer, a Kafka consumer or the event loops.          *)
(***************************************************************************)
EXTENDS Integers, Sequences, FiniteSets, SequencesExt

CONSTANTS
    Processes,      \* the services of this instance
    MaxHandlers,    \* bound: concurrent RPC handlers
    MaxTasks        \* bound: tasks in the gateway's executor

VARIABLES
    service, place, \* the process and the place of main() in its script
    signalled,      \* SIGTERM or SIGINT came
    watcher,        \* the watcher's thread: "none", "polling", "shutting" or "ended"
    grpc,           \* the server: "none", "up", "closing" or "down"
    handlers,       \* RPC handlers running
    threadOf,       \* the worker: "none", "idle", "busy" or "ended"
    keepOn,         \* its running_
    joined,
    tasks,          \* tasks queued in the executor
    looping, quit,  \* the gateway's event loop
    gone,           \* what was destroyed
    broken,         \* something destroyed was used, or a joinable thread destroyed
    selfEnded,      \* the push worker stopped by itself
    quitLost        \* quit() came before loop()

lifeVars == <<service, place, signalled, watcher, grpc, handlers, threadOf, keepOn,
              joined, tasks, looping, quit, gone, broken, selfEnded, quitLost>>
signals == <<signalled, watcher, quit, quitLost>>
workerVars == <<threadOf, keepOn, joined, tasks, broken, selfEnded>>

-----------------------------------------------------------------------------
\* The contexts: init() of each
UserServiceContext == <<"config", "mysql", "redis">>
DeviceServiceContext == <<"config", "mysql", "redis", "gateways">>
RelationServiceContext == <<"config", "mysql">>
ConversationServiceContext == <<"config", "mysql">>
AdminServiceContext == <<"config", "mysql", "redis">>
MessageServiceContext == <<"config", "mysql", "redis", "kafka", "start">>
PushServiceContext == <<"config", "mysql", "redis", "kafka", "gateways">>
GatewayContext == <<"config", "tls", "redis", "backends", "start">>

\* PushServiceContext::startWorkers and stopWorkers
startWorkers == <<"consumer", "start">>
stopWorkers == <<"stop", "join", "~worker", "~consumer">>

\* The mains: what each does after init(), up to its return ...
userMain == <<"credentials", "listen", "watch", "wait">>
deviceMain == <<"credentials", "listen", "watch", "wait">>
relationMain == <<"credentials", "listen", "watch", "wait">>
conversationMain == <<"credentials", "listen", "watch", "wait">>
adminMain == <<"credentials", "listen", "watch", "wait">>
messageMain == <<"credentials", "listen", "watch", "wait">>
pushMain == startWorkers \o <<"credentials", "listen", "watch", "wait">>
gatewayMain == <<"credentials", "listen", "watch", "loop", "looped", "shutdown", "wait">>

\* ... and what is destroyed then: the members of the message service's context from
\* its last to its first, the producer before the worker that uses it; the gateway's
\* loops before the executor in its context
plainEnd == <<"~watcher", "~server", "~context">>
messageEnd == <<"~watcher", "~server", "~producer", "stop", "join", "~worker", "~context">>
pushEnd == stopWorkers \o <<"~watcher", "~server", "~context">>
gatewayEnd == <<"~watcher", "~server", "~loops", "stop", "join", "~worker", "~context">>

Begin ==
    [user |-> UserServiceContext \o userMain, device |-> DeviceServiceContext \o deviceMain,
     relation |-> RelationServiceContext \o relationMain,
     conversation |-> ConversationServiceContext \o conversationMain,
     admin |-> AdminServiceContext \o adminMain,
     message |-> MessageServiceContext \o messageMain,
     push |-> PushServiceContext \o pushMain, gateway |-> GatewayContext \o gatewayMain]

End == [s \in DOMAIN Begin |-> CASE s = "message" -> messageEnd [] s = "push" -> pushEnd
                                 [] s = "gateway" -> gatewayEnd [] OTHER -> plainEnd]

Script(s) == Begin[s] \o End[s]

\* The destruction of what the worker thread uses
Uses == [message |-> "~producer", push |-> "~consumer", gateway |-> "~loops"]

LifecycleInit ==
    /\ service \in Processes /\ place = 1 /\ signalled = FALSE /\ watcher = "none"
    /\ grpc = "none" /\ handlers = 0 /\ threadOf = "none" /\ keepOn = FALSE /\ joined = FALSE
    /\ tasks = 0 /\ looping = FALSE /\ quit = FALSE /\ gone = {} /\ broken = FALSE
    /\ selfEnded = FALSE /\ quitLost = FALSE

Over == place > Len(Script(service)) \/ broken
Doing(what) == ~ Over /\ Script(service)[place] \in what
goOn == place' = place + 1 /\ UNCHANGED service

serverVars == <<watcher, grpc, handlers, signalled, looping, quit, quitLost>>

\* A step of init() or of the start: it succeeds, or main() returns
build ==
    /\ Doing({"config", "mysql", "redis", "kafka", "gateways", "tls", "backends", "consumer",
              "credentials"})
    /\ \/ goOn
       \/ place' = Len(Begin[service]) + 1 /\ UNCHANGED service
    /\ UNCHANGED <<serverVars, workerVars, gone>>

\* OutboxWorker::start, PushWorker::start, RpcExecutor::start
startThread ==
    /\ Doing({"start"}) /\ goOn /\ threadOf' = "idle" /\ keepOn' = TRUE
    /\ UNCHANGED <<serverVars, joined, tasks, broken, selfEnded, gone>>

\* BuildAndStart
listenRpc ==
    /\ Doing({"listen"})
    /\ \/ goOn /\ grpc' = "up"
       \/ place' = Len(Begin[service]) + 1 /\ UNCHANGED <<service, grpc>>
    /\ UNCHANGED <<watcher, handlers, signalled, looping, quit, quitLost, workerVars, gone>>

\* The watcher's constructor installs the handlers and starts its thread
installWatcher ==
    /\ Doing({"watch"}) /\ goOn /\ watcher' = "polling"
    /\ UNCHANGED <<grpc, handlers, signalled, looping, quit, quitLost, workerVars, gone>>

\* GrpcServer::wait, and rpc_thread.join() of the gateway
waitServer ==
    /\ Doing({"wait"}) /\ grpc = "down" /\ goOn
    /\ UNCHANGED <<serverVars, workerVars, gone>>

\* EventLoop::loop() clears quit_ as it begins, and returns when it is set
enterLoop ==
    /\ Doing({"loop"}) /\ goOn /\ looping' = TRUE /\ quit' = FALSE
    /\ quitLost' = (quitLost \/ quit)
    /\ UNCHANGED <<signalled, watcher, grpc, handlers, workerVars, gone>>

leaveLoop ==
    /\ Doing({"looped"}) /\ quit /\ goOn /\ looping' = FALSE
    /\ UNCHANGED <<signals, grpc, handlers, workerVars, gone>>

\* Shutdown() by main() or by ~Server: no new handlers; the watcher's may be under way
closing == IF grpc = "up" THEN "closing" ELSE grpc

shutdownServer ==
    /\ Doing({"shutdown"}) /\ goOn /\ grpc' = closing
    /\ UNCHANGED <<signals, handlers, looping, workerVars, gone>>

\* ~ShutdownSignalWatcher joins its thread, which main outlives only after a signal
destroyWatcher ==
    /\ Doing({"~watcher"}) /\ watcher \in {"none", "ended"} /\ goOn
    /\ UNCHANGED <<signals, grpc, handlers, looping, workerVars, gone>>

\* ~Server, which would shut down a server that is up
destroyServer ==
    /\ Doing({"~server"}) /\ grpc \in {"none", "down"} /\ goOn
    /\ UNCHANGED <<signals, grpc, handlers, looping, workerVars, gone>>

\* A consumer that was closed, a member or a local object that is destroyed
destroy ==
    /\ Doing({"~producer", "~consumer", "~loops", "~context"}) /\ goOn
    /\ gone' = gone \cup {Script(service)[place]}
    /\ UNCHANGED <<serverVars, workerVars>>

\* stop() of a worker: nothing, not even join(), if it does not run
stopThread ==
    /\ Doing({"stop"}) /\ keepOn' = FALSE /\ UNCHANGED <<service, joined>>
    /\ place' = IF keepOn THEN place + 1 ELSE place + 2
    /\ UNCHANGED <<serverVars, threadOf, tasks, broken, selfEnded, gone>>

joinThread ==
    /\ Doing({"join"}) /\ threadOf = "ended" /\ goOn /\ joined' = TRUE
    /\ UNCHANGED <<serverVars, threadOf, keepOn, tasks, broken, selfEnded, gone>>

\* ~thread of a thread that was started and not joined is std::terminate
destroyThread ==
    /\ Doing({"~worker"}) /\ goOn /\ broken' = (threadOf # "none" /\ ~ joined)
    /\ UNCHANGED <<serverVars, threadOf, keepOn, joined, tasks, selfEnded, gone>>

mainStep ==
    \/ build \/ startThread \/ listenRpc \/ installWatcher \/ waitServer \/ enterLoop \/ leaveLoop
    \/ shutdownServer \/ destroyWatcher \/ destroyServer \/ destroy
    \/ stopThread \/ joinThread \/ destroyThread

-----------------------------------------------------------------------------
\* A signal sets the flag; before the handlers are installed it ends the process
handleSignal ==
    /\ ~ signalled /\ ~ Over /\ signalled' = TRUE
    /\ place' = IF watcher = "none" THEN Len(Script(service)) + 1 ELSE place
    /\ UNCHANGED <<service, watcher, grpc, handlers, looping, quit, quitLost, workerVars, gone>>

\* Mutation: the gateway's loop is not told
watchForgetsLoop ==
    /\ ~ Over
    /\ \/ watcher = "polling" /\ signalled /\ watcher' = "shutting" /\ grpc' = closing
       \/ watcher = "shutting" /\ grpc = "down" /\ watcher' = "ended" /\ UNCHANGED grpc
    /\ UNCHANGED <<service, place, signalled, handlers, looping, quit, quitLost, workerVars, gone>>

\* The watcher's thread: Shutdown() returns when the handlers are done, and quit() follows
watch ==
    /\ ~ Over
    /\ \/ watcher = "polling" /\ signalled /\ watcher' = "shutting" /\ grpc' = closing
          /\ UNCHANGED quit
       \/ watcher = "shutting" /\ grpc = "down" /\ watcher' = "ended" /\ UNCHANGED grpc
          /\ quit' = (service = "gateway")
    /\ UNCHANGED <<service, place, signalled, handlers, looping, quitLost, workerVars, gone>>

\* External: gRPC runs handlers while the server is up and is down when they are done
handleRpc ==
    /\ grpc = "up" /\ ~ Over /\ handlers < MaxHandlers /\ handlers' = handlers + 1
    /\ UNCHANGED <<service, place, signals, grpc, looping, workerVars, gone>>

finishRpc ==
    /\ handlers > 0 /\ ~ Over /\ handlers' = handlers - 1
    /\ UNCHANGED <<service, place, signals, grpc, looping, workerVars, gone>>

serverDown ==
    /\ grpc = "closing" /\ handlers = 0 /\ ~ Over /\ grpc' = "down"
    /\ UNCHANGED <<service, place, signals, handlers, looping, workerVars, gone>>

\* A packet of a client brings a task to the executor while the loops run
submitTask ==
    /\ service = "gateway" /\ looping /\ ~ Over /\ tasks < MaxTasks /\ tasks' = tasks + 1
    /\ UNCHANGED <<service, place, serverVars, threadOf, keepOn, joined, broken, selfEnded, gone>>

\* The thread's loop: a round of work, during which it uses what it uses, until it is
\* told to stop; the executor's thread empties the queue first
workRound ==
    /\ ~ Over
    /\ \/ /\ threadOf = "idle" /\ threadOf' = "busy" /\ UNCHANGED <<keepOn, broken, selfEnded>>
          /\ IF service = "gateway" THEN tasks > 0 /\ tasks' = tasks - 1
             ELSE keepOn /\ UNCHANGED tasks
       \/ /\ threadOf = "busy" /\ threadOf' = "idle" /\ UNCHANGED <<keepOn, tasks, selfEnded>>
          /\ broken' = (Uses[service] \in gone)
       \/ /\ threadOf = "idle" /\ ~ keepOn /\ tasks = 0 /\ threadOf' = "ended"
          /\ UNCHANGED <<keepOn, tasks, broken, selfEnded>>
       \/ /\ service = "push" /\ threadOf = "busy" /\ threadOf' = "ended"
          /\ keepOn' = FALSE /\ selfEnded' = TRUE /\ UNCHANGED <<tasks, broken>>
    /\ UNCHANGED <<service, place, serverVars, joined, gone>>

LifecycleNext ==
    \/ mainStep \/ handleSignal \/ watch \/ handleRpc \/ finishRpc \/ serverDown
    \/ submitTask \/ workRound

LifecycleSpec == LifecycleInit /\ [][LifecycleNext]_lifeVars

-----------------------------------------------------------------------------
\* No RPC handler runs when the context it works on is destroyed, so that the MySQL
\* pool is not stopped while a connection is leased, on every way out of main()
HandlersHaveTheirContext == handlers > 0 => "~context" \notin gone

\* The push service stops without harm: its consumers are closed after its worker was
\* joined, on every way out of main().  Excepted is a worker that has stopped itself,
\* for which stop() does not call join()
PushStopsCleanly == service = "push" /\ ~ selfEnded => ~ broken

\* A service stops when it is told to: main() comes to its end, whatever handlers, tasks
\* and worker threads are under way, and takes nothing away from under them.  The
\* gateway is excepted when the signal comes so early that quit() precedes loop(), which
\* clears quit_ again (every main(), ShutdownSignalWatcher, EventLoop::loop).
StopsWhenAsked ==
    [](HandlersHaveTheirContext /\ PushStopsCleanly) /\ []<>(signalled => Over \/ quitLost)
=============================================================================
