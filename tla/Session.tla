------------------------------ MODULE Session -------------------------------
(***************************************************************************)
(* One user's sessions: the gateways' connections (GatewayServer,          *)
(* ConnectionManager), logins and session resumption (GatewayRouter on its *)
(* RpcExecutor), the online keys in Redis that the push service routes by  *)
(* (GatewayOnlineManager and its worker), and the readers that prune them  *)
(* (OnlineStatusManager, DeviceServiceImpl).                               *)
(*                                                                         *)
(* A Redis command is a step; a login runs on a worker thread and ends in  *)
(* a callback on the connection's event loop, so connections come, go and  *)
(* log in on other threads between any two of its steps.  Packets, tokens  *)
(* and platforms are not modelled; Login and ResumeSession differ in       *)
(* nothing else.  A connection has one login in flight (bound).            *)
(***************************************************************************)
EXTENDS Integers, Sequences, FiniteSets

CONSTANTS
    Gateways,
    Conns,          \* connection ids; each is used once
    GatewayOf,      \* the gateway a connection belongs to
    Devices,        \* the user's device ids
    None,
    QueueCap,       \* capacity of GatewayOnlineManager's worker queue
    MaxLogins,      \* bound: login and resume requests
    MaxReaders,     \* bound: cleanups by readers at once
    MaxFaults       \* bound: failed Redis commands and gateway crashes

ASSUME SessionAssumption ==
    /\ GatewayOf \in [Conns -> Gateways]
    /\ None \notin Gateways \cup Conns \cup Devices
    /\ QueueCap \in Nat /\ MaxLogins \in Nat /\ MaxReaders \in Nat
    /\ MaxFaults \in Nat

VARIABLES
    state,          \* TcpConnection::state_, by connection
    device,         \* ConnectionContext::device_id, None until authenticated
    index,          \* user_device_to_connection_ by gateway and device
    login,          \* the login of each connection: where it is, for which device
    replaced,       \* the connection bindUser is about to close
    queue,          \* online_worker_'s tasks, by gateway
    work,           \* the task the worker executes and where it is
    onlineKey,      \* nebula:user:online:<user>:<device>
    connKey,        \* nebula:user:conn:<user>:<device>
    listed,         \* nebula:user:devices:<user>
    pruning,        \* cleanups by readers of the keys: device, next command
    logins,
    faults

bounded == <<logins, faults>>
gateway == <<state, device, index, replaced>>
redis == <<onlineKey, connKey, listed>>
vars == <<gateway, login, queue, work, redis, pruning, bounded>>

NoLogin == [pc |-> "none", device |-> None]
NoWork == [pc |-> "idle", task |-> None]

Fault == faults < MaxFaults /\ faults' = faults + 1 /\ UNCHANGED logins

Init ==
    /\ state = [c \in Conns |-> "new"]
    /\ device = [c \in Conns |-> None]
    /\ index = [k \in Gateways \X Devices |-> None]
    /\ login = [c \in Conns |-> NoLogin]
    /\ replaced = [c \in Conns |-> None]
    /\ queue = [g \in Gateways |-> << >>]
    /\ work = [g \in Gateways |-> NoWork]
    /\ onlineKey = [d \in Devices |-> None]
    /\ connKey = [d \in Devices |-> None]
    /\ listed = {}
    /\ pruning = {}
    /\ logins = 0 /\ faults = 0

-----------------------------------------------------------------------------
(* GatewayOnlineManager's worker                                            *)

\* submitOnlineTask: a task the queue has no room for is logged and dropped
submitOnlineTask(g, t) ==
    queue' = [queue EXCEPT ![g] = IF Len(@) < QueueCap THEN Append(@, t) ELSE @]

setOfflineAsync(c, d) ==
    submitOnlineTask(GatewayOf[c], [op |-> "offline", device |-> d, conn |-> c])

workerLoop(g) ==
    /\ work[g].pc = "idle" /\ queue[g] # << >>
    /\ work' = [work EXCEPT ![g] = [pc |-> "get", task |-> Head(queue[g])]]
    /\ queue' = [queue EXCEPT ![g] = Tail(@)]
    /\ UNCHANGED <<gateway, login, redis, pruning, bounded>>

Goto(g, place) == work' = [work EXCEPT ![g] = IF place = "idle" THEN NoWork
                                              ELSE [@ EXCEPT !.pc = place]]

\* setOffline's GET: another connection's key is left alone; a missing key, or
\* an unanswered GET, is not
offlineGet(g) ==
    LET t == work[g].task IN
    /\ work[g].pc = "get" /\ t.op = "offline"
    /\ \/ Goto(g, IF connKey[t.device] \in {t.conn, None} THEN "delOnline" ELSE "idle")
          /\ UNCHANGED bounded
       \/ Fault /\ Goto(g, "delOnline")
    /\ UNCHANGED <<gateway, login, queue, redis, pruning>>

\* DEL online, DEL conn and SREM, the cleanup every party ends with, whose
\* results all of them ignore
Cleanup == {"delOnline", "delConn", "srem"}

NextCleanup(place) ==
    CASE place = "delOnline" -> "delConn" [] place = "delConn" -> "srem" [] OTHER -> "idle"

Delete(place, d) ==
    /\ onlineKey' = IF place = "delOnline" THEN [onlineKey EXCEPT ![d] = None] ELSE onlineKey
    /\ connKey' = IF place = "delConn" THEN [connKey EXCEPT ![d] = None] ELSE connKey
    /\ listed' = IF place = "srem" THEN listed \ {d} ELSE listed

offlineDelete(g) ==
    /\ work[g].pc \in Cleanup
    /\ Delete(work[g].pc, work[g].task.device)
    /\ Goto(g, NextCleanup(work[g].pc))
    /\ UNCHANGED <<gateway, login, queue, pruning, bounded>>

\* Mutation: the heartbeat does not list the device again
refreshOnlineTtlOnly(g) ==
    /\ work[g].pc = "get" /\ work[g].task.op = "refresh"
    /\ Goto(g, "idle")
    /\ UNCHANGED <<gateway, login, queue, redis, pruning, bounded>>

\* refreshOnline: for the connection the key names, list the device again and
\* extend the keys
refreshOnline(g) ==
    LET t == work[g].task IN
    /\ t # None /\ t.op = "refresh"
    /\ \/ /\ work[g].pc = "get"
          /\ \/ Goto(g, IF connKey[t.device] = t.conn THEN "sadd" ELSE "idle")
                /\ UNCHANGED bounded
             \/ Fault /\ Goto(g, "idle")
          /\ UNCHANGED listed
       \/ /\ work[g].pc = "sadd"
          /\ Goto(g, "idle")
          /\ \/ listed' = listed \cup {t.device} /\ UNCHANGED bounded
             \/ Fault /\ UNCHANGED listed
    /\ UNCHANGED <<gateway, login, queue, onlineKey, connKey, pruning>>

-----------------------------------------------------------------------------
(* GatewayServer                                                            *)

\* onConnection, connection up: addConnection
connect(c) ==
    /\ state[c] = "new"
    /\ state' = [state EXCEPT ![c] = "up"]
    /\ UNCHANGED <<device, index, replaced, login, queue, work, redis, pruning, bounded>>

\* TcpConnection::forceClose, called by checkHeartbeatTimeout, KickUser,
\* KickConnection and on protocol errors: closed later, in its own loop
forceClose(c) ==
    /\ state[c] = "up"
    /\ state' = [state EXCEPT ![c] = "closing"]
    /\ UNCHANGED <<device, index, replaced, login, queue, work, redis, pruning, bounded>>

\* Mutation: the mapping of the device goes whichever connection it names
removeConnectionByDevice(c) ==
    index' = [index EXCEPT ![<<GatewayOf[c], device[c]>>] = None]

\* ConnectionManager::removeConnection
removeConnection(c) ==
    index' = [index EXCEPT ![<<GatewayOf[c], device[c]>>] = IF @ = c THEN None ELSE @]

\* onConnection, connection down, whether the peer or the gateway closed it
disconnect(c) ==
    /\ state[c] \in {"up", "closing"}
    /\ state' = [state EXCEPT ![c] = "gone"]
    /\ device' = [device EXCEPT ![c] = None]
    /\ \/ device[c] # None /\ setOfflineAsync(c, device[c]) /\ removeConnection(c)
       \/ device[c] = None /\ UNCHANGED <<queue, index>>
    /\ UNCHANGED <<replaced, login, work, redis, pruning, bounded>>

\* handleHeartbeat of an authenticated connection (bound: one refresh queued)
heartbeat(c) ==
    LET t == [op |-> "refresh", device |-> device[c], conn |-> c] IN
    /\ state[c] = "up" /\ device[c] # None
    /\ \A i \in DOMAIN queue[GatewayOf[c]] : queue[GatewayOf[c]][i] # t
    /\ work[GatewayOf[c]].task # t
    /\ submitOnlineTask(GatewayOf[c], t)
    /\ UNCHANGED <<gateway, login, work, redis, pruning, bounded>>

\* The gateway process dies with its connections, its logins and its queue
crash(g) ==
    LET its(c) == GatewayOf[c] = g /\ state[c] # "new" IN
    /\ Fault
    /\ \E c \in Conns : its(c) /\ state[c] # "gone"
    /\ state' = [c \in Conns |-> IF its(c) THEN "gone" ELSE state[c]]
    /\ device' = [c \in Conns |-> IF its(c) THEN None ELSE device[c]]
    /\ login' = [c \in Conns |-> IF its(c) THEN NoLogin ELSE login[c]]
    /\ replaced' = [c \in Conns |-> IF its(c) THEN None ELSE replaced[c]]
    /\ index' = [k \in Gateways \X Devices |-> IF k[1] = g THEN None ELSE index[k]]
    /\ queue' = [queue EXCEPT ![g] = << >>]
    /\ work' = [work EXCEPT ![g] = NoWork]
    /\ UNCHANGED <<redis, pruning>>

-----------------------------------------------------------------------------
(* GatewayRouter: login and resume                                          *)

At(c, place) == login[c].pc = place

LoginGoto(c, place) == login' = [login EXCEPT ![c].pc = place]

EndLogin(c) == login' = [login EXCEPT ![c] = NoLogin]

\* handleLogin, handleResumeSession: submitted to the RpcExecutor
handleLogin(c, d) ==
    /\ state[c] = "up" /\ At(c, "none")
    /\ logins < MaxLogins /\ logins' = logins + 1
    /\ login' = [login EXCEPT ![c] = [pc |-> "rpc", device |-> d]]
    /\ UNCHANGED <<gateway, queue, work, redis, pruning, faults>>

\* The Login or ValidateToken RPC; a refusal or a failure ends in an error reply
loginRpc(c) ==
    /\ At(c, "rpc")
    /\ LoginGoto(c, "sadd") \/ EndLogin(c)
    /\ UNCHANGED <<gateway, queue, work, redis, pruning, bounded>>

\* GatewayOnlineManager::setOnline, command by command; the first one to fail
\* ends it, EXPIRE also when the set was emptied since
setOnline(c) ==
    LET d == login[c].device IN
    /\ \/ /\ At(c, "sadd") /\ LoginGoto(c, "expire")
          /\ listed' = listed \cup {d}
          /\ UNCHANGED <<onlineKey, connKey, bounded>>
       \/ /\ At(c, "expire")
          /\ LoginGoto(c, IF listed = {} THEN "delOnline" ELSE "setOnline")
          /\ UNCHANGED <<redis, bounded>>
       \/ /\ At(c, "setOnline") /\ LoginGoto(c, "setConn")
          /\ onlineKey' = [onlineKey EXCEPT ![d] = GatewayOf[c]]
          /\ UNCHANGED <<connKey, listed, bounded>>
       \/ /\ At(c, "setConn") /\ LoginGoto(c, "callback")
          /\ connKey' = [connKey EXCEPT ![d] = c]
          /\ UNCHANGED <<onlineKey, listed, bounded>>
       \/ /\ login[c].pc \in {"sadd", "expire", "setOnline", "setConn"}
          /\ Fault /\ LoginGoto(c, "delOnline")
          /\ UNCHANGED redis
    /\ UNCHANGED <<gateway, queue, work, pruning>>

\* setOnline failed: its keys are deleted and the client gets an error
undoOnline(c) ==
    /\ login[c].pc \in Cleanup
    /\ Delete(login[c].pc, login[c].device)
    /\ IF At(c, "srem") THEN EndLogin(c) ELSE LoginGoto(c, NextCleanup(login[c].pc))
    /\ UNCHANGED <<gateway, queue, work, pruning, bounded>>

\* The callback finds the connection gone or closing and takes the keys back
loginTooLate(c) ==
    /\ At(c, "callback") /\ state[c] # "up"
    /\ setOfflineAsync(c, login[c].device)
    /\ EndLogin(c)
    /\ UNCHANGED <<gateway, work, redis, pruning, bounded>>

\* ConnectionManager::bindUser under its mutex: the connection leaves the device
\* it was bound to and takes the place of another connection of the new one
bindUser(c) ==
    LET g == GatewayOf[c]
        d == login[c].device
        left == [index EXCEPT ![<<g, device[c]>>] = IF @ = c THEN None ELSE @]
        cleared == IF device[c] = None THEN index ELSE left
        existing == cleared[<<g, d>>]
    IN  /\ At(c, "callback") /\ state[c] = "up"
        /\ device' = [device EXCEPT ![c] = d]
        /\ index' = [cleared EXCEPT ![<<g, d>>] = c]
        /\ \/ /\ existing \notin {None, c}
              /\ replaced' = [replaced EXCEPT ![c] = existing]
              /\ LoginGoto(c, "replace")
           \/ existing \in {None, c} /\ EndLogin(c) /\ UNCHANGED replaced
        /\ UNCHANGED <<state, queue, work, redis, pruning, bounded>>

\* bindUser after its mutex: the replaced connection is closed
closeReplaced(c) ==
    /\ At(c, "replace")
    /\ state' = [state EXCEPT ![replaced[c]] = IF @ = "up" THEN "closing" ELSE @]
    /\ replaced' = [replaced EXCEPT ![c] = None]
    /\ EndLogin(c)
    /\ UNCHANGED <<device, index, queue, work, redis, pruning, bounded>>

-----------------------------------------------------------------------------
(* Redis and the readers of the online keys                                 *)

\* Mutation: refreshOnline does not compare the connection
RefreshedByDevice(d) ==
    \E c \in Conns : state[c] = "up" /\ device[c] = d

\* Heartbeats of a live connection extend the keys: refreshOnline's EXPIREs are
\* reached when the conn key names the connection, and stop at a missing key
Refreshed(d) ==
    /\ onlineKey[d] # None
    /\ \E c \in Conns : connKey[d] = c /\ state[c] = "up" /\ device[c] = d

\* A key that nobody refreshes reaches the end of its TTL
expire(d) ==
    /\ ~ Refreshed(d)
    /\ \/ /\ onlineKey[d] # None
          /\ onlineKey' = [onlineKey EXCEPT ![d] = None] /\ UNCHANGED connKey
       \/ /\ connKey[d] # None
          /\ connKey' = [connKey EXCEPT ![d] = None] /\ UNCHANGED onlineKey
    /\ UNCHANGED <<gateway, login, queue, work, listed, pruning, bounded>>

\* So does the set, when no device of the user is refreshed
expireDevices ==
    /\ listed # {} /\ \A d \in Devices : ~ Refreshed(d)
    /\ listed' = {}
    /\ UNCHANGED <<gateway, login, queue, work, onlineKey, connKey, pruning, bounded>>

\* A reader finds one of the keys missing: getOnlineStatuses and findOnline then
\* prune the listed device, the device service's isOnline clears all of it
findMissing(d) ==
    /\ None \in {onlineKey[d], connKey[d]}
    /\ Cardinality(pruning) < MaxReaders
    /\ \E place \in {"delOnline", "srem"} :
          /\ place = "srem" => d \in listed
          /\ <<d, place>> \notin pruning
          /\ pruning' = pruning \cup {<<d, place>>}
    /\ UNCHANGED <<gateway, login, queue, work, redis, bounded>>

prune(d, place) ==
    /\ <<d, place>> \in pruning
    /\ Delete(place, d)
    /\ pruning' = (pruning \ {<<d, place>>})
                  \cup ({<<d, NextCleanup(place)>>} \cap (Devices \X Cleanup))
    /\ UNCHANGED <<gateway, login, queue, work, bounded>>

\* DeviceServiceImpl::revokeDevice: the connection both keys name is kicked,
\* unless the RPC fails or KickConnection refuses it, and all keys are cleared.
\* When a key is missing isOnline's own cleanup comes first (findMissing).
revokeDevice(d) ==
    /\ <<d, "delOnline">> \notin pruning /\ Cardinality(pruning) < MaxReaders
    /\ \/ UNCHANGED state
       \/ \E c \in Conns :
             /\ connKey[d] = c /\ onlineKey[d] = GatewayOf[c]
             /\ state[c] = "up" /\ device[c] = d
             /\ state' = [state EXCEPT ![c] = "closing"]
    /\ pruning' = pruning \cup {<<d, "delOnline">>}
    /\ UNCHANGED <<device, index, replaced, login, queue, work, redis, bounded>>

-----------------------------------------------------------------------------
WorkerStep(g) == workerLoop(g) \/ offlineGet(g) \/ offlineDelete(g) \/ refreshOnline(g)

LoginStep(c) ==
    loginRpc(c) \/ setOnline(c) \/ undoOnline(c) \/ loginTooLate(c) \/ bindUser(c)
    \/ closeReplaced(c)

Next ==
    \/ \E g \in Gateways : WorkerStep(g) \/ crash(g)
    \/ \E c \in Conns : \/ connect(c) \/ forceClose(c) \/ disconnect(c) \/ heartbeat(c)
                        \/ LoginStep(c)
                        \/ \E d \in Devices : handleLogin(c, d)
    \/ \E d \in Devices : \/ expire(d) \/ findMissing(d) \/ revokeDevice(d)
                          \/ \E place \in Cleanup : prune(d, place)
    \/ expireDevices

Spec == Init /\ [][Next]_vars

\* Workers and executor threads run, a closed connection's loop notices it,
\* clients send heartbeats, and TTLs end.
Fairness ==
    /\ \A g \in Gateways : WF_vars(WorkerStep(g))
    /\ \A c \in Conns :
          /\ WF_vars(LoginStep(c)) /\ WF_vars(heartbeat(c))
          /\ WF_vars(state[c] = "closing" /\ disconnect(c))
    /\ \A d \in Devices : WF_vars(expire(d))

FairSpec == Spec /\ Fairness

-----------------------------------------------------------------------------
(* Properties                                                               *)

\* ConnectionManager's index and contexts agree: an indexed connection is bound
\* to that device on that gateway and not yet removed, and an authenticated
\* connection that is still up is indexed, unless a login that took its place is
\* about to close it.  KickUser and the next login find every session this way.
IndexIsSound ==
    /\ \A g \in Gateways, d \in Devices : \A c \in Conns : index[<<g, d>>] = c =>
          GatewayOf[c] = g /\ device[c] = d /\ state[c] \in {"up", "closing"}
    /\ \A c \in Conns : state[c] = "up" /\ device[c] # None =>
          index[<<GatewayOf[c], device[c]>>] = c \/ \E x \in Conns : replaced[x] = c

\* "Close: ... delete Redis online state if connection_id still matches": the
\* close of a connection deletes no key that names another connection.
OfflineDeletesOwnKeys ==
    [][\A g \in Gateways : offlineDelete(g) =>
          \A d \in Devices : connKey'[d] # connKey[d] => connKey[d] = work[g].task.conn]_vars

\* No conn key names for ever a connection that is closed, or logged in as another
\* device, whatever was lost: the cleanup task, the queue, the whole gateway.
\* Heartbeats of other connections of the device do not keep it alive.
StaleKeyDisappears ==
    \A c \in Conns, d \in Devices :
        []<>(connKey[d] # c \/ (state[c] = "up" /\ device[c] = d))

\* A live session whose keys are in place does not stay unlisted after a reader or
\* an older session's cleanup removed its device while the login was still writing
\* the keys: refreshOnline's SADD repairs it, so the push service's
\* getOnlineStatuses finds the device.
ListedAgain ==
    \A d \in Devices : []<>(d \in listed \/ ~ Refreshed(d))
=============================================================================
