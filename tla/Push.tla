-------------------------------- MODULE Push --------------------------------
(***************************************************************************)
(* The push service: workers of one Kafka consumer group (PushWorker,      *)
(* KafkaConsumer) take message records, dispatch them to the recipients    *)
(* (PushDispatcher, PushRetryManager, OfflineMessageDao) and commit their  *)
(* offsets.  Brokers, Redis, MySQL and the gateways may fail any call;     *)
(* partitions may be taken from a worker at any moment.                    *)
(*                                                                         *)
(* Each topic has one partition.  Whether a user is online, and which of   *)
(* the user's connections take a message, changes at any time and is a     *)
(* choice made when the dispatcher asks.                                   *)
(***************************************************************************)
EXTENDS Integers, Sequences, FiniteSets

CONSTANTS
    Workers,        \* the PushWorker threads of the consumer group
    Users,          \* the members of the group, and the users of single chats
    Messages,       \* message ids
    To,             \* MessageData::to_user_id by message, NoUser for a group message
    From,           \* MessageData::from_user_id by message
    Malformed,      \* messages whose payload does not parse or lacks an id
    Owner,          \* the owner of the group, whom LeaveGroup refuses
    NoUser, NoWorker,
    MaxRetry,       \* PushRetryManager::max_retry_count_
    MaxPublish,     \* bound: times the outbox publishes one message
    MaxFaults       \* bound: failed calls, crashes and lost partitions

ASSUME PushAssumption ==
    /\ To \in [Messages -> Users \cup {NoUser}]
    /\ From \in [Messages -> Users]
    /\ Malformed \subseteq Messages
    /\ Owner \in Users
    /\ NoUser \notin Users
    /\ NoWorker \notin Workers
    /\ MaxRetry \in Nat
    /\ MaxPublish \in Nat
    /\ MaxFaults \in Nat

VARIABLES
    log,            \* the records of the single, group and retry topics
    dlq,            \* the records of the dead-letter topic
    committed,      \* the consumer group's committed offsets
    position,       \* the fetch position of each partition's owner
    owner,          \* the worker a partition is assigned to
    running,        \* PushWorker::running_
    pc,             \* where each worker is in run()
    cur,            \* the record a worker handles: partition and offset
    todo,           \* recipients the worker has not dispatched to yet
    user,           \* the recipient whose delivery failed
    failed,         \* whether a dispatch of this record failed
    members,        \* the members of the group (GroupDao::listMembers)
    delivered,      \* <<message, user>>: a connection of the user took the message
    offline,        \* <<message, user>>: rows of offline_messages
    retries,        \* nebula:push:retry:<message>:<user>, capped at MaxRetry + 1
    faults

kafka == <<log, dlq, committed, position, owner>>
locals == <<cur, todo, user, failed>>
stores == <<delivered, offline, retries>>
vars == <<kafka, running, pc, locals, members, stores, faults>>

-----------------------------------------------------------------------------
Topics == {"single", "group", "retry"}

NoRecord == [p |-> "single", off |-> 0]

Cur(w) == log[cur[w].p][cur[w].off + 1]

\* messageForRecipient: a copy addressed to one user.
Scoped(w) == [msg |-> Cur(w).msg, to |-> user[w]]

Goto(w, place) == pc' = [pc EXCEPT ![w] = place]

Fault == faults < MaxFaults /\ faults' = faults + 1

Init ==
    /\ log = [p \in Topics |-> <<>>]
    /\ dlq = {}
    /\ committed = [p \in Topics |-> 0]
    /\ position = [p \in Topics |-> 0]
    /\ owner = [p \in Topics |-> NoWorker]
    /\ running = [w \in Workers |-> FALSE]
    /\ pc = [w \in Workers |-> "off"]
    /\ cur = [w \in Workers |-> NoRecord]
    /\ todo = [w \in Workers |-> {}]
    /\ user = [w \in Workers |-> NoUser]
    /\ failed = [w \in Workers |-> FALSE]
    /\ members = Users
    /\ delivered = {}
    /\ offline = {}
    /\ retries = [k \in Messages \X Users |-> 0]
    /\ faults = 0

-----------------------------------------------------------------------------
(* The environment: the outbox publishes, members leave, partitions move. *)

\* The outbox publishes at least once.
publish(m) ==
    LET p == IF To[m] = NoUser THEN "group" ELSE "single"
        r == [msg |-> m, to |-> To[m]]
    IN  /\ Cardinality({i \in DOMAIN log[p] : log[p][i] = r}) < MaxPublish
        /\ log' = [log EXCEPT ![p] = Append(@, r)]
        /\ UNCHANGED <<dlq, committed, position, owner, running, pc, locals, members, stores, faults>>

leaveGroup(u) ==
    /\ u \in members \ {Owner}
    /\ members' = members \ {u}
    /\ UNCHANGED <<kafka, running, pc, locals, stores, faults>>

\* The group coordinator gives a free partition to a worker that polls, which
\* starts from the committed offset.
assign(p, w) ==
    /\ owner[p] = NoWorker
    /\ pc[w] \notin {"off", "stopped"}
    /\ owner' = [owner EXCEPT ![p] = w]
    /\ position' = [position EXCEPT ![p] = committed[p]]
    /\ UNCHANGED <<log, dlq, committed, running, pc, locals, members, stores, faults>>

\* A rebalance takes a partition away, perhaps while its worker handles a record.
revoke(p) ==
    /\ Fault
    /\ owner[p] # NoWorker
    /\ owner' = [owner EXCEPT ![p] = NoWorker]
    /\ UNCHANGED <<log, dlq, committed, position, running, pc, locals, members, stores>>

\* A consumer that no longer polls leaves the group when max.poll.interval.ms
\* runs out.
expel(p) ==
    /\ owner[p] # NoWorker
    /\ pc[owner[p]] = "stopped"
    /\ owner' = [owner EXCEPT ![p] = NoWorker]
    /\ UNCHANGED <<log, dlq, committed, position, running, pc, locals, members, stores, faults>>

-----------------------------------------------------------------------------
(* PushWorker *)

\* A consumer that closes, or dies, gives up its partitions.
Release(w) == owner' = [p \in Topics |-> IF owner[p] = w THEN NoWorker ELSE owner[p]]

start(w) ==
    /\ pc[w] = "off"
    /\ running' = [running EXCEPT ![w] = TRUE]
    /\ Goto(w, "poll")
    /\ UNCHANGED <<kafka, locals, members, stores, faults>>

stop(w) ==
    /\ Fault
    /\ running[w]
    /\ running' = [running EXCEPT ![w] = FALSE]
    /\ UNCHANGED <<kafka, pc, locals, members, stores>>

crash(w) ==
    /\ Fault
    /\ pc[w] # "off"
    /\ running' = [running EXCEPT ![w] = FALSE]
    /\ Goto(w, "off")
    /\ Release(w)
    /\ UNCHANGED <<log, dlq, committed, position, locals, members, stores>>

\* The top of run(): a stopped worker leaves, after the record in hand; else the
\* consumer returns the next record of one of its partitions.
poll(w) ==
    /\ pc[w] = "poll"
    /\ \/ /\ ~running[w]
          /\ Goto(w, "off")
          /\ Release(w)
          /\ UNCHANGED <<position, cur>>
       \/ /\ running[w]
          /\ \E p \in Topics :
                /\ owner[p] = w
                /\ position[p] < Len(log[p])
                /\ cur' = [cur EXCEPT ![w] = [p |-> p, off |-> position[p]]]
                /\ position' = [position EXCEPT ![p] = position[p] + 1]
          /\ Goto(w, "handle")
          /\ UNCHANGED owner
    /\ UNCHANGED <<log, dlq, committed, running, todo, user, failed, members, stores, faults>>

\* handleKafkaMessage up to the dispatcher: single and retry records go to
\* to_user_id, group records to the members but the sender.
handle(w) ==
    /\ pc[w] = "handle"
    /\ failed' = [failed EXCEPT ![w] = FALSE]
    /\ \/ /\ Cur(w).msg \in Malformed
          /\ Goto(w, "reject")
          /\ UNCHANGED todo
       \/ /\ Cur(w).msg \notin Malformed
          /\ todo' = [todo EXCEPT ![w] = IF Cur(w).to # NoUser THEN {Cur(w).to}
                                         ELSE members \ {From[Cur(w).msg]}]
          /\ Goto(w, "fanout")
    /\ UNCHANGED <<kafka, running, cur, user, members, stores, faults>>

\* listMembers returns no one when the query fails, and pushToGroup reports it.
membersUnavailable(w) ==
    /\ Fault
    /\ pc[w] = "handle"
    /\ Cur(w).msg \notin Malformed /\ Cur(w).to = NoUser
    /\ Goto(w, "rewind")
    /\ UNCHANGED <<kafka, running, locals, members, stores>>

\* Mutation: the result of the dead-letter publication is ignored.
rejectIgnoresResult(w) ==
    /\ pc[w] = "reject"
    /\ \/ dlq' = dlq \cup {Cur(w)} /\ UNCHANGED faults
       \/ Fault /\ UNCHANGED dlq
    /\ Goto(w, "commit")
    /\ UNCHANGED <<log, committed, position, owner, running, locals, members, stores>>

\* A record that cannot be dispatched goes to the dead-letter topic.
reject(w) ==
    /\ pc[w] = "reject"
    /\ \/ dlq' = dlq \cup {Cur(w)} /\ Goto(w, "commit") /\ UNCHANGED faults
       \/ Fault /\ dlq' \in {dlq, dlq \cup {Cur(w)}} /\ Goto(w, "rewind")
    /\ UNCHANGED <<log, committed, position, owner, running, locals, members, stores>>

\* Mutation: failed_count is not looked at.
dispatchedAlways(w) ==
    /\ pc[w] = "fanout"
    /\ todo[w] = {}
    /\ Goto(w, "commit")
    /\ UNCHANGED <<kafka, running, locals, members, stores, faults>>

\* All recipients are done: failed_count decides.
dispatched(w) ==
    /\ pc[w] = "fanout"
    /\ todo[w] = {}
    /\ Goto(w, IF failed[w] THEN "rewind" ELSE "commit")
    /\ UNCHANGED <<kafka, running, locals, members, stores, faults>>

-----------------------------------------------------------------------------
(* PushDispatcher::pushToUser for one recipient *)

\* Some device of an online user took the message: the retry count is cleared,
\* if Redis answers.
deliverOnline(w) ==
    /\ pc[w] = "fanout"
    /\ \E u \in todo[w] :
          /\ todo' = [todo EXCEPT ![w] = @ \ {u}]
          /\ delivered' = delivered \cup {<<Cur(w).msg, u>>}
          /\ \/ retries' = [retries EXCEPT ![<<Cur(w).msg, u>>] = 0] /\ UNCHANGED faults
             \/ Fault /\ UNCHANGED retries
    /\ UNCHANGED <<kafka, running, pc, cur, user, failed, members, offline>>

\* No device took it as far as the dispatcher knows; a call whose answer was
\* late or lost may have delivered it.
deliverFailed(w) ==
    /\ pc[w] = "fanout"
    /\ \E u \in todo[w] :
          /\ todo' = [todo EXCEPT ![w] = @ \ {u}]
          /\ user' = [user EXCEPT ![w] = u]
          /\ delivered' \in {delivered, delivered \cup {<<Cur(w).msg, u>>}}
    /\ Goto(w, "incr")
    /\ UNCHANGED <<kafka, running, cur, failed, members, offline, retries, faults>>

\* No device is online, or Redis does not say so.
saveOffline(w) ==
    /\ pc[w] = "fanout"
    /\ \E u \in todo[w] :
          /\ todo' = [todo EXCEPT ![w] = @ \ {u}]
          /\ \/ /\ offline' = offline \cup {<<Cur(w).msg, u>>}
                /\ UNCHANGED <<failed, faults>>
             \/ /\ Fault
                /\ failed' = [failed EXCEPT ![w] = TRUE]
                /\ UNCHANGED offline
    /\ UNCHANGED <<kafka, running, pc, cur, user, members, delivered, retries>>

\* handlePushFailure: count the failure; incr answers -1 when Redis fails.
increaseRetryCount(w) ==
    LET count == retries[<<Cur(w).msg, user[w]>>] + 1
    IN  /\ pc[w] = "incr"
        /\ \/ /\ retries' = [retries EXCEPT ![<<Cur(w).msg, user[w]>>] =
                                IF count > MaxRetry THEN MaxRetry + 1 ELSE count]
              /\ Goto(w, IF count <= MaxRetry THEN "retry" ELSE "dlq")
              /\ UNCHANGED faults
           \/ Fault /\ Goto(w, "retry") /\ UNCHANGED retries
        /\ UNCHANGED <<kafka, running, locals, members, delivered, offline>>

\* A failed produce may have appended the record.
sendToRetryTopic(w) ==
    /\ pc[w] = "retry"
    /\ \/ /\ log' = [log EXCEPT !["retry"] = Append(@, Scoped(w))]
          /\ UNCHANGED <<failed, faults>>
       \/ /\ Fault
          /\ log' \in {log, [log EXCEPT !["retry"] = Append(@, Scoped(w))]}
          /\ failed' = [failed EXCEPT ![w] = TRUE]
    /\ Goto(w, "fanout")
    /\ UNCHANGED <<dlq, committed, position, owner, running, cur, todo, user, members, stores>>

sendToDlqTopic(w) ==
    /\ pc[w] = "dlq"
    /\ \/ /\ dlq' = dlq \cup {Scoped(w)}
          /\ UNCHANGED <<failed, faults>>
       \/ /\ Fault
          /\ dlq' \in {dlq, dlq \cup {Scoped(w)}}
          /\ failed' = [failed EXCEPT ![w] = TRUE]
    /\ Goto(w, "save")
    /\ UNCHANGED <<log, committed, position, owner, running, cur, todo, user, members, stores>>

\* The offline copy of a dead letter: its result is ignored.
saveDeadLetter(w) ==
    /\ pc[w] = "save"
    /\ \/ offline' = offline \cup {<<Cur(w).msg, user[w]>>} /\ UNCHANGED faults
       \/ Fault /\ UNCHANGED offline
    /\ Goto(w, "fanout")
    /\ UNCHANGED <<kafka, running, locals, members, delivered, retries>>

-----------------------------------------------------------------------------
(* KafkaConsumer::commit and seek *)

\* A call about the worker's partition fails: always possible, and no new fault
\* when the partition is another worker's by now.
CallFails(w) == IF owner[cur[w].p] = w THEN Fault ELSE UNCHANGED faults

\* Mutation: the offset committed is the record's own, not the next one's.
commitRecordAgain(w) ==
    /\ pc[w] = "commit"
    /\ committed' = [committed EXCEPT ![cur[w].p] = cur[w].off]
    /\ Goto(w, "poll")
    /\ UNCHANGED <<log, dlq, position, owner, running, locals, members, stores, faults>>

\* commitSync: a worker that lost the partition may still be heard, and a failed
\* commit may have reached the coordinator.
commit(w) ==
    LET done == [committed EXCEPT ![cur[w].p] = cur[w].off + 1]
    IN  /\ pc[w] = "commit"
        /\ \/ /\ committed' = done
              /\ Goto(w, "poll")
              /\ UNCHANGED faults
           \/ /\ CallFails(w)
              /\ committed' \in {committed, done}
              /\ Goto(w, "rewind")
        /\ UNCHANGED <<log, dlq, position, owner, running, locals, members, stores>>

\* Mutation: a failure is logged and the next record polled.
rewindForgotten(w) ==
    /\ pc[w] = "rewind"
    /\ Goto(w, "poll")
    /\ UNCHANGED <<kafka, running, locals, members, stores, faults>>

\* seek: without the partition, or when the call fails, the worker gives up.
rewind(w) ==
    /\ pc[w] = "rewind"
    /\ \/ /\ owner[cur[w].p] = w
          /\ position' = [position EXCEPT ![cur[w].p] = cur[w].off]
          /\ Goto(w, "poll")
          /\ UNCHANGED <<running, faults>>
       \/ /\ CallFails(w)
          /\ running' = [running EXCEPT ![w] = FALSE]
          /\ Goto(w, "stopped")
          /\ UNCHANGED position
    /\ UNCHANGED <<log, dlq, committed, owner, locals, members, stores>>

WorkerStep(w) ==
    \/ poll(w) \/ handle(w) \/ membersUnavailable(w) \/ reject(w) \/ dispatched(w)
    \/ deliverOnline(w) \/ deliverFailed(w) \/ saveOffline(w) \/ increaseRetryCount(w)
    \/ sendToRetryTopic(w) \/ sendToDlqTopic(w) \/ saveDeadLetter(w) \/ commit(w) \/ rewind(w)

Next ==
    \/ \E m \in Messages : publish(m)
    \/ \E u \in Users : leaveGroup(u)
    \/ \E p \in Topics : revoke(p) \/ expel(p) \/ \E w \in Workers : assign(p, w)
    \/ \E w \in Workers : start(w) \/ stop(w) \/ crash(w) \/ WorkerStep(w)

Spec == Init /\ [][Next]_vars

\* Threads run, a stopped or crashed service is started again (a worker that gave
\* up is not), and the coordinator hands out free partitions.
Fairness ==
    /\ \A w \in Workers : WF_vars(start(w)) /\ WF_vars(WorkerStep(w))
    /\ \A p \in Topics : WF_vars(expel(p)) /\ WF_vars(\E w \in Workers : assign(p, w))

FairSpec == Spec /\ Fairness

-----------------------------------------------------------------------------
\* The users a record is for who still are members of their group.
Recipients(r) == IF r.to # NoUser THEN {r.to} ELSE members \ {From[r.msg]}

\* The user has the message, will find it offline, or a retry record or a dead
\* letter keeps it.
Kept(m, u) ==
    \/ <<m, u>> \in delivered \cup offline
    \/ [msg |-> m, to |-> u] \in dlq
    \/ \E i \in DOMAIN log["retry"] :
          i > committed["retry"] /\ log["retry"][i] = [msg |-> m, to |-> u]

Settled(r) == IF r.msg \in Malformed THEN r \in dlq
              ELSE \A u \in Recipients(r) : Kept(r.msg, u)

\* Committing an offset never loses a message: every record below the committed
\* offset of its partition reached each of its recipients, the offline store, the
\* dead-letter topic or a retry record that is still to be consumed, whatever
\* calls failed and whichever workers shared the partition.
CommittedIsSettled ==
    \A p \in Topics : \A i \in 1..committed[p] : Settled(log[p][i])

\* A worker handles a record only when all earlier records of the partition are
\* settled: that is what giving up "to preserve ordering" and "to prevent message
\* loss" after a failed seek is for (PushWorker::run).
HandledInOrder ==
    \A p \in Topics : \A i \in 1..position[p] :
        \/ Settled(log[p][i])
        \/ owner[p] = NoWorker
        \/ cur[owner[p]] = [p |-> p, off |-> i - 1] /\ pc[owner[p]] # "poll"

\* Once every offset is committed and no worker is at work, a message that went to
\* the dead-letter topic undelivered has an offline copy ("Failure over max retry
\* writes DLQ and saves offline copy. The Kafka offset is committed only after
\* this handling step succeeds.", docs/push_service.md).
DeadLetterHasOfflineCopy ==
    (/\ \A p \in Topics : committed[p] = Len(log[p])
     /\ \A w \in Workers : pc[w] \in {"off", "poll", "stopped"})
    => \A r \in dlq : \/ r.msg \in Malformed
                      \/ <<r.msg, r.to>> \in delivered \cup offline

\* Every record is consumed in the end: the retries of a user that no gateway
\* reaches run out, a record that fails is handled again, and the partitions of
\* a worker that stopped or gave up go to another.
EveryRecordIsConsumed ==
    \A p \in Topics : \A n \in 1..MaxPublish :
        []<>(Len(log[p]) >= n => committed[p] >= n)

=============================================================================
