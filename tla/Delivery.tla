------------------------------ MODULE Delivery ------------------------------
(***************************************************************************)
(* The way of single-chat messages from the transaction that stores them   *)
(* to their recipient: the outbox of the message service (Outbox) and the  *)
(* push service (Push), joined by the Kafka topic.  A record the brokers   *)
(* append for the one is the next record of the other's partition.         *)
(*                                                                         *)
(* The two share nothing else: each has its own processes, and a fault of  *)
(* either counts against the common bound.                                 *)
(***************************************************************************)
EXTENDS Integers, Sequences, FiniteSets

CONSTANTS
    Publishers,         \* outbox workers
    Pushers,            \* push workers
    ChatMessages,       \* messages stored with their event, numbers
    Sender, Receiver, NoOne,
    ClaimBound,         \* bound: claims of the outbox workers
    FaultBound          \* bound: faults of both sides

VARIABLES
    outboxRows, publisher, job, processed, publishing, inFlight, appended, outboxClock, nextToken,
    partitions, deadLetters, committed, position, assignee, pushing, pusher, inHand, todo,
    recipient, failing, groupMembers, taken, kept, retryCounts,
    faultCount

O == INSTANCE Outbox WITH
    Workers <- Publishers, Events <- ChatMessages, BatchSize <- 1, MaxRetry <- 1, Backoff <- 1,
    Lease <- 1, Prompt <- FALSE, MaxClaims <- ClaimBound, MaxFaults <- FaultBound,
    rows <- outboxRows, pc <- publisher, running <- publishing, sent <- inFlight, log <- appended,
    clock <- outboxClock, faults <- faultCount

P == INSTANCE Push WITH
    Workers <- Pushers, Users <- {Sender, Receiver}, Messages <- ChatMessages,
    To <- [m \in ChatMessages |-> Receiver], From <- [m \in ChatMessages |-> Sender],
    Malformed <- {}, Owner <- Sender, NoUser <- NoOne, NoWorker <- NoOne, MaxRetry <- 1,
    MaxPublish <- ClaimBound, MaxFaults <- FaultBound,
    log <- partitions, dlq <- deadLetters, owner <- assignee, running <- pushing, pc <- pusher,
    cur <- inHand, user <- recipient, failed <- failing, members <- groupMembers,
    delivered <- taken, offline <- kept, retries <- retryCounts, faults <- faultCount

outboxSide == <<outboxRows, publisher, job, processed, publishing, inFlight, appended, outboxClock,
                nextToken>>
pushSide == <<partitions, deadLetters, committed, position, assignee, pushing, pusher, inHand, todo,
              recipient, failing, groupMembers, taken, kept, retryCounts>>
deliveryVars == <<outboxSide, pushSide, faultCount>>

DeliveryInit == O!Init /\ P!Init

\* The brokers append a record of the outbox to the topic that the push workers read;
\* the outbox's dead letters are read by nobody
appendRecord(r) ==
    /\ O!brokerAppend(r)
    /\ IF r.topic = "topic" THEN P!publish(r.event) ELSE UNCHANGED pushSide

PublisherStep(w) == (O!start(w) \/ O!WorkerStep(w)) /\ UNCHANGED pushSide

PusherStep(w) == (P!start(w) \/ P!WorkerStep(w)) /\ UNCHANGED outboxSide

\* Those that carry records; the group topic stays empty, and its partition is left alone
Carrying == P!Topics \ {"group"}

PartitionStep(p) ==
    /\ P!expel(p) \/ \E w \in Pushers : P!assign(p, w)
    /\ UNCHANGED outboxSide

Wait == O!tick /\ UNCHANGED pushSide

DeliveryNext ==
    \/ \E m \in ChatMessages : O!insertEvent(m) /\ UNCHANGED pushSide
    \/ \E r \in inFlight : appendRecord(r) \/ (O!recordLost(r) /\ UNCHANGED pushSide)
    \/ \E w \in Publishers : PublisherStep(w) \/ (O!WorkerFault(w) /\ UNCHANGED pushSide)
    \/ \E w \in Pushers : PusherStep(w) \/ ((P!stop(w) \/ P!crash(w)) /\ UNCHANGED outboxSide)
    \/ \E p \in Carrying : PartitionStep(p) \/ (P!revoke(p) /\ UNCHANGED outboxSide)
    \/ Wait

-----------------------------------------------------------------------------
Stored(m) == outboxRows[m].status # "NONE"

\* The recipient has the message, or it lies in the offline store or a dead-letter topic
Arrived(m) ==
    \/ <<m, Receiver>> \in taken \cup kept
    \/ [msg |-> m, to |-> Receiver] \in deadLetters
    \/ \E r \in appended : r.topic = "dlq" /\ r.event = m

\* A stored message is in safe hands at every moment: its outbox row is still to be
\* published, an uncommitted record of the topic or of the retry topic carries it, or it
\* arrived.  The hand-over from row to record and from record to recipient leaves no gap,
\* whichever side crashes, loses its lease, its partition or a reply on the way
\* (OutboxWorker::runOnce, PushWorker::run)
AlwaysInSafeHands ==
    \A m \in ChatMessages : Stored(m) =>
        \/ outboxRows[m].status \notin O!Terminal
        \/ \E p \in Carrying : \E i \in DOMAIN partitions[p] :
               i > committed[p] /\ partitions[p][i].msg = m
        \/ Arrived(m)

\* Every stored message arrives in the end, once faults stop, unless all push workers
\* have given up; and until then it is in safe hands (OutboxWorker, PushWorker).
EveryMessageArrives ==
    /\ []AlwaysInSafeHands
    /\ []<>(\A m \in ChatMessages : Stored(m) =>
            Arrived(m) \/ \A w \in Pushers : pusher[w] = "stopped")
=============================================================================
