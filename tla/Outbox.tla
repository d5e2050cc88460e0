------------------------------- MODULE Outbox -------------------------------
(***************************************************************************)
(* The transactional outbox: the table outbox_events (OutboxDao), the      *)
(* threads that publish it (OutboxWorker) and the Kafka producer they call *)
(* (KafkaProducer).  Rows are claimed under a lease and a claim token,     *)
(* published, and marked by a conditional update that names the token.     *)
(*                                                                         *)
(* An event is its rank in "ORDER BY created_at, id"; its key and payload  *)
(* are not modelled.  A token is a number, 0 being the empty string.  Each *)
(* call of KafkaProducer::produce hands one record to librdkafka, which    *)
(* may append it to the topic or lose it, before or after the call returns.*)
(***************************************************************************)
EXTENDS Integers, FiniteSets

CONSTANTS
    Workers,        \* the OutboxWorker threads, of any number of processes
    Events,         \* the events the services insert, a set of numbers
    BatchSize,      \* OutboxWorkerOptions::batch_size
    MaxRetry,       \* OutboxWorkerOptions::max_retry_count
    Backoff,        \* OutboxWorkerOptions::retry_backoff_ms, in ticks
    Lease,          \* OutboxWorkerOptions::claim_lease_ms, in ticks
    Prompt,         \* TRUE: no lease runs out while its holder is at work
    MaxClaims,      \* bound: claims made in a behaviour
    MaxFaults       \* bound: crashes, stops and failed calls in a behaviour

ASSUME OutboxAssumption ==
    /\ Events \subseteq Nat
    /\ BatchSize \in Nat \ {0}
    /\ MaxRetry \in Nat
    /\ Backoff \in Nat
    /\ Lease \in Nat \ {0}
    /\ Prompt \in BOOLEAN
    /\ MaxClaims \in Nat
    /\ MaxFaults \in Nat

VARIABLES
    rows,           \* outbox_events, by event
    pc,             \* where each worker is in runOnce
    job,            \* the event each worker claimed, as it read it
    processed,      \* iterations of the batch loop, by worker
    running,        \* OutboxWorker::running_
    sent,           \* records handed to librdkafka, neither appended nor lost
    log,            \* records the brokers hold
    clock,          \* TimeUtil::nowMs
    nextToken,      \* TraceId::generate
    faults          \* faults so far

vars == <<rows, pc, job, processed, running, sent, log, clock, nextToken, faults>>

-----------------------------------------------------------------------------
Claimable == {"PENDING", "FAILED", "PUBLISHING"}
Terminal == {"PUBLISHED", "DEAD"}
Status == Claimable \cup Terminal \cup {"NONE"}

OutboxRow == [status: Status, retry_count: Nat, next_retry_at: Nat, claim_token: Nat]

NoRow == [status |-> "NONE", retry_count |-> 0, next_retry_at |-> 0, claim_token |-> 0]

PendingRow == [status |-> "PENDING", retry_count |-> 0, next_retry_at |-> 0, claim_token |-> 0]

\* Where a worker is in runOnce.
Publishing == {"produce", "await", "markPublished", "markFailed"}
DeadLettering == {"dlq", "dlqAwait", "markDead", "markRetained"}
Holding == Publishing \cup DeadLettering
Pcs == {"off", "loop", "claim", "locked"} \cup Holding

Job == [event: Events \cup {-1}, token: Nat, retry: Nat, now: Nat]

NoJob == [event |-> -1, token |-> 0, retry |-> 0, now |-> 0]

Record == [topic: {"topic", "dlq"}, event: Events, token: Nat]

RecordOf(w, t) == [topic |-> t, event |-> job[w].event, token |-> job[w].token]

Goto(w, place) == pc' = [pc EXCEPT ![w] = place]

\* The end of one iteration of the loop of runOnce: every local but the
\* iteration count goes out of scope.
NextIteration(w) ==
    /\ Goto(w, "claim")
    /\ job' = [job EXCEPT ![w] = NoJob]
    /\ processed' = [processed EXCEPT ![w] = processed[w] + 1]

\* Leaving runOnce: loop() sleeps and tests running_ again.
LeaveRunOnce(w) ==
    /\ Goto(w, "loop")
    /\ job' = [job EXCEPT ![w] = NoJob]
    /\ processed' = [processed EXCEPT ![w] = 0]

Fault == faults < MaxFaults /\ faults' = faults + 1

Init ==
    /\ rows = [e \in Events |-> NoRow]
    /\ pc = [w \in Workers |-> "off"]
    /\ job = [w \in Workers |-> NoJob]
    /\ processed = [w \in Workers |-> 0]
    /\ running = [w \in Workers |-> FALSE]
    /\ sent = {}
    /\ log = {}
    /\ clock = 0
    /\ nextToken = 1
    /\ faults = 0

-----------------------------------------------------------------------------
\* A service inserts an event in its own transaction.
insertEvent(e) ==
    /\ rows[e].status = "NONE"
    /\ rows' = [rows EXCEPT ![e] = PendingRow]
    /\ UNCHANGED <<pc, job, processed, running, sent, log, clock, nextToken, faults>>

start(w) ==
    /\ ~running[w]
    /\ pc[w] = "off"
    /\ running' = [running EXCEPT ![w] = TRUE]
    /\ Goto(w, "loop")
    /\ UNCHANGED <<rows, job, processed, sent, log, clock, nextToken, faults>>

\* stop() clears running_ and joins: the thread finishes its batch first.
stop(w) ==
    /\ Fault
    /\ running[w]
    /\ running' = [running EXCEPT ![w] = FALSE]
    /\ UNCHANGED <<rows, pc, job, processed, sent, log, clock, nextToken>>

\* The process dies: its transaction rolls back, its claim is forgotten.
crash(w) ==
    /\ Fault
    /\ pc[w] # "off"
    /\ Goto(w, "off")
    /\ job' = [job EXCEPT ![w] = NoJob]
    /\ processed' = [processed EXCEPT ![w] = 0]
    /\ running' = [running EXCEPT ![w] = FALSE]
    /\ UNCHANGED <<rows, sent, log, clock, nextToken>>

loop(w) ==
    /\ pc[w] = "loop"
    /\ Goto(w, IF running[w] THEN "claim" ELSE "off")
    /\ UNCHANGED <<rows, job, processed, running, sent, log, clock, nextToken, faults>>

-----------------------------------------------------------------------------
\* Rows that an open claim transaction has locked with FOR UPDATE.
Locked == {job[w].event : w \in {v \in Workers : pc[v] = "locked"}}

\* Mutations of Due: no row locks; expired PUBLISHING rows forgotten.
DueWithoutLocks == {e \in Events : rows[e].status \in Claimable /\ rows[e].next_retry_at <= clock}

DueNotPublishing ==
    {e \in Events \ Locked :
        rows[e].status \in {"PENDING", "FAILED"} /\ rows[e].next_retry_at <= clock}

\* What SELECT ... FOR UPDATE SKIP LOCKED returns candidates from.
Due == {e \in Events \ Locked :
            rows[e].status \in Claimable /\ rows[e].next_retry_at <= clock}

\* The bound on claims: past it, a worker finds nothing to claim.
ClaimsLeft == nextToken + Cardinality(Locked) <= MaxClaims

\* claimPendingEvents(1, now, lease), up to its SELECT: the oldest due row is
\* locked, or the loop ends because nothing is due or the batch is complete.
claimSelect(w) ==
    /\ pc[w] = "claim"
    /\ \/ /\ processed[w] < BatchSize /\ ClaimsLeft
          /\ \E e \in Due :
                /\ \A d \in Due : e <= d
                /\ job' = [job EXCEPT ![w] = [event |-> e, token |-> 0, now |-> clock,
                                              retry |-> rows[e].retry_count]]
          /\ Goto(w, "locked")
          /\ UNCHANGED processed
       \/ /\ processed[w] = BatchSize \/ Due = {} \/ ~ClaimsLeft
          /\ LeaveRunOnce(w)
    /\ UNCHANGED <<rows, running, sent, log, clock, nextToken, faults>>

\* No connection, or a failed BEGIN or SELECT: the claim returns no event.
claimUnavailable(w) ==
    /\ Fault
    /\ pc[w] = "claim"
    /\ LeaveRunOnce(w)
    /\ UNCHANGED <<rows, running, sent, log, clock, nextToken>>

ClaimedRow(w) ==
    [status |-> "PUBLISHING", retry_count |-> rows[job[w].event].retry_count,
     next_retry_at |-> job[w].now + Lease, claim_token |-> nextToken]

\* The UPDATE and COMMIT of claimPendingEvents.
claimCommit(w) ==
    /\ pc[w] = "locked"
    /\ rows' = [rows EXCEPT ![job[w].event] = ClaimedRow(w)]
    /\ Goto(w, "produce")
    /\ job' = [job EXCEPT ![w].token = nextToken]
    /\ nextToken' = nextToken + 1
    /\ UNCHANGED <<processed, running, sent, log, clock, faults>>

\* UPDATE or COMMIT reports a failure and the list is cleared.  The commit of a
\* connection that broke may have taken effect all the same.
claimFail(w) ==
    /\ Fault
    /\ pc[w] = "locked"
    /\ LeaveRunOnce(w)
    /\ \/ UNCHANGED <<rows, nextToken>>
       \/ /\ rows' = [rows EXCEPT ![job[w].event] = ClaimedRow(w)]
          /\ nextToken' = nextToken + 1
    /\ UNCHANGED <<running, sent, log, clock>>

-----------------------------------------------------------------------------
\* KafkaProducer::produce up to the wait for the delivery report.
produce(w) ==
    /\ \/ pc[w] = "produce" /\ Goto(w, "await") /\ sent' = sent \cup {RecordOf(w, "topic")}
       \/ pc[w] = "dlq" /\ Goto(w, "dlqAwait") /\ sent' = sent \cup {RecordOf(w, "dlq")}
    /\ UNCHANGED <<rows, job, processed, running, log, clock, nextToken, faults>>

\* Mutation: an enqueued record counts as delivered.
produceOkUnconfirmed(w) ==
    /\ \/ pc[w] = "await" /\ Goto(w, "markPublished")
       \/ pc[w] = "dlqAwait" /\ Goto(w, "markDead")
    /\ UNCHANGED <<rows, job, processed, running, sent, log, clock, nextToken, faults>>

\* The delivery report arrives before the deadline and says that the broker has
\* the record.
produceOk(w) ==
    /\ \/ pc[w] = "await" /\ RecordOf(w, "topic") \in log /\ Goto(w, "markPublished")
       \/ pc[w] = "dlqAwait" /\ RecordOf(w, "dlq") \in log /\ Goto(w, "markDead")
    /\ UNCHANGED <<rows, job, processed, running, sent, log, clock, nextToken, faults>>

\* Mutation: one retry too few.
ExhaustedEarly(w) == job[w].retry + 1 >= MaxRetry

Exhausted(w) == job[w].retry + 1 > MaxRetry

AfterProduceFailure(w) ==
    \/ /\ pc[w] \in {"produce", "await"}
       /\ Goto(w, IF Exhausted(w) THEN "dlq" ELSE "markFailed")
    \/ /\ pc[w] \in {"dlq", "dlqAwait"}
       /\ Goto(w, "markRetained")

\* produce returns false although the record may have landed or may still land:
\* the report is an error or the deadline passed (or the enqueue failed).
produceFail(w) ==
    /\ Fault
    /\ AfterProduceFailure(w)
    /\ UNCHANGED <<rows, job, processed, running, sent, log, clock, nextToken>>

\* produce returns false for a record that was lost.
deliveryError(w) ==
    /\ \/ pc[w] = "await" /\ RecordOf(w, "topic") \notin sent \cup log
       \/ pc[w] = "dlqAwait" /\ RecordOf(w, "dlq") \notin sent \cup log
    /\ AfterProduceFailure(w)
    /\ UNCHANGED <<rows, job, processed, running, sent, log, clock, nextToken, faults>>

\* The brokers append a record, in any order and at any time after the send.
brokerAppend(r) ==
    /\ r \in sent
    /\ log' = log \cup {r}
    /\ sent' = sent \ {r}
    /\ UNCHANGED <<rows, pc, job, processed, running, clock, nextToken, faults>>

\* A record is lost on the way, or expires in the client's queue.
recordLost(r) ==
    /\ Fault
    /\ r \in sent
    /\ sent' = sent \ {r}
    /\ UNCHANGED <<rows, pc, job, processed, running, log, clock, nextToken>>

-----------------------------------------------------------------------------
\* Mutations of the WHERE clause: by event_id alone; without the token.
OwnsByEvent(w) == rows[job[w].event].status \in Status

OwnsByStatus(w) == rows[job[w].event].status = "PUBLISHING"

\* WHERE event_id = ... AND status = 4 AND claim_token = ...
Owns(w) == /\ rows[job[w].event].status = "PUBLISHING"
           /\ rows[job[w].event].claim_token = job[w].token

\* One conditional UPDATE, which waits for the row lock of an open claim.
UpdateOwned(w, row) ==
    /\ job[w].event \notin Locked
    /\ rows' = IF Owns(w) THEN [rows EXCEPT ![job[w].event] = row] ELSE rows
    /\ NextIteration(w)

\* Mutation: the token is left in the row.
SettledRowKeepsToken(w, status) ==
    [status |-> status, retry_count |-> rows[job[w].event].retry_count,
     next_retry_at |-> rows[job[w].event].next_retry_at,
     claim_token |-> rows[job[w].event].claim_token]

SettledRow(w, status) ==
    [status |-> status, retry_count |-> rows[job[w].event].retry_count,
     next_retry_at |-> rows[job[w].event].next_retry_at, claim_token |-> 0]

markPublished(w) ==
    /\ pc[w] = "markPublished"
    /\ UpdateOwned(w, SettledRow(w, "PUBLISHED"))
    /\ UNCHANGED <<running, sent, log, clock, nextToken, faults>>

markDead(w) ==
    /\ pc[w] = "markDead"
    /\ UpdateOwned(w, SettledRow(w, "DEAD"))
    /\ UNCHANGED <<running, sent, log, clock, nextToken, faults>>

FailedRow(w, retry) ==
    [status |-> "FAILED", retry_count |-> retry,
     next_retry_at |-> clock + Backoff * (job[w].retry + 1), claim_token |-> 0]

\* Mutation: a failed dead letter counts a retry too.
markFailedCountsBoth(w) ==
    /\ pc[w] \in {"markFailed", "markRetained"}
    /\ UpdateOwned(w, FailedRow(w, job[w].retry + 1))
    /\ UNCHANGED <<running, sent, log, clock, nextToken, faults>>

\* A failed publication counts a retry; a failed dead-letter publication keeps
\* the count it was claimed with.
markFailed(w) ==
    /\ \/ pc[w] = "markFailed" /\ UpdateOwned(w, FailedRow(w, job[w].retry + 1))
       \/ pc[w] = "markRetained" /\ UpdateOwned(w, FailedRow(w, job[w].retry))
    /\ UNCHANGED <<running, sent, log, clock, nextToken, faults>>

\* No connection, or the UPDATE fails: logged, the row stays as it is.  (An
\* UPDATE whose reply is lost ends like the mark itself, which ignores it.)
markUnavailable(w) ==
    /\ Fault
    /\ pc[w] \in {"markPublished", "markDead", "markFailed", "markRetained"}
    /\ NextIteration(w)
    /\ UNCHANGED <<rows, running, sent, log, clock, nextToken>>

-----------------------------------------------------------------------------
\* The lease a worker holds or is about to be given runs out at the next tick.
LeaseEnding(w) ==
    \/ pc[w] = "locked" /\ job[w].now + Lease <= clock + 1
    \/ pc[w] \in Holding /\ Owns(w) /\ rows[job[w].event].next_retry_at <= clock + 1

\* Time passes while some row waits for it; other ticks would change nothing.
tick ==
    /\ \E e \in Events : rows[e].status \in Claimable /\ rows[e].next_retry_at > clock
    /\ Prompt => \A w \in Workers : ~LeaseEnding(w)
    /\ clock' = clock + 1
    /\ UNCHANGED <<rows, pc, job, processed, running, sent, log, nextToken, faults>>

WorkerStep(w) ==
    \/ loop(w) \/ claimSelect(w) \/ claimCommit(w) \/ produce(w) \/ produceOk(w)
    \/ deliveryError(w) \/ markPublished(w) \/ markDead(w) \/ markFailed(w)

WorkerFault(w) ==
    \/ stop(w) \/ crash(w) \/ claimUnavailable(w) \/ claimFail(w) \/ produceFail(w)
    \/ markUnavailable(w)

Next ==
    \/ \E e \in Events : insertEvent(e)
    \/ \E w \in Workers : start(w) \/ WorkerStep(w) \/ WorkerFault(w)
    \/ \E r \in sent : brokerAppend(r) \/ recordLost(r)
    \/ tick

Spec == Init /\ [][Next]_vars

\* A thread that can run does run, a stopped service is started again, the
\* brokers take the records they are sent, and time passes.
Fairness ==
    /\ \A w \in Workers : WF_vars(start(w)) /\ WF_vars(WorkerStep(w))
    /\ WF_vars(\E r \in sent : brokerAppend(r))
    /\ WF_vars(tick)

FairSpec == Spec /\ Fairness

-----------------------------------------------------------------------------
\* Every variable has its type, and a worker past its claim has an event: runOnce
\* goes on only with what claimPendingEvents returned.
TypeOK ==
    /\ rows \in [Events -> OutboxRow]
    /\ pc \in [Workers -> Pcs]
    /\ job \in [Workers -> Job]
    /\ processed \in [Workers -> Nat]
    /\ \A w \in Workers : pc[w] \in Holding \cup {"locked"} => job[w].event \in Events
    /\ running \in [Workers -> BOOLEAN]
    /\ sent \subseteq Record
    /\ log \subseteq Record
    /\ clock \in Nat
    /\ nextToken \in Nat \ {0}
    /\ faults \in 0..MaxFaults

\* A row is PUBLISHED only if the topic holds its record, and DEAD only if the
\* dead-letter topic does: whatever the claims that were lost on the way, the
\* outbox never gives up an event that nobody can consume.
TerminalIsDelivered ==
    \A e \in Events :
        /\ rows[e].status = "PUBLISHED" => \E r \in log : r.topic = "topic" /\ r.event = e
        /\ rows[e].status = "DEAD" => \E r \in log : r.topic = "dlq" /\ r.event = e

\* An event reaches the dead-letter topic only after max_retry_count recorded
\* failures, even when the worker that decides it holds an expired claim and
\* decides on the retry count it read when it claimed the row.
DeadLetterOnlyWhenExhausted ==
    \A r \in log \cup sent : r.topic = "dlq" => rows[r.event].retry_count = MaxRetry

\* A PUBLISHING row carries the token of at most one worker, and no other row
\* carries a token: the conditional updates of the mark functions can succeed
\* for one worker at most.
OneOwner ==
    /\ \A e \in Events : (rows[e].claim_token # 0) <=> (rows[e].status = "PUBLISHING")
    /\ \A v, w \in Workers :
          /\ {pc[v], pc[w]} \subseteq Holding
          /\ job[v].event = job[w].event
          /\ Owns(v) /\ Owns(w)
          => v = w

\* While every lease outlasts its holder's work and nothing fails, no event is
\* published twice ("multiple workers do not publish the same pending row in
\* normal operation", docs/reliability_design.md).
NormalOperationPublishesOnce ==
    (Prompt /\ faults = 0) =>
        \A q, r \in log \cup sent : q.event = r.event => q = r

\* A row that is PUBLISHED or DEAD never changes again: a worker with an expired
\* claim cannot take back what another worker finished.
TerminalIsFinal ==
    [][\A e \in Events : rows[e].status \in Terminal => rows'[e] = rows[e]]_vars

\* Only two things change a claimed row: its holder, or a new claim after the
\* lease ran out.  A late markPublished, markFailed or markDead of a former
\* holder changes nothing.
ClaimIsRespected ==
    [][\A e \in Events :
          (rows[e].status = "PUBLISHING" /\ rows'[e] # rows[e]) =>
              \/ rows[e].next_retry_at <= clock /\ rows'[e].claim_token = nextToken
              \/ \E w \in Workers :
                     /\ job[w].token = rows[e].claim_token
                     /\ job[w].event = e
                     /\ pc'[w] # pc[w]]_vars

\* The retry count of a row grows one failure at a time up to max_retry_count
\* and is never set back by a worker that read it long ago.
RetryCountGrows ==
    [][\A e \in Events :
          /\ rows'[e].retry_count \in rows[e].retry_count .. rows[e].retry_count + 1
          /\ rows'[e].retry_count <= MaxRetry]_vars

\* Every inserted event ends as PUBLISHED or DEAD, whichever threads stop or
\* crash and whichever calls fail, once the faults are over.
EveryEventSettles ==
    \A e \in Events : []<>(rows[e].status \in Terminal \cup {"NONE"})

-----------------------------------------------------------------------------
(* The inductive invariant behind the safety properties above. *)

Holds(w) == pc[w] \in Holding

HasLock(w) == pc[w] = "locked"

\* Tokens are fresh: no two claims share one, and only PUBLISHING rows have one.
TokenInv ==
    /\ \A e \in Events : /\ (rows[e].claim_token # 0) <=> (rows[e].status = "PUBLISHING")
                         /\ rows[e].claim_token < nextToken
    /\ \A w \in Workers : Holds(w) => job[w].token \in 1..(nextToken - 1)
    /\ \A v, w \in Workers : Holds(v) /\ Holds(w) /\ job[v].token = job[w].token => v = w

\* A row lock has one holder, who knows the row as it is; the row is due.
LockInv ==
    /\ \A w \in Workers : HasLock(w) =>
          /\ rows[job[w].event].status \in Claimable
          /\ rows[job[w].event].next_retry_at <= clock
          /\ job[w].retry = rows[job[w].event].retry_count
    /\ \A v, w \in Workers :
          HasLock(v) /\ HasLock(w) /\ job[v].event = job[w].event => v = w

\* The retry count a worker remembers is never ahead of the row, and is the
\* row's for the worker that owns it.
RetryInv ==
    /\ \A e \in Events : /\ rows[e].retry_count <= MaxRetry
                         /\ rows[e].status = "NONE" => rows[e].retry_count = 0
    /\ \A w \in Workers : Holds(w) =>
          /\ job[w].retry <= rows[job[w].event].retry_count
          /\ Owns(w) => job[w].retry = rows[job[w].event].retry_count
    /\ \A w \in Workers :
          /\ pc[w] \in DeadLettering => job[w].retry = MaxRetry
          /\ pc[w] = "markFailed" => job[w].retry < MaxRetry

\* A worker about to mark a row published or dead has seen its record land.
DeliveryInv ==
    \A w \in Workers :
        /\ pc[w] = "markPublished" => RecordOf(w, "topic") \in log
        /\ pc[w] = "markDead" => RecordOf(w, "dlq") \in log

IndInv ==
    /\ TypeOK
    /\ TokenInv
    /\ LockInv
    /\ RetryInv
    /\ DeliveryInv
    /\ TerminalIsDelivered
    /\ DeadLetterOnlyWhenExhausted

=============================================================================
