---------------------------- MODULE OutboxProofs ----------------------------
(***************************************************************************)
(* Proofs, for any number of workers, events, retries and faults, that the *)
(* outbox keeps the safety properties stated in Outbox.  IndInv is shown   *)
(* inductive one conjunct at a time, each conjunct one action at a time.   *)
(***************************************************************************)
EXTENDS Outbox, TLAPS

-----------------------------------------------------------------------------
(* What the operators the actions are built from return. *)

\* Every place of runOnce that an action jumps to is one.
LEMMA PcNames ==
    /\ {"off", "loop", "claim", "locked", "produce", "await", "markPublished", "markFailed",
        "dlq", "dlqAwait", "markDead", "markRetained"} \subseteq Pcs
    /\ {"produce", "await", "markPublished", "markFailed",
        "dlq", "dlqAwait", "markDead", "markRetained"} \subseteq Holding
    /\ {"off", "loop", "claim", "locked"} \cap Holding = {}
    /\ Holding \subseteq Pcs
BY Zenon DEF Pcs, Holding, Publishing, DeadLettering

\* Every row the actions write is a row.
LEMMA RowTypes ==
    ASSUME TypeOK, NEW w \in Workers, job[w].event \in Events
    PROVE  /\ ClaimedRow(w) \in OutboxRow
           /\ \A s \in Status : SettledRow(w, s) \in OutboxRow
           /\ \A n \in Nat : FailedRow(w, n) \in OutboxRow
<1>1. job[w] \in Job /\ rows[job[w].event] \in OutboxRow /\ clock \in Nat /\ nextToken \in Nat
    BY Zenon DEF TypeOK
<1>2. clock + Backoff * (job[w].retry + 1) \in Nat
    BY <1>1, OutboxAssumption DEF Job
<1>3. ClaimedRow(w) \in OutboxRow
    BY <1>1, OutboxAssumption DEF ClaimedRow, Job, OutboxRow, Status, Claimable
<1>4. \A s \in Status : SettledRow(w, s) \in OutboxRow
    BY <1>1, Zenon DEF SettledRow, OutboxRow
<1>5. \A n \in Nat : FailedRow(w, n) \in OutboxRow
    BY <1>2, Zenon DEF FailedRow, OutboxRow, Status, Claimable
<1> QED
    BY <1>3, <1>4, <1>5, Zenon

\* A worker that starts an iteration, or leaves runOnce, holds no event.
LEMMA ResetTypes ==
    ASSUME TypeOK, NEW w \in Workers, NextIteration(w) \/ LeaveRunOnce(w)
    PROVE  /\ pc' \in [Workers -> Pcs]
           /\ job' \in [Workers -> Job]
           /\ processed' \in [Workers -> Nat]
           /\ \A v \in Workers : pc'[v] \in Holding \cup {"locked"} =>
                 v # w /\ pc'[v] = pc[v] /\ job'[v] = job[v] /\ job[v].event \in Events
<1>1. NoJob \in Job
    BY Zenon DEF NoJob, Job
<1> QED
    BY <1>1, PcNames DEF TypeOK, NextIteration, LeaveRunOnce, Goto

\* The state components stay in the sets they are declared to be in.
LEMMA TypeStep == TypeOK /\ [Next]_vars => TypeOK'
<1> SUFFICES ASSUME TypeOK, [Next]_vars PROVE TypeOK'
    BY Zenon
<1> USE OutboxAssumption, PcNames
<1>1. ASSUME NEW e \in Events, insertEvent(e) PROVE TypeOK'
    BY <1>1, Zenon DEF insertEvent, PendingRow, OutboxRow, Status, Claimable, TypeOK
<1>2. ASSUME NEW w \in Workers, start(w) PROVE TypeOK'
    BY <1>2, Zenon DEF start, Goto, TypeOK
<1>3. ASSUME NEW w \in Workers, stop(w) PROVE TypeOK'
    BY <1>3 DEF stop, Fault, TypeOK
<1>4. ASSUME NEW w \in Workers, crash(w) PROVE TypeOK'
    <2>1. NoJob \in Job
        BY Zenon DEF NoJob, Job
    <2> QED
        BY <1>4, <2>1 DEF crash, Goto, Fault, TypeOK
<1>5. ASSUME NEW w \in Workers, loop(w) PROVE TypeOK'
    BY <1>5, Zenon DEF loop, Goto, TypeOK
<1>6. ASSUME NEW w \in Workers, claimSelect(w) PROVE TypeOK'
    <2>1. CASE LeaveRunOnce(w)
        BY <1>6, <2>1, ResetTypes, Zenon DEF claimSelect, TypeOK
    <2>2. ASSUME NEW e \in Due, Goto(w, "locked"), UNCHANGED processed,
                 job' = [job EXCEPT ![w] = [event |-> e, token |-> 0, now |-> clock,
                                            retry |-> rows[e].retry_count]]
          PROVE  TypeOK'
        <3>1. e \in Events /\ rows[e] \in OutboxRow
            BY <2>2, Zenon DEF Due, TypeOK
        <3>2. [event |-> e, token |-> 0, now |-> clock, retry |-> rows[e].retry_count] \in Job
            BY <3>1, Zenon DEF OutboxRow, Job, TypeOK
        <3>3. job' \in [Workers -> Job] /\ job'[w].event = e
            BY <2>2, <3>2, Zenon DEF TypeOK
        <3> QED
            BY <1>6, <2>2, <3>1, <3>3, Zenon DEF claimSelect, Goto, TypeOK
    <2> QED
        BY <1>6, <2>1, <2>2, Zenon DEF claimSelect
<1>7. ASSUME NEW w \in Workers, claimUnavailable(w) PROVE TypeOK'
    BY <1>7, ResetTypes DEF claimUnavailable, Fault, TypeOK
<1>8. ASSUME NEW w \in Workers, claimCommit(w) PROVE TypeOK'
    <2>1. job[w].event \in Events
        BY <1>8, Zenon DEF claimCommit, TypeOK
    <2>2. [job[w] EXCEPT !.token = nextToken] \in Job
        BY DEF TypeOK, Job
    <2>3. job' = [job EXCEPT ![w] = [job[w] EXCEPT !.token = nextToken]]
        BY <1>8, Zenon DEF claimCommit
    <2>4. job' \in [Workers -> Job] /\ \A v \in Workers : job'[v].event = job[v].event
        BY <2>2, <2>3, Zenon DEF TypeOK, Job
    <2> QED
        BY <1>8, <2>1, <2>4, RowTypes DEF claimCommit, Goto, TypeOK
<1>9. ASSUME NEW w \in Workers, claimFail(w) PROVE TypeOK'
    <2>1. job[w].event \in Events
        BY <1>9, Zenon DEF claimFail, TypeOK
    <2> QED
        BY <1>9, <2>1, RowTypes, ResetTypes DEF claimFail, Fault, TypeOK
<1>10. ASSUME NEW w \in Workers, produce(w) PROVE TypeOK'
    <2>1. RecordOf(w, "topic") \in Record /\ RecordOf(w, "dlq") \in Record
        BY <1>10 DEF produce, RecordOf, Record, Job, TypeOK
    <2> QED
        BY <1>10, <2>1 DEF produce, Goto, TypeOK
<1>11. ASSUME NEW w \in Workers, produceOk(w) PROVE TypeOK'
    BY <1>11 DEF produceOk, Goto, TypeOK
<1>12. ASSUME NEW w \in Workers, produceFail(w) PROVE TypeOK'
    BY <1>12 DEF produceFail, AfterProduceFailure, Goto, Fault, TypeOK
<1>13. ASSUME NEW w \in Workers, deliveryError(w) PROVE TypeOK'
    BY <1>13 DEF deliveryError, AfterProduceFailure, Goto, TypeOK
<1>14. ASSUME NEW r \in sent, brokerAppend(r) PROVE TypeOK'
    BY <1>14, Zenon DEF brokerAppend, TypeOK
<1>15. ASSUME NEW r \in sent, recordLost(r) PROVE TypeOK'
    BY <1>15 DEF recordLost, Fault, TypeOK
<1>16. ASSUME NEW w \in Workers, NEW row \in OutboxRow, UpdateOwned(w, row),
              UNCHANGED <<running, sent, log, clock, nextToken, faults>>
       PROVE  TypeOK'
    BY <1>16, ResetTypes, Zenon DEF UpdateOwned, TypeOK
<1>17. ASSUME NEW w \in Workers, markPublished(w) \/ markDead(w) PROVE TypeOK'
    <2>1. job[w].event \in Events
        BY <1>17, Zenon DEF markPublished, markDead, TypeOK
    <2>2. SettledRow(w, "PUBLISHED") \in OutboxRow /\ SettledRow(w, "DEAD") \in OutboxRow
        BY <2>1, RowTypes, Zenon DEF Status, Terminal
    <2> QED
        BY <1>16, <1>17, <2>2, Zenon DEF markPublished, markDead
<1>18. ASSUME NEW w \in Workers, markFailed(w) PROVE TypeOK'
    <2>1. job[w].event \in Events /\ job[w].retry \in Nat /\ job[w].retry + 1 \in Nat
        BY <1>18 DEF markFailed, Job, TypeOK
    <2>2. FailedRow(w, job[w].retry) \in OutboxRow /\ FailedRow(w, job[w].retry + 1) \in OutboxRow
        BY <2>1, RowTypes, Zenon
    <2> QED
        BY <1>16, <1>18, <2>2, Zenon DEF markFailed
<1>19. ASSUME NEW w \in Workers, markUnavailable(w) PROVE TypeOK'
    BY <1>19, ResetTypes DEF markUnavailable, Fault, TypeOK
<1>20. CASE tick
    BY <1>20 DEF tick, TypeOK
<1>21. CASE UNCHANGED vars
    BY <1>21, Zenon DEF vars, TypeOK
<1> QED
    BY Zenon, <1>1, <1>2, <1>3, <1>4, <1>5, <1>6, <1>7, <1>8, <1>9, <1>10, <1>11, <1>12,
       <1>13, <1>14, <1>15, <1>17, <1>18, <1>19, <1>20, <1>21
    DEF Next, WorkerStep, WorkerFault

-----------------------------------------------------------------------------
(* The steps that matter to claims, and the ones that leave them alone. *)

\* A step that writes no row, gives nobody a claim or a row lock, and takes no
\* record away from the brokers.
Quiet ==
    /\ rows' = rows
    /\ nextToken' = nextToken
    /\ clock <= clock'
    /\ log \subseteq log'
    /\ \A v \in Workers :
          /\ pc'[v] \in Holding => pc[v] \in Holding /\ job'[v] = job[v]
          /\ pc'[v] = "locked" => pc[v] = "locked" /\ job'[v] = job[v]

\* SELECT ... FOR UPDATE locks the row of event e for w.
Locks(w, e) ==
    /\ pc[w] = "claim" /\ e \in Due
    /\ job' = [job EXCEPT ![w] = [event |-> e, token |-> 0, now |-> clock,
                                  retry |-> rows[e].retry_count]]
    /\ Goto(w, "locked")
    /\ UNCHANGED <<rows, log, sent, clock, nextToken>>

\* The claim of w commits, and w learns of it or not.
Claims(w) ==
    /\ pc[w] = "locked"
    /\ rows' = [rows EXCEPT ![job[w].event] = ClaimedRow(w)]
    /\ nextToken' = nextToken + 1
    /\ \/ Goto(w, "produce") /\ job' = [job EXCEPT ![w].token = nextToken]
       \/ LeaveRunOnce(w)
    /\ UNCHANGED <<log, sent, clock>>

\* w reports the end of its work with a conditional UPDATE.
Marks(w) ==
    /\ \/ pc[w] = "markPublished" /\ UpdateOwned(w, SettledRow(w, "PUBLISHED"))
       \/ pc[w] = "markDead" /\ UpdateOwned(w, SettledRow(w, "DEAD"))
       \/ pc[w] = "markFailed" /\ UpdateOwned(w, FailedRow(w, job[w].retry + 1))
       \/ pc[w] = "markRetained" /\ UpdateOwned(w, FailedRow(w, job[w].retry))
    /\ UNCHANGED <<log, sent, clock, nextToken>>

\* Every step is quiet or is one of the four kinds that write a row or a lock.
LEMMA StepKinds ==
    ASSUME TypeOK, [Next]_vars
    PROVE  \/ Quiet
           \/ \E e \in Events : insertEvent(e)
           \/ \E w \in Workers : \E e \in Events : Locks(w, e)
           \/ \E w \in Workers : Claims(w) \/ Marks(w)
<1> USE PcNames DEF TypeOK
<1>1. ASSUME NEW w \in Workers, LeaveRunOnce(w) \/ NextIteration(w),
             UNCHANGED <<rows, nextToken, clock, log>>
      PROVE  Quiet
    BY <1>1, ResetTypes DEF Quiet
<1>2. ASSUME NEW w \in Workers, start(w) PROVE Quiet
    BY <1>2 DEF start, Goto, Quiet
<1>3. ASSUME NEW w \in Workers, stop(w) PROVE Quiet
    BY <1>3 DEF stop, Quiet
<1>4. ASSUME NEW w \in Workers, crash(w) PROVE Quiet
    BY <1>4 DEF crash, Goto, Quiet
<1>5. ASSUME NEW w \in Workers, loop(w) PROVE Quiet
    BY <1>5 DEF loop, Goto, Quiet
<1>6. ASSUME NEW w \in Workers, claimSelect(w) PROVE Quiet \/ \E e \in Events : Locks(w, e)
    BY <1>1, <1>6, Zenon DEF claimSelect, Locks, Due
<1>7. ASSUME NEW w \in Workers, claimUnavailable(w) PROVE Quiet
    BY <1>1, <1>7, Zenon DEF claimUnavailable
<1>8. ASSUME NEW w \in Workers, claimCommit(w) PROVE Claims(w)
    BY <1>8, Zenon DEF claimCommit, Claims
<1>9. ASSUME NEW w \in Workers, claimFail(w) PROVE Quiet \/ Claims(w)
    BY <1>1, <1>9, Zenon DEF claimFail, Claims
<1>10. ASSUME NEW w \in Workers, produce(w) PROVE Quiet
    BY <1>10 DEF produce, Goto, Quiet
<1>11. ASSUME NEW w \in Workers, produceOk(w) PROVE Quiet
    BY <1>11 DEF produceOk, Goto, Quiet
<1>12. ASSUME NEW w \in Workers, produceFail(w) \/ deliveryError(w) PROVE Quiet
    BY <1>12 DEF produceFail, deliveryError, AfterProduceFailure, Goto, Quiet
<1>13. ASSUME NEW r \in sent, brokerAppend(r) \/ recordLost(r) PROVE Quiet
    BY <1>13 DEF brokerAppend, recordLost, Quiet
<1>14. ASSUME NEW w \in Workers, markPublished(w) \/ markDead(w) \/ markFailed(w) PROVE Marks(w)
    BY <1>14, Zenon DEF markPublished, markDead, markFailed, Marks
<1>15. ASSUME NEW w \in Workers, markUnavailable(w) PROVE Quiet
    BY <1>1, <1>15, Zenon DEF markUnavailable
<1>16. CASE tick \/ UNCHANGED vars
    BY <1>16 DEF tick, vars, Quiet
<1> QED
    BY Zenon, <1>2, <1>3, <1>4, <1>5, <1>6, <1>7, <1>8, <1>9, <1>10, <1>11, <1>12, <1>13, <1>14,
       <1>15, <1>16
    DEF Next, WorkerStep, WorkerFault

\* A claim changes the row it locked and nothing of the other rows and workers.
LEMMA ClaimEffect ==
    ASSUME TypeOK, NEW w \in Workers, Claims(w)
    PROVE  /\ job[w].event \in Events
           /\ rows' = [rows EXCEPT ![job[w].event] = ClaimedRow(w)]
           /\ ClaimedRow(w).status = "PUBLISHING" /\ ClaimedRow(w).claim_token = nextToken
           /\ ClaimedRow(w).retry_count = rows[job[w].event].retry_count
           /\ \A v \in Workers : v # w => pc'[v] = pc[v] /\ job'[v] = job[v]
           /\ pc'[w] # "locked" /\ pc'[w] \notin DeadLettering
           /\ pc'[w] \notin {"markPublished", "markFailed"}
           /\ pc'[w] \in Holding => /\ job'[w].token = nextToken
                                    /\ job'[w].event = job[w].event
                                    /\ job'[w].retry = job[w].retry
<1>1. pc[w] = "locked" /\ job[w].event \in Events /\ job[w] \in Job
    BY Zenon DEF Claims, TypeOK
<1>2. CASE LeaveRunOnce(w)
    BY <1>1, <1>2, PcNames, Zenon DEF Claims, LeaveRunOnce, Goto, ClaimedRow, TypeOK, DeadLettering
<1>3. CASE Goto(w, "produce") /\ job' = [job EXCEPT ![w].token = nextToken]
    <2>1. job'[w] = [job[w] EXCEPT !.token = nextToken]
        BY <1>3, Zenon DEF TypeOK
    <2>2. /\ job'[w].token = nextToken
          /\ job'[w].event = job[w].event
          /\ job'[w].retry = job[w].retry
        BY <1>1, <2>1, Zenon DEF Job
    <2>3. \A v \in Workers : v # w => job'[v] = job[v]
        BY <1>3, Zenon DEF TypeOK
    <2> QED
        BY <1>1, <1>3, <2>2, <2>3, Zenon DEF Claims, Goto, ClaimedRow, TypeOK, DeadLettering
<1> QED
    BY <1>2, <1>3, Zenon DEF Claims

\* A mark changes the row of its worker, if the worker owns it, and no other.
LEMMA MarkEffect ==
    ASSUME TypeOK, NEW w \in Workers, Marks(w)
    PROVE  /\ job[w].event \in Events \ Locked
           /\ pc[w] \in Holding
           /\ pc'[w] = "claim"
           /\ \A v \in Workers : v # w => pc'[v] = pc[v] /\ job'[v] = job[v]
           /\ \/ rows' = rows
              \/ /\ Owns(w)
                 /\ \E row \in OutboxRow :
                       /\ rows' = [rows EXCEPT ![job[w].event] = row]
                       /\ row.claim_token = 0
                       /\ \/ /\ row.status = "PUBLISHED" /\ pc[w] = "markPublished"
                             /\ row.retry_count = rows[job[w].event].retry_count
                          \/ /\ row.status = "DEAD" /\ pc[w] = "markDead"
                             /\ row.retry_count = rows[job[w].event].retry_count
                          \/ /\ row.status = "FAILED" /\ pc[w] = "markFailed"
                             /\ row.retry_count = job[w].retry + 1
                          \/ /\ row.status = "FAILED" /\ pc[w] = "markRetained"
                             /\ row.retry_count = job[w].retry
<1>1. pc[w] \in Holding /\ job[w].event \in Events \ Locked
    BY PcNames, Zenon DEF Marks, UpdateOwned, TypeOK
<1>2. job[w].retry \in Nat /\ job[w].retry + 1 \in Nat
    BY DEF TypeOK, Job
<1>3. NextIteration(w)
    BY Zenon DEF Marks, UpdateOwned
<1>4. pc'[w] = "claim" /\ \A v \in Workers : v # w => pc'[v] = pc[v] /\ job'[v] = job[v]
    BY <1>3, Zenon DEF NextIteration, Goto, TypeOK
<1>5. /\ SettledRow(w, "PUBLISHED") \in OutboxRow /\ SettledRow(w, "DEAD") \in OutboxRow
      /\ FailedRow(w, job[w].retry) \in OutboxRow /\ FailedRow(w, job[w].retry + 1) \in OutboxRow
    BY <1>1, <1>2, RowTypes, Zenon DEF Status, Terminal
<1>6. CASE pc[w] = "markPublished" /\ UpdateOwned(w, SettledRow(w, "PUBLISHED"))
    BY <1>1, <1>4, <1>5, <1>6, Zenon DEF UpdateOwned, SettledRow
<1>7. CASE pc[w] = "markDead" /\ UpdateOwned(w, SettledRow(w, "DEAD"))
    BY <1>1, <1>4, <1>5, <1>7, Zenon DEF UpdateOwned, SettledRow
<1>8. CASE pc[w] = "markFailed" /\ UpdateOwned(w, FailedRow(w, job[w].retry + 1))
    BY <1>1, <1>4, <1>5, <1>8, Zenon DEF UpdateOwned, FailedRow
<1>9. CASE pc[w] = "markRetained" /\ UpdateOwned(w, FailedRow(w, job[w].retry))
    BY <1>1, <1>4, <1>5, <1>9, Zenon DEF UpdateOwned, FailedRow
<1> QED
    BY <1>6, <1>7, <1>8, <1>9, Zenon DEF Marks

-----------------------------------------------------------------------------
(* The conjuncts of IndInv, one at a time. *)

\* Claim tokens stay unique, and on PUBLISHING rows.
LEMMA TokenStep == IndInv /\ [Next]_vars => TokenInv'
<1> SUFFICES ASSUME IndInv, [Next]_vars PROVE TokenInv'
    BY Zenon
<1> USE DEF IndInv, TypeOK, TokenInv, Holds
<1>1. CASE Quiet
    BY <1>1, Zenon DEF Quiet
<1>2. ASSUME NEW e \in Events, insertEvent(e) PROVE TokenInv'
    BY <1>2, Zenon DEF insertEvent, PendingRow
<1>3. ASSUME NEW w \in Workers, NEW e \in Events, Locks(w, e) PROVE TokenInv'
    BY <1>3, PcNames DEF Locks, Goto
<1>4. ASSUME NEW w \in Workers, Claims(w) PROVE TokenInv'
    <2>1. nextToken \in Nat \ {0} /\ nextToken' = nextToken + 1
        BY <1>4, Zenon DEF Claims
    <2>2. ASSUME NEW e \in Events
          PROVE  /\ (rows'[e].claim_token # 0) <=> (rows'[e].status = "PUBLISHING")
                 /\ rows'[e].claim_token < nextToken'
        <3>1. rows[e].claim_token \in Nat
            BY Zenon DEF OutboxRow
        <3>2. CASE e = job[w].event
            <4>1. rows'[e] = ClaimedRow(w)
                BY <1>4, <3>2, ClaimEffect
            <4>2. rows'[e].status = "PUBLISHING" /\ rows'[e].claim_token = nextToken
                BY <1>4, <4>1, ClaimEffect
            <4> QED
                BY <2>1, <4>2
        <3>3. CASE e # job[w].event
            <4>1. rows'[e] = rows[e]
                BY <1>4, <3>3, ClaimEffect
            <4> QED
                BY <2>1, <3>1, <4>1
        <3> QED
            BY <3>2, <3>3, Zenon
    <2>3. ASSUME NEW v \in Workers, Holds(v)'
          PROVE  /\ job'[v].token \in 1..(nextToken' - 1)
                 /\ v = w => job'[v].token = nextToken
                 /\ v # w => Holds(v) /\ job'[v] = job[v] /\ job[v].token < nextToken
        <3>1. CASE v = w
            BY <1>4, <2>1, <2>3, <3>1, ClaimEffect
        <3>2. CASE v # w
            BY <1>4, <2>1, <2>3, <3>2, ClaimEffect
        <3> QED
            BY <3>1, <3>2
    <2> QED
        BY <2>1, <2>2, <2>3
<1>5. ASSUME NEW w \in Workers, Marks(w) PROVE TokenInv'
    <2>1. nextToken' = nextToken /\ nextToken \in Nat \ {0}
        BY <1>5, Zenon DEF Marks
    <2>2. ASSUME NEW e \in Events
          PROVE  /\ (rows'[e].claim_token # 0) <=> (rows'[e].status = "PUBLISHING")
                 /\ rows'[e].claim_token < nextToken'
        <3>1. CASE rows' = rows
            BY <2>1, <3>1, Zenon
        <3>2. CASE rows' # rows
            BY <1>5, <2>1, <3>2, MarkEffect
        <3> QED
            BY <3>1, <3>2, Zenon
    <2>3. ASSUME NEW v \in Workers, Holds(v)'
          PROVE  Holds(v) /\ job'[v] = job[v]
        <3>1. pc'[w] = "claim" /\ (v # w => pc'[v] = pc[v] /\ job'[v] = job[v])
            BY <1>5, MarkEffect
        <3>2. v # w
            BY <2>3, <3>1, PcNames, Zenon
        <3> QED
            BY <2>3, <3>1, <3>2
    <2> QED
        BY <2>1, <2>2, <2>3, Zenon
<1> QED
    BY <1>1, <1>2, <1>3, <1>4, <1>5, StepKinds, Zenon

\* A locked row stays claimable, and its lock its holder's.
LEMMA LockStep == IndInv /\ [Next]_vars => LockInv'
<1> SUFFICES ASSUME IndInv, [Next]_vars PROVE LockInv'
    BY Zenon
<1> DEFINE Kept(v) == /\ pc[v] = "locked" /\ job'[v] = job[v]
                      /\ rows'[job[v].event] = rows[job[v].event]
<1>1. ASSUME NEW v \in Workers, pc[v] = "locked"
      PROVE  /\ job[v].event \in Events
             /\ rows[job[v].event].status \in Claimable
             /\ rows[job[v].event].next_retry_at \in Nat
             /\ rows[job[v].event].next_retry_at <= clock
             /\ job[v].retry = rows[job[v].event].retry_count
             /\ \A u \in Workers : pc[u] = "locked" /\ job[u].event = job[v].event => u = v
    BY <1>1, Zenon DEF IndInv, TypeOK, LockInv, HasLock, OutboxRow
<1>2. ASSUME clock <= clock', \A v \in Workers : pc'[v] = "locked" => Kept(v) PROVE LockInv'
    <2>1. clock \in Nat /\ clock' \in Nat
        BY TypeStep, Zenon DEF IndInv, TypeOK
    <2>2. ASSUME NEW v \in Workers, pc'[v] = "locked"
          PROVE  /\ rows'[job'[v].event].status \in Claimable
                 /\ rows'[job'[v].event].next_retry_at <= clock'
                 /\ job'[v].retry = rows'[job'[v].event].retry_count
        BY <1>1, <1>2, <2>1, <2>2
    <2> QED
        BY <1>1, <1>2, <2>2 DEF LockInv, HasLock
<1> USE DEF IndInv, TypeOK
<1>3. CASE Quiet
    BY <1>2, <1>3, Zenon DEF Quiet
<1>4. ASSUME NEW e \in Events, insertEvent(e) PROVE LockInv'
    <2>1. ASSUME NEW v \in Workers, pc'[v] = "locked" PROVE Kept(v)
        BY <1>1, <1>4, <2>1, Zenon DEF insertEvent, Claimable
    <2> QED
        BY <1>2, <1>4, <2>1 DEF insertEvent
<1>5. ASSUME NEW w \in Workers, NEW e \in Events, Locks(w, e) PROVE LockInv'
    <2>1. e \notin Locked /\ rows[e].status \in Claimable /\ rows[e].next_retry_at <= clock
        BY <1>5, Zenon DEF Locks, Due
    <2>2. /\ pc'[w] = "locked" /\ job'[w].event = e /\ job'[w].retry = rows[e].retry_count
          /\ rows' = rows /\ clock' = clock
          /\ \A v \in Workers : v # w => pc'[v] = pc[v] /\ job'[v] = job[v]
        BY <1>5, Zenon DEF Locks, Goto
    <2>3. \A v \in Workers : pc[v] = "locked" => job[v].event # e
        BY <2>1, Zenon DEF Locked
    <2>4. ASSUME NEW v \in Workers, pc'[v] = "locked"
          PROVE  /\ rows'[job'[v].event].status \in Claimable
                 /\ rows'[job'[v].event].next_retry_at <= clock'
                 /\ job'[v].retry = rows'[job'[v].event].retry_count
                 /\ v # w => pc[v] = "locked" /\ job'[v] = job[v] /\ job'[v].event # e
        <3>1. CASE v = w
            BY <2>1, <2>2, <3>1, Zenon
        <3>2. CASE v # w
            BY <1>1, <2>2, <2>3, <2>4, <3>2
        <3> QED
            BY <3>1, <3>2, Zenon
    <2>5. ASSUME NEW u \in Workers, NEW v \in Workers, pc'[u] = "locked", pc'[v] = "locked",
                 job'[u].event = job'[v].event
          PROVE  u = v
        BY <1>1, <2>2, <2>4, <2>5
    <2> QED
        BY <2>4, <2>5, Zenon DEF LockInv, HasLock
<1>6. ASSUME NEW w \in Workers, Claims(w) PROVE LockInv'
    <2>1. pc[w] = "locked" /\ clock' = clock
        BY <1>6 DEF Claims
    <2>2. ASSUME NEW v \in Workers, pc'[v] = "locked" PROVE Kept(v)
        <3>1. v # w /\ pc[v] = "locked" /\ job'[v] = job[v]
            BY <1>6, <2>2, ClaimEffect
        <3>2. job[v].event # job[w].event
            BY <1>1, <2>1, <3>1, Zenon
        <3> QED
            BY <1>1, <1>6, <3>1, <3>2, ClaimEffect
    <2> QED
        BY <1>2, <2>1, <2>2
<1>7. ASSUME NEW w \in Workers, Marks(w) PROVE LockInv'
    <2>1. clock' = clock
        BY <1>7, Zenon DEF Marks
    <2>2. ASSUME NEW v \in Workers, pc'[v] = "locked" PROVE Kept(v)
        <3>1. v # w /\ pc[v] = "locked" /\ job'[v] = job[v]
            BY <1>7, <2>2, MarkEffect, Zenon
        <3>2. job[v].event \in Locked
            BY <3>1, Zenon DEF Locked
        <3>3. job[w].event # job[v].event
            BY <1>7, <3>2, MarkEffect, Zenon
        <3> QED
            BY <1>1, <1>7, <3>1, <3>3, MarkEffect
    <2> QED
        BY <1>2, <2>1, <2>2
<1> QED
    BY <1>3, <1>4, <1>5, <1>6, <1>7, StepKinds, Zenon

\* No worker remembers a retry count ahead of its row's, and only a worker
\* whose row is out of retries goes to the dead-letter topic.
LEMMA RetryStep == IndInv /\ [Next]_vars => RetryInv'
<1> SUFFICES ASSUME IndInv, [Next]_vars PROVE RetryInv'
    OBVIOUS
<1> DEFINE Known(v) == /\ job[v].retry <= rows[job[v].event].retry_count
                       /\ Owns(v) => job[v].retry = rows[job[v].event].retry_count
           Rows == \A e \in Events : /\ rows[e].retry_count <= MaxRetry
                                     /\ rows[e].status = "NONE" => rows[e].retry_count = 0
<1> USE OutboxAssumption
<1>1. Rows' /\ \A v \in Workers : Holds(v)' => Known(v)'
    <2> USE DEF IndInv, TypeOK, RetryInv, Holds, Owns, OutboxRow, Job
    <2>1. CASE Quiet
        BY <2>1 DEF Quiet
    <2>2. ASSUME NEW e \in Events, insertEvent(e)
          PROVE  Rows' /\ \A v \in Workers : Holds(v)' => Known(v)'
        BY <2>2, Zenon DEF insertEvent, PendingRow
    <2>3. ASSUME NEW w \in Workers, NEW e \in Events, Locks(w, e)
          PROVE  Rows' /\ \A v \in Workers : Holds(v)' => Known(v)'
        BY <2>3, PcNames, Zenon DEF Locks, Goto
    <2>4. ASSUME NEW w \in Workers, Claims(w)
          PROVE  Rows' /\ \A v \in Workers : Holds(v)' => Known(v)'
        <3>1. pc[w] = "locked" /\ job[w].retry = rows[job[w].event].retry_count
            BY <2>4, Zenon DEF Claims, LockInv, HasLock
        <3>2. \A e \in Events : rows'[e].retry_count = rows[e].retry_count
            BY <2>4, ClaimEffect
        <3>3. ASSUME NEW v \in Workers, Holds(v)' PROVE Known(v)'
            <4>1. CASE v = w
                BY <2>4, <3>1, <3>2, <3>3, <4>1, ClaimEffect
            <4>2. CASE v # w
                <5>1. pc[v] \in Holding /\ job'[v] = job[v] /\ job[v].event \in Events
                    BY <2>4, <3>3, <4>2, ClaimEffect
                <5>2. job[v].token # nextToken
                    BY <5>1 DEF TokenInv
                <5>3. Owns(v)' => Owns(v)
                    <6>1. CASE job[v].event = job[w].event
                        BY <2>4, <5>1, <5>2, <6>1, ClaimEffect
                    <6>2. CASE job[v].event # job[w].event
                        <7>1. rows'[job[v].event] = rows[job[v].event]
                            BY <2>4, <5>1, <6>2, ClaimEffect, ZenonT(60)
                        <7> QED
                            BY <5>1, <7>1, Zenon
                    <6> QED
                        BY <6>1, <6>2, Zenon
                <5>4. Known(v)
                    BY <5>1, Zenon
                <5> QED
                    BY <3>2, <5>1, <5>3, <5>4, Zenon
            <4> QED
                BY <4>1, <4>2, Zenon
        <3> QED
            BY <2>4, <3>2, <3>3, ClaimEffect
    <2>5. ASSUME NEW w \in Workers, Marks(w)
          PROVE  Rows' /\ \A v \in Workers : Holds(v)' => Known(v)'
        <3>1. \A e \in Events : /\ rows'[e].retry_count \in Nat
                                /\ rows[e].retry_count <= rows'[e].retry_count
                                /\ rows'[e].retry_count <= MaxRetry
                                /\ rows'[e] = rows[e] \/ rows'[e].claim_token = 0
                                /\ rows'[e] = rows[e] \/ rows'[e].status # "NONE"
            BY <2>5, MarkEffect
        <3>2. ASSUME NEW v \in Workers, Holds(v)' PROVE Known(v)'
            <4>1. v # w /\ pc[v] \in Holding /\ job'[v] = job[v] /\ job[v].token # 0
                BY <2>5, <3>2, MarkEffect, PcNames DEF TokenInv
            <4>2. Known(v) /\ job[v].event \in Events
                BY <4>1, Zenon
            <4>3. Owns(v)' => Owns(v) /\ rows'[job[v].event] = rows[job[v].event]
                BY <3>1, <4>1, <4>2, Zenon
            <4>4. job[v].retry <= rows'[job[v].event].retry_count
                <5>1. /\ job[v].retry \in Nat /\ rows[job[v].event].retry_count \in Nat
                      /\ rows'[job[v].event].retry_count \in Nat
                    BY <3>1, <4>2, Zenon
                <5>2. rows[job[v].event].retry_count <= rows'[job[v].event].retry_count
                    BY <3>1, <4>2, Zenon
                <5> QED
                    BY <4>2, <5>1, <5>2
            <4> QED
                BY <4>1, <4>2, <4>3, <4>4, Zenon
        <3> QED
            BY <3>1, <3>2, Zenon
    <2> QED
        BY <2>1, <2>2, <2>3, <2>4, <2>5, StepKinds, Zenon
<1>2. ASSUME NEW v \in Workers
      PROVE  /\ pc'[v] \in DeadLettering => job'[v].retry = MaxRetry
             /\ pc'[v] = "markFailed" => job'[v].retry < MaxRetry
    <2> USE DEF DeadLettering
    <2>1. /\ pc[v] \in DeadLettering => job[v].retry = MaxRetry
          /\ pc[v] = "markFailed" => job[v].retry < MaxRetry
        BY Zenon DEF IndInv, RetryInv
    <2>2. CASE pc'[v] = pc[v] /\ job'[v] = job[v]
        BY <2>1, <2>2, Zenon
    <2>3. CASE pc'[v] \in {"off", "loop", "claim", "locked", "produce", "await", "markPublished"}
        BY <2>3, Zenon
    <2>4. CASE pc[v] \in DeadLettering /\ job'[v] = job[v] /\ pc'[v] \in DeadLettering
        BY <2>1, <2>4, Zenon
    <2>5. CASE /\ pc[v] \in {"produce", "await"} /\ job'[v] = job[v]
               /\ pc'[v] = IF Exhausted(v) THEN "dlq" ELSE "markFailed"
        <3>1. pc[v] \in Holding /\ job[v].event \in Events
            BY <2>5, PcNames, Zenon DEF IndInv, TypeOK
        <3>2. job[v].retry \in Nat /\ job[v].retry <= MaxRetry
            <4>1. job[v].retry \in Nat /\ rows[job[v].event].retry_count \in Nat
                BY <3>1, Zenon DEF IndInv, TypeOK, Job, OutboxRow
            <4>2. /\ job[v].retry <= rows[job[v].event].retry_count
                  /\ rows[job[v].event].retry_count <= MaxRetry
                BY <3>1, Zenon DEF IndInv, RetryInv, Holds
            <4> QED
                BY <4>1, <4>2
        <3> QED
            BY <2>5, <3>2 DEF Exhausted
    <2>6. \/ pc'[v] = pc[v] /\ job'[v] = job[v]
          \/ pc'[v] \in {"off", "loop", "claim", "locked", "produce", "await", "markPublished"}
          \/ pc[v] \in DeadLettering /\ job'[v] = job[v] /\ pc'[v] \in DeadLettering
          \/ /\ pc[v] \in {"produce", "await"} /\ job'[v] = job[v]
             /\ pc'[v] = IF Exhausted(v) THEN "dlq" ELSE "markFailed"
        <3> USE DEF IndInv, TypeOK
        <3>1. ASSUME NEW w \in Workers, LeaveRunOnce(w) \/ NextIteration(w)
              PROVE  \/ pc'[v] = pc[v] /\ job'[v] = job[v]
                     \/ pc'[v] \in {"loop", "claim"}
            BY <3>1, Zenon DEF LeaveRunOnce, NextIteration, Goto
        <3>2. CASE \E w \in Workers : start(w) \/ stop(w) \/ crash(w) \/ loop(w)
            BY <3>2 DEF start, stop, crash, loop, Goto
        <3>3. CASE \E w \in Workers : claimSelect(w) \/ claimUnavailable(w) \/ claimFail(w)
            BY <3>1, <3>3, Zenon DEF claimSelect, claimUnavailable, claimFail, Goto
        <3>4. CASE \E w \in Workers : claimCommit(w)
            BY <3>4 DEF claimCommit, Goto
        <3>5. CASE \E w \in Workers : produce(w) \/ produceOk(w)
            BY <3>5 DEF produce, produceOk, Goto
        <3>6. CASE \E w \in Workers : produceFail(w) \/ deliveryError(w)
            BY <3>6 DEF produceFail, deliveryError, AfterProduceFailure, Goto
        <3>7. CASE \E w \in Workers : markPublished(w) \/ markDead(w) \/ markFailed(w)
                                      \/ markUnavailable(w)
            BY <3>1, <3>7, Zenon DEF markPublished, markDead, markFailed, markUnavailable, UpdateOwned
        <3>8. CASE \/ tick \/ UNCHANGED vars
                   \/ \E e \in Events : insertEvent(e)
                   \/ \E r \in sent : brokerAppend(r) \/ recordLost(r)
            BY <3>8, Zenon DEF tick, vars, insertEvent, brokerAppend, recordLost
        <3> QED
            BY <3>2, <3>3, <3>4, <3>5, <3>6, <3>7, <3>8, Zenon DEF Next, WorkerStep, WorkerFault
    <2> QED
        BY <2>2, <2>3, <2>4, <2>5, <2>6, Zenon
<1> QED
    BY <1>1, <1>2, Zenon DEF RetryInv

\* A worker that is about to call markPublished or markDead saw its record land.
LEMMA DeliveryStep == IndInv /\ [Next]_vars => DeliveryInv'
<1> SUFFICES ASSUME IndInv, [Next]_vars, NEW v \in Workers
             PROVE  /\ pc'[v] = "markPublished" => RecordOf(v, "topic")' \in log'
                    /\ pc'[v] = "markDead" => RecordOf(v, "dlq")' \in log'
    BY Zenon DEF DeliveryInv
<1> USE DEF IndInv, TypeOK, DeliveryInv, RecordOf
<1>1. CASE Quiet /\ pc'[v] = pc[v]
    BY <1>1, PcNames DEF Quiet
<1>2. CASE \E w \in Workers : produceOk(w)
    BY <1>2 DEF produceOk, Goto
<1>3. CASE \E w \in Workers : Claims(w)
    BY <1>3, ClaimEffect, ZenonT(60) DEF Claims, DeadLettering
<1>4. CASE \E w \in Workers : Marks(w)
    BY <1>4, MarkEffect, Zenon DEF Marks
<1>5. CASE \E e \in Events : insertEvent(e)
    BY <1>5, Zenon DEF insertEvent
<1>6. CASE \E w \in Workers : \E e \in Events : Locks(w, e)
    BY <1>6 DEF Locks, Goto
<1>7. \/ pc'[v] = pc[v] \/ pc'[v] \notin {"markPublished", "markDead"}
      \/ \E w \in Workers : produceOk(w)
    <2>1. ASSUME NEW w \in Workers, LeaveRunOnce(w) \/ NextIteration(w)
          PROVE  pc'[v] = pc[v] \/ pc'[v] \notin {"markPublished", "markDead"}
        BY <2>1, Zenon DEF LeaveRunOnce, NextIteration, Goto
    <2>2. CASE \E w \in Workers : start(w) \/ stop(w) \/ crash(w) \/ loop(w) \/ claimCommit(w)
        BY <2>2 DEF start, stop, crash, loop, claimCommit, Goto
    <2>3. CASE \E w \in Workers : claimSelect(w) \/ claimUnavailable(w) \/ claimFail(w)
        BY <2>1, <2>3 DEF claimSelect, claimUnavailable, claimFail, Goto
    <2>4. CASE \E w \in Workers : produce(w) \/ produceFail(w) \/ deliveryError(w)
        BY <2>4 DEF produce, produceFail, deliveryError, AfterProduceFailure, Goto
    <2>5. CASE \E w \in Workers : markPublished(w) \/ markDead(w) \/ markFailed(w)
                                  \/ markUnavailable(w)
        BY <2>1, <2>5, Zenon DEF markPublished, markDead, markFailed, markUnavailable, UpdateOwned
    <2>6. CASE \/ tick \/ UNCHANGED vars
               \/ \E e \in Events : insertEvent(e)
               \/ \E r \in sent : brokerAppend(r) \/ recordLost(r)
        BY <2>6, Zenon DEF tick, vars, insertEvent, brokerAppend, recordLost
    <2> QED
        BY <2>2, <2>3, <2>4, <2>5, <2>6, Zenon DEF Next, WorkerStep, WorkerFault
<1> QED
    BY <1>1, <1>2, <1>3, <1>4, <1>5, <1>6, <1>7, StepKinds, Zenon

\* Only a worker that saw the record land makes a row terminal, and the brokers
\* keep the record.
LEMMA TerminalStep == IndInv /\ [Next]_vars => TerminalIsDelivered'
<1> SUFFICES ASSUME IndInv, [Next]_vars PROVE TerminalIsDelivered'
    BY Zenon
<1> USE DEF IndInv, TypeOK
<1> DEFINE On(t, e, L) == \E r \in L : r.topic = t /\ r.event = e
<1>1. ASSUME log \subseteq log', NEW t, NEW e, On(t, e, log) PROVE On(t, e, log')
    BY <1>1, Zenon
<1>2. CASE Quiet
    BY <1>1, <1>2 DEF Quiet, TerminalIsDelivered
<1>3. ASSUME NEW e \in Events, insertEvent(e) PROVE TerminalIsDelivered'
    BY <1>3 DEF insertEvent, PendingRow, TerminalIsDelivered
<1>4. ASSUME NEW w \in Workers, NEW e \in Events, Locks(w, e) PROVE TerminalIsDelivered'
    BY <1>4, Zenon DEF Locks, TerminalIsDelivered
<1>5. ASSUME NEW w \in Workers, Claims(w) PROVE TerminalIsDelivered'
    BY <1>5, ClaimEffect, ZenonT(60) DEF Claims, TerminalIsDelivered
<1>6. ASSUME NEW w \in Workers, Marks(w) PROVE TerminalIsDelivered'
    <2>1. /\ pc[w] = "markPublished" => On("topic", job[w].event, log)
          /\ pc[w] = "markDead" => On("dlq", job[w].event, log)
        BY Zenon DEF DeliveryInv, RecordOf
    <2>2. log' = log
        BY <1>6, Zenon DEF Marks
    <2>3. ASSUME NEW e \in Events
          PROVE  /\ rows'[e].status = "PUBLISHED" => On("topic", e, log)
                 /\ rows'[e].status = "DEAD" => On("dlq", e, log)
        <3>1. CASE rows'[e] = rows[e]
            BY <3>1 DEF TerminalIsDelivered
        <3>2. CASE rows'[e] # rows[e]
            <4>1. /\ e = job[w].event
                  /\ rows'[e].status = "PUBLISHED" => pc[w] = "markPublished"
                  /\ rows'[e].status = "DEAD" => pc[w] = "markDead"
                BY <1>6, <3>2, MarkEffect, ZenonT(60)
            <4> QED
                BY <2>1, <4>1, Zenon
        <3> QED
            BY <3>1, <3>2, Zenon
    <2> QED
        BY <2>2, <2>3, Zenon DEF TerminalIsDelivered
<1> QED
    BY <1>2, <1>3, <1>4, <1>5, <1>6, StepKinds, Zenon

\* What a worker that holds a claim on a row can do to its retry count: nothing,
\* or one more while there is one left.
LEMMA RetryCounts ==
    ASSUME IndInv, [Next]_vars, NEW e \in Events
    PROVE  /\ rows[e].retry_count \in Nat
           /\ \/ rows'[e].retry_count = rows[e].retry_count
              \/ /\ rows[e].retry_count < MaxRetry
                 /\ rows'[e].retry_count = rows[e].retry_count + 1
<1> USE DEF IndInv, TypeOK
<1>1. rows[e].retry_count \in Nat
    BY Zenon DEF OutboxRow
<1>2. CASE Quiet
    BY <1>1, <1>2, Zenon DEF Quiet
<1>3. ASSUME NEW d \in Events, insertEvent(d)
      PROVE  rows'[e].retry_count = rows[e].retry_count
    BY <1>3, Zenon DEF insertEvent, PendingRow, RetryInv
<1>4. ASSUME NEW w \in Workers, NEW d \in Events, Locks(w, d)
      PROVE  rows'[e].retry_count = rows[e].retry_count
    BY <1>4, Zenon DEF Locks
<1>5. ASSUME NEW w \in Workers, Claims(w)
      PROVE  rows'[e].retry_count = rows[e].retry_count
    BY <1>5, ClaimEffect, Zenon
<1>6. ASSUME NEW w \in Workers, Marks(w)
      PROVE  \/ rows'[e].retry_count = rows[e].retry_count
             \/ /\ rows[e].retry_count < MaxRetry
                /\ rows'[e].retry_count = rows[e].retry_count + 1
    <2>1. CASE rows'[e] = rows[e]
        BY <2>1, Zenon
    <2>2. CASE rows'[e] # rows[e]
        <3>1. e = job[w].event /\ Owns(w) /\ pc[w] \in Holding
            BY <1>6, <2>2, MarkEffect
        <3>2. /\ job[w].retry = rows[e].retry_count
              /\ pc[w] = "markFailed" => job[w].retry < MaxRetry
            BY <3>1, Zenon DEF RetryInv, Holds
        <3>3. \/ rows'[e].retry_count = rows[e].retry_count
              \/ pc[w] = "markFailed" /\ rows'[e].retry_count = job[w].retry + 1
            BY <1>6, <2>2, <3>1, <3>2, MarkEffect, Zenon
        <3> QED
            BY <3>2, <3>3, Zenon
    <2> QED
        BY <2>1, <2>2, Zenon
<1> QED
    BY <1>1, <1>2, <1>3, <1>4, <1>5, <1>6, StepKinds, Zenon

\* Only a worker whose row is out of retries sends a dead letter.
LEMMA DeadLetterStep == IndInv /\ [Next]_vars => DeadLetterOnlyWhenExhausted'
<1> SUFFICES ASSUME IndInv, [Next]_vars, NEW r \in log' \cup sent', r.topic = "dlq"
             PROVE  rows'[r.event].retry_count = MaxRetry
    BY Zenon DEF DeadLetterOnlyWhenExhausted
<1> USE OutboxAssumption
<1>1. \/ r \in log \cup sent
      \/ \E w \in Workers : pc[w] = "dlq" /\ r = RecordOf(w, "dlq")
    <2>1. CASE \E w \in Workers : produce(w)
        <3>1. PICK w \in Workers : produce(w)
            BY <2>1, Zenon
        <3>2. PICK t \in {"topic", "dlq"} :
                 /\ log' = log /\ sent' = sent \cup {RecordOf(w, t)}
                 /\ t = "dlq" => pc[w] = "dlq"
            BY <3>1, Zenon DEF produce
        <3>3. RecordOf(w, t).topic = t
            BY DEF RecordOf
        <3>4. CASE r = RecordOf(w, t)
            <4>1. t = "dlq"
                BY <3>3, <3>4, Zenon
            <4> QED
                BY <3>1, <3>2, <3>4, <4>1, Zenon
        <3> QED
            BY <3>2, <3>4, Zenon
    <2>2. CASE \E q \in sent : brokerAppend(q) \/ recordLost(q)
        BY <2>2, Zenon DEF brokerAppend, recordLost
    <2>3. \/ \E w \in Workers : produce(w)
          \/ \E q \in sent : brokerAppend(q) \/ recordLost(q)
          \/ UNCHANGED <<log, sent>>
        BY DEF Next, WorkerStep, WorkerFault, insertEvent, start, stop, crash, loop, claimSelect,
               claimUnavailable, claimCommit, claimFail, produceOk, produceFail, deliveryError,
               markPublished, markDead, markFailed, markUnavailable, tick, vars
    <2> QED
        BY <2>1, <2>2, <2>3, Zenon
<1>2. r.event \in Events /\ rows[r.event].retry_count = MaxRetry
    <2>1. CASE r \in log \cup sent
        BY <2>1, Zenon DEF IndInv, TypeOK, Record, DeadLetterOnlyWhenExhausted
    <2>2. ASSUME NEW w \in Workers, pc[w] = "dlq", r = RecordOf(w, "dlq")
          PROVE  r.event \in Events /\ rows[r.event].retry_count = MaxRetry
        <3>1. r.event = job[w].event /\ job[w].event \in Events
            BY <2>2, PcNames, Zenon DEF RecordOf, IndInv, TypeOK
        <3>2. rows[job[w].event].retry_count \in Nat
            BY <3>1, Zenon DEF IndInv, TypeOK, OutboxRow
        <3>3. /\ job[w].retry = MaxRetry
              /\ job[w].retry <= rows[job[w].event].retry_count
              /\ rows[job[w].event].retry_count <= MaxRetry
            BY <2>2, <3>1, PcNames, Zenon DEF IndInv, RetryInv, Holds, DeadLettering
        <3> QED
            BY <3>1, <3>2, <3>3
    <2> QED
        BY <1>1, <2>1, <2>2, Zenon
<1>3. \/ rows'[r.event].retry_count = rows[r.event].retry_count
      \/ rows[r.event].retry_count < MaxRetry
    BY <1>2, RetryCounts, Zenon
<1>4. MaxRetry \in Nat /\ ~ (MaxRetry < MaxRetry)
    OBVIOUS
<1>5. ~ (rows[r.event].retry_count < MaxRetry)
    BY <1>2, <1>4, Zenon
<1> QED
    BY <1>2, <1>3, <1>5, Zenon

-----------------------------------------------------------------------------
(* The theorems. *)

\* An empty table and workers that are off satisfy the invariant.
LEMMA InitInd == Init => IndInv
<1> SUFFICES ASSUME Init PROVE IndInv
    BY Zenon
<1> USE OutboxAssumption, PcNames DEF Init
<1>1. TypeOK
    BY DEF TypeOK, NoRow, OutboxRow, Status, NoJob, Job
<1>2. TokenInv /\ LockInv /\ RetryInv /\ DeliveryInv
    BY DEF TokenInv, LockInv, RetryInv, DeliveryInv, Holds, HasLock, NoRow, DeadLettering
<1>3. TerminalIsDelivered /\ DeadLetterOnlyWhenExhausted
    BY Zenon DEF TerminalIsDelivered, DeadLetterOnlyWhenExhausted, NoRow
<1> QED
    BY <1>1, <1>2, <1>3 DEF IndInv

\* IndInv holds of every state of the outbox.
THEOREM Inductive == Spec => []IndInv
<1>1. IndInv /\ [Next]_vars => IndInv'
    <2> SUFFICES ASSUME IndInv, [Next]_vars PROVE IndInv'
        BY Zenon
    <2>1. TypeOK'
        BY TypeStep, Zenon DEF IndInv
    <2> QED
        BY <2>1, TokenStep, LockStep, RetryStep, DeliveryStep, TerminalStep, DeadLetterStep, Zenon
        DEF IndInv
<1> QED
    BY <1>1, InitInd, PTL DEF Spec

\* Every state component keeps its type, whatever the workers do.
THEOREM TypeCorrect == Spec => []TypeOK
<1>1. IndInv => TypeOK
    BY Zenon DEF IndInv
<1> QED
    BY <1>1, Inductive, PTL

\* A row that the outbox worker closed has its record in the topic (markPublished)
\* or in the dead-letter topic (markDead), for any number of workers, crashes and
\* expired leases.
THEOREM NothingGivenUp == Spec => []TerminalIsDelivered
<1>1. IndInv => TerminalIsDelivered
    BY Zenon DEF IndInv
<1> QED
    BY <1>1, Inductive, PTL

\* runOnce sends an event to the dead-letter topic only when the row, and not
\* merely the copy the worker read, has used up its retries.
THEOREM DeadLetterLast == Spec => []DeadLetterOnlyWhenExhausted
<1>1. IndInv => DeadLetterOnlyWhenExhausted
    BY Zenon DEF IndInv
<1> QED
    BY <1>1, Inductive, PTL

\* The claim token of claimPendingEvents names one worker.
THEOREM ClaimHasOneOwner == Spec => []OneOwner
<1>1. IndInv => OneOwner
    BY DEF IndInv, TokenInv, OneOwner, Owns, Holds
<1> QED
    BY <1>1, Inductive, PTL

\* No UPDATE of the mark functions and no claim touches a PUBLISHED or DEAD row.
THEOREM TerminalRowsAreFinal == Spec => TerminalIsFinal
<1>1. IndInv /\ [Next]_vars =>
         [\A e \in Events : rows[e].status \in Terminal => rows'[e] = rows[e]]_vars
    <2> SUFFICES ASSUME IndInv, [Next]_vars, NEW e \in Events, rows[e].status \in Terminal
                 PROVE  rows'[e] = rows[e]
        BY Zenon
    <2> USE DEF IndInv, TypeOK, Terminal, Claimable
    <2>1. CASE Quiet
        BY <2>1 DEF Quiet
    <2>2. ASSUME NEW d \in Events, insertEvent(d) PROVE rows'[e] = rows[e]
        BY <2>2, Zenon DEF insertEvent
    <2>3. ASSUME NEW w \in Workers, NEW d \in Events, Locks(w, d) PROVE rows'[e] = rows[e]
        BY <2>3, Zenon DEF Locks
    <2>4. ASSUME NEW w \in Workers, Claims(w) PROVE rows'[e] = rows[e]
        <3>1. job[w].event # e
            BY <2>4, Zenon DEF Claims, LockInv, HasLock
        <3> QED
            BY <2>4, <3>1, ClaimEffect
    <2>5. ASSUME NEW w \in Workers, Marks(w) PROVE rows'[e] = rows[e]
        BY <2>5, MarkEffect DEF Owns
    <2> QED
        BY <2>1, <2>2, <2>3, <2>4, <2>5, StepKinds, Zenon
<1> QED
    BY <1>1, Inductive, PTL DEF Spec, TerminalIsFinal

\* markFailed never sets a retry count back or past max_retry_count.
THEOREM RetryCountsUp == Spec => RetryCountGrows
<1>1. IndInv /\ [Next]_vars =>
         [\A e \in Events :
             /\ rows'[e].retry_count \in rows[e].retry_count .. rows[e].retry_count + 1
             /\ rows'[e].retry_count <= MaxRetry]_vars
    <2> SUFFICES ASSUME IndInv, [Next]_vars, NEW e \in Events
                 PROVE  /\ rows'[e].retry_count \in rows[e].retry_count .. rows[e].retry_count + 1
                        /\ rows'[e].retry_count <= MaxRetry
        BY Zenon
    <2>1. rows[e].retry_count <= MaxRetry
        BY Zenon DEF IndInv, RetryInv
    <2> QED
        BY <2>1, RetryCounts, OutboxAssumption
<1> QED
    BY <1>1, Inductive, PTL DEF Spec, RetryCountGrows

\* A claimed row changes by its holder's hand or after its lease, never by the
\* late UPDATE of a worker whose claim was taken over.
THEOREM ClaimsAreRespected == Spec => ClaimIsRespected
<1> DEFINE Respected(e) ==
        (rows[e].status = "PUBLISHING" /\ rows'[e] # rows[e]) =>
            \/ rows[e].next_retry_at <= clock /\ rows'[e].claim_token = nextToken
            \/ \E w \in Workers :
                   /\ job[w].token = rows[e].claim_token
                   /\ job[w].event = e
                   /\ pc'[w] # pc[w]
<1>1. IndInv /\ [Next]_vars => [\A e \in Events : Respected(e)]_vars
    <2> SUFFICES ASSUME IndInv, [Next]_vars, NEW e \in Events,
                        rows[e].status = "PUBLISHING", rows'[e] # rows[e]
                 PROVE  Respected(e)
        BY Zenon
    <2> USE DEF IndInv, TypeOK
    <2>1. CASE Quiet
        BY <2>1, Zenon DEF Quiet
    <2>2. ASSUME NEW d \in Events, insertEvent(d) PROVE Respected(e)
        BY <2>2, Zenon DEF insertEvent
    <2>3. ASSUME NEW w \in Workers, NEW d \in Events, Locks(w, d) PROVE Respected(e)
        BY <2>3, Zenon DEF Locks
    <2>4. ASSUME NEW w \in Workers, Claims(w) PROVE Respected(e)
        <3>1. e = job[w].event /\ rows'[e].claim_token = nextToken
            BY <2>4, ClaimEffect, Zenon
        <3>2. rows[e].next_retry_at <= clock
            BY <2>4, <3>1, Zenon DEF Claims, LockInv, HasLock
        <3> QED
            BY <3>1, <3>2, Zenon
    <2>5. ASSUME NEW w \in Workers, Marks(w) PROVE Respected(e)
        <3>1. /\ pc[w] \in Holding /\ pc'[w] = "claim" /\ Owns(w)
              /\ e = job[w].event
            BY <2>5, MarkEffect, ZenonT(60)
        <3>2. pc'[w] # pc[w]
            BY <3>1, PcNames, Zenon
        <3> QED
            BY <3>1, <3>2, Zenon DEF Owns
    <2> QED
        BY <2>1, <2>2, <2>3, <2>4, <2>5, StepKinds, Zenon
<1> QED
    BY <1>1, Inductive, PTL DEF Spec, ClaimIsRespected

-----------------------------------------------------------------------------
(* Normal operation *)

Calm == Prompt /\ faults = 0

\* The rows that occur, and a PUBLISHING row is owned by a worker that is at it
RowInv ==
    \A e \in Events :
        /\ rows[e].status \in {"NONE", "PENDING", "PUBLISHING", "PUBLISHED"}
        /\ rows[e].status = "PUBLISHING" => \E w \in Workers : Holds(w) /\ job[w].event = e

\* A worker that holds a claim owns it and is in time
HolderInv ==
    \A w \in Workers : Holds(w) =>
        /\ pc[w] \in {"produce", "await", "markPublished"}
        /\ Owns(w) /\ rows[job[w].event].next_retry_at > clock
        /\ pc[w] # "produce" => RecordOf(w, "topic") \in log \cup sent

\* A row that is being claimed was never claimed before
ClaimingInv ==
    \A w \in Workers : HasLock(w) =>
        rows[job[w].event].status = "PENDING" /\ job[w].now + Lease > clock

\* Who has yet to send the record of a row finds none sent
OnceInv ==
    /\ \A r \in log \cup sent :
          /\ rows[r.event].status \in {"PUBLISHING", "PUBLISHED"}
          /\ \A w \in Workers : Holds(w) /\ job[w].event = r.event => pc[w] # "produce"
    /\ \A q, r \in log \cup sent : q.event = r.event => q = r

CalmInv == Calm => RowInv /\ HolderInv /\ ClaimingInv /\ OnceInv

Busy == RowInv /\ HolderInv /\ ClaimingInv /\ OnceInv

\* A step that touches no row, record, claim or lock
Idles ==
    /\ rows' = rows /\ clock' = clock /\ log' \cup sent' = log \cup sent
    /\ \A v \in Workers :
          /\ pc'[v] \in Holding <=> pc[v] \in Holding
          /\ pc'[v] = "locked" <=> pc[v] = "locked"
          /\ pc[v] \in Holding \cup {"locked"} => job'[v] = job[v] /\ pc'[v] = pc[v]

\* In normal operation nothing fails: these are the steps that are left.
LEMMA CalmSteps ==
    ASSUME IndInv, Calm, Calm', Busy, [Next]_vars
    PROVE  \/ Idles \/ tick
           \/ \E e \in Events : insertEvent(e)
           \/ \E w \in Workers : \E e \in Events : Locks(w, e)
           \/ \E w \in Workers : claimCommit(w) \/ markPublished(w)
           \/ \E w \in Workers : pc[w] = "produce" /\ produce(w)
           \/ \E w \in Workers : pc[w] = "await" /\ produceOk(w)
<1>1. TypeOK /\ ~ Fault
    <2>1. faults = 0 /\ faults' = 0 /\ ~ (0 = 0 + 1)
        BY DEF Calm
    <2> QED
        BY <2>1, Zenon DEF IndInv, Fault
<1>2. \A w \in Workers : pc[w] \in Holding => pc[w] \in {"produce", "await", "markPublished"}
    BY Zenon DEF Busy, HolderInv, Holds
<1>3. {"off", "loop", "claim", "locked"} \cap Holding = {}
    BY PcNames, Zenon
<1>4. ASSUME NEW w \in Workers, start(w) \/ loop(w) PROVE Idles
    BY <1>1, <1>3, <1>4, Zenon DEF start, loop, Goto, Idles, TypeOK
<1>5. ASSUME NEW w \in Workers, claimSelect(w) PROVE Idles \/ \E e \in Events : Locks(w, e)
    <2>1. CASE LeaveRunOnce(w)
        BY <1>1, <1>3, <1>5, <2>1, Zenon DEF claimSelect, LeaveRunOnce, Goto, Idles, TypeOK
    <2>2. CASE ~ LeaveRunOnce(w)
        BY <1>5, <2>2 DEF claimSelect, Locks, Due
    <2> QED
        BY <2>1, <2>2, Zenon
<1>6. ASSUME NEW w \in Workers, deliveryError(w) PROVE FALSE
    <2>1. pc[w] = "await" /\ RecordOf(w, "topic") \notin sent \cup log
        BY <1>2, <1>6, PcNames, Zenon DEF deliveryError
    <2> QED
        BY <2>1, PcNames, Zenon DEF Busy, HolderInv, Holds
<1>7. ASSUME NEW w \in Workers, markDead(w) \/ markFailed(w) PROVE FALSE
    BY <1>2, <1>7, PcNames, Zenon DEF markDead, markFailed
<1>8. ASSUME NEW w \in Workers, produce(w) PROVE pc[w] = "produce"
    BY <1>2, <1>8, PcNames, Zenon DEF produce
<1>9. ASSUME NEW w \in Workers, produceOk(w) PROVE pc[w] = "await"
    BY <1>2, <1>9, PcNames, Zenon DEF produceOk
<1>10. ASSUME NEW r \in sent, brokerAppend(r) PROVE Idles
    BY <1>10, Zenon DEF brokerAppend, Idles
<1>11. ASSUME NEW w \in Workers, WorkerFault(w) PROVE FALSE
    BY <1>1, <1>11, Zenon DEF WorkerFault, stop, crash, claimUnavailable, claimFail, produceFail, markUnavailable
<1>12. ASSUME NEW r \in sent, recordLost(r) PROVE FALSE
    BY <1>1, <1>12, Zenon DEF recordLost
<1>13. CASE UNCHANGED vars
    BY <1>13, Zenon DEF vars, Idles
<1> QED
    BY <1>4, <1>5, <1>6, <1>7, <1>8, <1>9, <1>10, <1>11, <1>12, <1>13, Zenon DEF Next, WorkerStep

\* A step that touches neither rows nor topic publishes nothing twice.
LEMMA IdlesCalm == ASSUME IndInv, Busy, Idles PROVE Busy'
<1>1. RowInv'
    BY DEF Busy, RowInv, Idles, Holds
<1>2. HolderInv'
    BY DEF Busy, HolderInv, Idles, Holds, Owns, RecordOf
<1>3. ClaimingInv'
    BY Zenon DEF Busy, ClaimingInv, Idles, HasLock
<1>4. OnceInv'
    BY DEF Busy, OnceInv, Idles, Holds
<1> QED
    BY <1>1, <1>2, <1>3, <1>4, Zenon DEF Busy

\* The lease of a worker at work outlasts the tick.
LEMMA TickCalm == ASSUME IndInv, Calm, Busy, tick PROVE Busy'
<1>1. /\ UNCHANGED <<rows, pc, job, sent, log>> /\ clock' = clock + 1
      /\ \A w \in Workers : ~ LeaseEnding(w)
    BY Zenon DEF tick, Calm
<1>2. RowInv' /\ OnceInv'
    BY <1>1 DEF Busy, RowInv, OnceInv, Holds
<1>3. HolderInv'
    <2>1. ASSUME NEW w \in Workers, Holds(w) PROVE rows[job[w].event].next_retry_at > clock + 1
        <3>1. job[w].event \in Events
            BY <2>1, Zenon DEF IndInv, TypeOK, Holds
        <3>2. rows[job[w].event].next_retry_at \in Nat /\ clock \in Nat
            BY <3>1, Zenon DEF IndInv, TypeOK, OutboxRow
        <3>3. ~ (rows[job[w].event].next_retry_at <= clock + 1)
            BY <1>1, <2>1, Zenon DEF LeaseEnding, Busy, HolderInv, Holds
        <3> QED
            BY <3>2, <3>3
    <2> QED
        BY <1>1, <2>1, Zenon DEF Busy, HolderInv, Holds, Owns, RecordOf
<1>4. ClaimingInv'
    <2>1. ASSUME NEW w \in Workers, HasLock(w) PROVE job[w].now + Lease > clock + 1
        <3>1. job[w].now + Lease \in Nat /\ clock \in Nat
            BY OutboxAssumption DEF IndInv, TypeOK, Job
        <3>2. ~ (job[w].now + Lease <= clock + 1)
            BY <1>1, <2>1, Zenon DEF LeaseEnding, HasLock
        <3> QED
            BY <3>1, <3>2
    <2> QED
        BY <1>1, <2>1, Zenon DEF Busy, ClaimingInv, HasLock
<1> QED
    BY <1>2, <1>3, <1>4, Zenon DEF Busy

\* A new row has no record yet.
LEMMA InsertCalm == ASSUME IndInv, Busy, NEW e \in Events, insertEvent(e) PROVE Busy'
<1>1. /\ rows[e].status = "NONE" /\ rows' = [rows EXCEPT ![e] = PendingRow]
      /\ rows \in [Events -> OutboxRow] /\ PendingRow.status = "PENDING"
      /\ UNCHANGED <<pc, job, sent, log, clock>>
    BY Zenon DEF insertEvent, PendingRow, IndInv, TypeOK
<1>2. \A d \in Events : d # e => rows'[d] = rows[d]
    BY <1>1, Zenon
<1>3. rows'[e].status = "PENDING"
    BY <1>1, Zenon
<1>4. \A w \in Workers : Holds(w) \/ HasLock(w) => job[w].event \in Events /\ job[w].event # e
    BY <1>1, Zenon DEF Busy, HolderInv, ClaimingInv, Owns, IndInv, TypeOK, Holds, HasLock
<1>5. \A r \in log \cup sent : r.event \in Events /\ r.event # e
    BY <1>1, Zenon DEF Busy, OnceInv, IndInv, TypeOK, Record
<1>6. RowInv'
    BY <1>1, <1>2, <1>3 DEF Busy, RowInv, Holds
<1>7. HolderInv'
    BY <1>1, <1>2, <1>4, Zenon DEF Busy, HolderInv, Holds, Owns, RecordOf
<1>8. ClaimingInv'
    BY <1>1, <1>2, <1>4, Zenon DEF Busy, ClaimingInv, HasLock
<1>9. OnceInv'
    BY <1>1, <1>2, <1>5 DEF Busy, OnceInv, Holds
<1> QED
    BY <1>6, <1>7, <1>8, <1>9, Zenon DEF Busy

\* A due row is not one that a worker in time holds.
LEMMA LocksCalm ==
    ASSUME IndInv, Busy, NEW w \in Workers, NEW e \in Events, Locks(w, e)
    PROVE  Busy'
<1>1. /\ UNCHANGED <<rows, log, sent, clock>> /\ e \in Due
      /\ pc' = [pc EXCEPT ![w] = "locked"] /\ pc[w] = "claim"
      /\ job' = [job EXCEPT ![w] = [event |-> e, token |-> 0, now |-> clock,
                                    retry |-> rows[e].retry_count]]
      /\ TypeOK /\ clock \in Nat
    BY Zenon DEF Locks, Goto, IndInv, TypeOK
<1>2. /\ pc'[w] = "locked" /\ job'[w].event = e /\ job'[w].now = clock
      /\ \A v \in Workers : v # w => pc'[v] = pc[v] /\ job'[v] = job[v]
    BY <1>1, Zenon DEF TypeOK
<1>3. pc[w] \notin Holding /\ pc'[w] \notin Holding
    BY <1>1, <1>2, PcNames
<1>4. \A v \in Workers : Holds(v)' <=> Holds(v)
    BY <1>2, <1>3, Zenon DEF Holds
<1>5. \A v \in Workers : Holds(v) => pc'[v] = pc[v] /\ job'[v] = job[v]
    BY <1>2, <1>3, Zenon DEF Holds
<1>6. rows[e].status = "PENDING"
    <2>1. rows[e].status \in Claimable /\ rows[e].next_retry_at <= clock
        BY <1>1, Zenon DEF Due
    <2>2. rows[e].status # "PUBLISHING"
        <3> SUFFICES ASSUME rows[e].status = "PUBLISHING" PROVE FALSE
            BY Zenon
        <3>1. PICK v \in Workers : Holds(v) /\ job[v].event = e
            BY Zenon DEF Busy, RowInv
        <3>2. rows[e].next_retry_at > clock
            BY <3>1, Zenon DEF Busy, HolderInv
        <3>3. rows[e].next_retry_at \in Nat
            BY <1>1, Zenon DEF TypeOK, OutboxRow
        <3> QED
            BY <1>1, <2>1, <3>2, <3>3
    <2> QED
        BY <2>1, <2>2, Zenon DEF Busy, RowInv, Claimable
<1>7. RowInv'
    BY <1>1, <1>4, <1>5 DEF Busy, RowInv
<1>8. HolderInv'
    BY <1>1, <1>4, <1>5 DEF Busy, HolderInv, Owns, RecordOf
<1>9. ClaimingInv'
    <2>1. job'[w].now + Lease > clock'
        BY <1>1, <1>2, OutboxAssumption
    <2> QED
        BY <1>1, <1>2, <1>6, <2>1 DEF Busy, ClaimingInv, HasLock
<1>10. OnceInv'
    BY <1>1, <1>4, <1>5 DEF Busy, OnceInv
<1> QED
    BY <1>7, <1>8, <1>9, <1>10, Zenon DEF Busy

\* A claim is of a row whose record is not out.
LEMMA CommitCalm == ASSUME IndInv, Busy, NEW w \in Workers, claimCommit(w) PROVE Busy'
<1> DEFINE e == job[w].event
<1>1. /\ TypeOK /\ pc[w] = "locked" /\ e \in Events /\ job[w] \in Job
      /\ rows' = [rows EXCEPT ![e] = ClaimedRow(w)] /\ UNCHANGED <<log, sent, clock>>
      /\ pc' = [pc EXCEPT ![w] = "produce"]
      /\ job' = [job EXCEPT ![w] = [job[w] EXCEPT !.token = nextToken]]
    BY Zenon DEF claimCommit, Goto, IndInv, TypeOK
<1>2. /\ pc'[w] = "produce" /\ job'[w].event = e /\ job'[w].token = nextToken
      /\ \A v \in Workers : v # w => pc'[v] = pc[v] /\ job'[v] = job[v]
    BY <1>1, Zenon DEF TypeOK, Job
<1>3. /\ rows'[e].status = "PUBLISHING" /\ rows'[e].claim_token = nextToken
      /\ rows'[e].next_retry_at = job[w].now + Lease
      /\ \A d \in Events : d # e => rows'[d] = rows[d]
    BY <1>1, Zenon DEF ClaimedRow, TypeOK
<1>4. rows[e].status = "PENDING" /\ job[w].now + Lease > clock
    BY <1>1, Zenon DEF Busy, ClaimingInv, HasLock
<1>5. \A v \in Workers : Holds(v) => v # w /\ job[v].event \in Events /\ job[v].event # e
    BY <1>1, <1>4, PcNames, Zenon DEF Busy, HolderInv, Owns, Holds, TypeOK
<1>6. \A v \in Workers : Holds(v)' <=> Holds(v) \/ v = w
    BY <1>1, <1>2, PcNames DEF Holds
<1>7. \A v \in Workers : HasLock(v)' => /\ HasLock(v) /\ v # w /\ job[v].event # e /\ job[v].event \in Events
    BY <1>1, <1>2, Zenon DEF HasLock, IndInv, LockInv, TypeOK
<1>8. \A r \in log \cup sent : r.event \in Events /\ r.event # e
    BY <1>1, <1>4, Zenon DEF Busy, OnceInv, TypeOK, Record
<1> HIDE DEF e
<1>9. RowInv'
    <2> SUFFICES ASSUME NEW d \in Events
                 PROVE  /\ rows'[d].status \in {"NONE", "PENDING", "PUBLISHING", "PUBLISHED"}
                        /\ rows'[d].status = "PUBLISHING" => \E v \in Workers : Holds(v)' /\ job'[v].event = d
        BY Zenon DEF RowInv
    <2>1. CASE d = e
        BY <1>2, <1>3, <1>6, <2>1, Zenon
    <2>2. CASE d # e
        BY <1>2, <1>3, <1>5, <1>6, <2>2 DEF Busy, RowInv
    <2> QED
        BY <2>1, <2>2, Zenon
<1>10. HolderInv'
    <2> SUFFICES ASSUME NEW v \in Workers, Holds(v)'
                 PROVE  /\ pc'[v] \in {"produce", "await", "markPublished"}
                        /\ Owns(v)' /\ rows'[job'[v].event].next_retry_at > clock'
                        /\ pc'[v] # "produce" => RecordOf(v, "topic")' \in log' \cup sent'
        BY Zenon DEF HolderInv
    <2>1. CASE v = w
        BY <1>1, <1>2, <1>3, <1>4, <2>1 DEF Owns
    <2>2. CASE v # w
        BY <1>1, <1>2, <1>3, <1>5, <1>6, <2>2 DEF Busy, HolderInv, Owns, RecordOf
    <2> QED
        BY <2>1, <2>2, Zenon
<1>11. ClaimingInv'
    BY <1>1, <1>2, <1>3, <1>7 DEF Busy, ClaimingInv
<1>12. OnceInv'
    BY <1>1, <1>2, <1>3, <1>5, <1>6, <1>8 DEF Busy, OnceInv
<1> QED
    BY <1>9, <1>10, <1>11, <1>12, Zenon DEF Busy

\* The holder of a claim is the first to send the record of its row.
LEMMA ProduceCalm ==
    ASSUME IndInv, Busy, NEW w \in Workers, pc[w] = "produce", produce(w)
    PROVE  Busy'
<1>1. /\ TypeOK /\ UNCHANGED <<rows, job, log, clock>> /\ sent' = sent \cup {RecordOf(w, "topic")}
      /\ pc' = [pc EXCEPT ![w] = "await"]
    BY Zenon DEF produce, Goto, IndInv
<1>2. pc'[w] = "await" /\ \A v \in Workers : v # w => pc'[v] = pc[v]
    BY <1>1, Zenon DEF TypeOK
<1>3. Holds(w) /\ \A v \in Workers : /\ Holds(v)' <=> Holds(v)
                                     /\ HasLock(v)' <=> HasLock(v)
    BY <1>2, PcNames, Zenon DEF Holds, HasLock
<1>4. /\ RecordOf(w, "topic").event = job[w].event /\ Owns(w)
      /\ rows[job[w].event].status = "PUBLISHING"
    BY <1>3, Zenon DEF RecordOf, Busy, HolderInv, Owns
<1>5. \A r \in log \cup sent : r.event # job[w].event
    BY <1>3, Zenon DEF Busy, OnceInv
<1>6. \A v \in Workers : Holds(v) /\ job[v].event = job[w].event => v = w
    BY <1>3, <1>4 DEF Busy, HolderInv, Owns, IndInv, TokenInv
<1>7. RowInv' /\ ClaimingInv'
    BY <1>1, <1>3 DEF Busy, RowInv, ClaimingInv
<1>8. HolderInv'
    BY <1>1, <1>2, <1>3, Zenon DEF Busy, HolderInv, Owns, RecordOf
<1>9. OnceInv'
    BY <1>1, <1>2, <1>3, <1>4, <1>5, <1>6 DEF Busy, OnceInv
<1> QED
    BY <1>7, <1>8, <1>9, Zenon DEF Busy

\* The record of a row is appended by the one worker that holds it.
LEMMA ProduceOkCalm ==
    ASSUME IndInv, Busy, NEW w \in Workers, pc[w] = "await", produceOk(w)
    PROVE  Busy'
<1>1. /\ TypeOK /\ UNCHANGED <<rows, job, log, sent, clock>> /\ pc' = [pc EXCEPT ![w] = "markPublished"]
    BY Zenon DEF produceOk, Goto, IndInv
<1>2. pc'[w] = "markPublished" /\ \A v \in Workers : v # w => pc'[v] = pc[v]
    BY <1>1, Zenon DEF TypeOK
<1>3. Holds(w) /\ \A v \in Workers : /\ Holds(v)' <=> Holds(v)
                                     /\ HasLock(v)' <=> HasLock(v)
    BY <1>2, PcNames, Zenon DEF Holds, HasLock
<1>4. RowInv' /\ ClaimingInv'
    BY <1>1, <1>3 DEF Busy, RowInv, ClaimingInv
<1>5. HolderInv'
    BY <1>1, <1>2, <1>3 DEF Busy, HolderInv, Owns, RecordOf
<1>6. OnceInv'
    BY <1>1, <1>2, <1>3 DEF Busy, OnceInv
<1> QED
    BY <1>4, <1>5, <1>6, Zenon DEF Busy

\* A row that is marked has its record, and is not claimed again.
LEMMA MarkCalm == ASSUME IndInv, Busy, NEW w \in Workers, markPublished(w) PROVE Busy'
<1> DEFINE e == job[w].event
<1>1. TypeOK /\ pc[w] = "markPublished" /\ Holds(w) /\ e \in Events /\ Owns(w)
    BY PcNames, Zenon DEF markPublished, IndInv, TypeOK, Busy, HolderInv, Holds
<1>2. /\ rows' = [rows EXCEPT ![e] = SettledRow(w, "PUBLISHED")] /\ UNCHANGED <<log, sent, clock>>
      /\ pc' = [pc EXCEPT ![w] = "claim"] /\ job' = [job EXCEPT ![w] = NoJob]
    BY <1>1, Zenon DEF markPublished, UpdateOwned, NextIteration, Goto
<1>3. /\ pc'[w] = "claim" /\ rows'[e].status = "PUBLISHED"
      /\ \A v \in Workers : v # w => pc'[v] = pc[v] /\ job'[v] = job[v]
      /\ \A d \in Events : d # e => rows'[d] = rows[d]
    BY <1>1, <1>2, Zenon DEF TypeOK, SettledRow
<1>4. rows[e].status = "PUBLISHING"
    BY <1>1, Zenon DEF Owns
<1>5. \A v \in Workers : Holds(v)' <=> Holds(v) /\ v # w
    BY <1>3, PcNames, Zenon DEF Holds
<1>6. \A v \in Workers : Holds(v) /\ v # w => job[v].event \in Events /\ job[v].event # e
    BY <1>1, PcNames DEF Busy, HolderInv, Owns, IndInv, TokenInv, TypeOK, Holds
<1>7. \A v \in Workers : HasLock(v)' => /\ HasLock(v) /\ v # w /\ job[v].event # e /\ job[v].event \in Events
    BY <1>1, <1>3, <1>4, Zenon DEF Busy, ClaimingInv, HasLock, TypeOK
<1>8. \A r \in log \cup sent : r.event \in Events
    BY <1>1, Zenon DEF TypeOK, Record
<1> HIDE DEF e
<1>9. RowInv'
    <2> SUFFICES ASSUME NEW d \in Events
                 PROVE  /\ rows'[d].status \in {"NONE", "PENDING", "PUBLISHING", "PUBLISHED"}
                        /\ rows'[d].status = "PUBLISHING" => \E v \in Workers : Holds(v)' /\ job'[v].event = d
        BY Zenon DEF RowInv
    <2>1. CASE d = e
        BY <1>3, <2>1, Zenon
    <2>2. CASE d # e
        BY <1>3, <1>5, <2>2 DEF Busy, RowInv, e
    <2> QED
        BY <2>1, <2>2, Zenon
<1>10. HolderInv'
    BY <1>2, <1>3, <1>5, <1>6 DEF Busy, HolderInv, Owns, RecordOf
<1>11. ClaimingInv'
    BY <1>2, <1>3, <1>7 DEF Busy, ClaimingInv
<1>12. OnceInv'
    BY <1>2, <1>3, <1>5, <1>6, <1>8 DEF Busy, OnceInv
<1> QED
    BY <1>9, <1>10, <1>11, <1>12, Zenon DEF Busy

\* While leases outlast the work and nothing fails, for any number of workers and events:
\* the claims of claimPendingEvents hand each row to one worker, which sends it once.
THEOREM PublishedOnce == Spec => []NormalOperationPublishesOnce
<1>1. Init => CalmInv
    BY PcNames DEF Init, CalmInv, RowInv, HolderInv, ClaimingInv, OnceInv, Holds, HasLock, NoRow
<1>2. IndInv /\ CalmInv /\ [Next]_vars => CalmInv'
    <2> SUFFICES ASSUME IndInv, CalmInv, [Next]_vars, Calm' PROVE Busy'
        BY Zenon DEF CalmInv, Busy
    <2>1. Calm
        <3>1. faults \in Nat
            BY OutboxAssumption DEF IndInv, TypeOK
        <3>2. faults' = faults \/ faults' = faults + 1
            BY Zenon DEF Next, vars, WorkerStep, WorkerFault, insertEvent, start, loop, claimSelect, claimCommit,
               produce, produceOk, deliveryError, markPublished, markDead, markFailed, stop, crash,
               claimUnavailable, claimFail, produceFail, markUnavailable, brokerAppend, recordLost, tick, Fault
        <3> QED
            BY <3>1, <3>2 DEF Calm
    <2>2. Busy
        BY <2>1, Zenon DEF CalmInv, Busy
    <2> QED
        BY Zenon, <2>1, <2>2, CalmSteps, IdlesCalm, TickCalm, InsertCalm, LocksCalm, CommitCalm, ProduceCalm,
           ProduceOkCalm, MarkCalm
<1>3. CalmInv => NormalOperationPublishesOnce
    BY Zenon DEF CalmInv, Calm, OnceInv, NormalOperationPublishesOnce
<1>4. Spec => []CalmInv
    BY <1>1, <1>2, Inductive, PTL DEF Spec
<1> QED
    BY <1>3, <1>4, PTL
=============================================================================
