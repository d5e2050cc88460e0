----------------------------- MODULE MessageIds -----------------------------
(***************************************************************************)
(* MessageIdGenerator: ids of time, node and sequence, made by several     *)
(* message services whose clocks may stand still, jump forward or be set   *)
(* back, even to before the epoch.                                         *)
(***************************************************************************)
EXTENDS Integers, Sequences

CONSTANTS
    Nodes,          \* node ids, 0 .. MaxNode
    MaxNode,        \* kMaxNodeId
    SequenceMask,   \* kSequenceMask
    MaxClock,       \* bound: the latest time of a clock
    MaxIds          \* bound: ids of one node

ASSUME MessageIdsAssumption ==
    MaxNode \in Nat /\ Nodes \subseteq 0 .. MaxNode /\ SequenceMask \in Nat /\ MaxClock \in Nat

kEpochMs == 1

VARIABLES
    wallClock,      \* system_clock of each node
    lastMs, sequence,   \* last_timestamp_ms_ and sequence_
    waiting,        \* nextId() is in waitNextMs(), or has left it
    issuedIds       \* the ids of each node, in order

idVars == <<wallClock, lastMs, sequence, waiting, issuedIds>>

MessageIdsInit ==
    /\ wallClock = [n \in Nodes |-> kEpochMs]
    /\ lastMs = [n \in Nodes |-> 0] /\ sequence = [n \in Nodes |-> 0]
    /\ waiting = [n \in Nodes |-> "no"] /\ issuedIds = [n \in Nodes |-> <<>>]

\* currentMs(), not before the epoch
nowMs(n) == IF wallClock[n] < kEpochMs THEN kEpochMs ELSE wallClock[n]

\* Time, node and sequence in their places
MakeId(ms, n, seq) == ((ms - kEpochMs) * (MaxNode + 1) + n) * (SequenceMask + 1) + seq

issue(n, ms, seq) ==
    /\ Len(issuedIds[n]) < MaxIds
    /\ lastMs' = [lastMs EXCEPT ![n] = ms] /\ sequence' = [sequence EXCEPT ![n] = seq]
    /\ issuedIds' = [issuedIds EXCEPT ![n] = Append(@, MakeId(ms, n, seq))]
    /\ UNCHANGED <<wallClock>>

\* The first half of nextId(): an id at once, unless the clock is behind the last
\* id or the sequence of this millisecond is used up
nextId(n) ==
    LET now == nowMs(n)
        seq == (sequence[n] + 1) % (SequenceMask + 1)
    IN  /\ waiting[n] = "no" /\ Len(issuedIds[n]) < MaxIds
        /\ \/ now > lastMs[n] /\ issue(n, now, 0) /\ UNCHANGED waiting
           \/ now = lastMs[n] /\ seq # 0 /\ issue(n, now, seq) /\ UNCHANGED waiting
           \/ /\ now < lastMs[n] \/ (now = lastMs[n] /\ seq = 0)
              /\ waiting' = [waiting EXCEPT ![n] = "clock"]
              /\ UNCHANGED <<wallClock, lastMs, sequence, issuedIds>>

\* waitNextMs() ends when the clock has passed the last id, or is before the epoch
waitNextMs(n) ==
    /\ waiting[n] = "clock" /\ (wallClock[n] < kEpochMs \/ wallClock[n] > lastMs[n])
    /\ waiting' = [waiting EXCEPT ![n] = "over"]
    /\ UNCHANGED <<wallClock, lastMs, sequence, issuedIds>>

\* Mutation: the time read after waiting is trusted
afterWaitTrusting(n) ==
    /\ waiting[n] = "over" /\ waiting' = [waiting EXCEPT ![n] = "no"]
    /\ issue(n, nowMs(n), 0)

\* The second half of nextId() reads the clock again, which may have moved again: if
\* it is not past the last id, the next millisecond is used
afterWait(n) ==
    /\ waiting[n] = "over" /\ waiting' = [waiting EXCEPT ![n] = "no"]
    /\ issue(n, IF nowMs(n) <= lastMs[n] THEN lastMs[n] + 1 ELSE nowMs(n), 0)

setClock(n, to) ==
    /\ to # wallClock[n] /\ wallClock' = [wallClock EXCEPT ![n] = to]
    /\ UNCHANGED <<lastMs, sequence, waiting, issuedIds>>

MessageIdsNext ==
    \E n \in Nodes :
        \/ nextId(n) \/ waitNextMs(n) \/ afterWait(n)
        \/ \E to \in 0 .. MaxClock : setClock(n, to)

MessageIdsSpec == MessageIdsInit /\ [][MessageIdsNext]_idVars

-----------------------------------------------------------------------------
\* The ids of a node grow, so that the ids of a conversation are in the order in
\* which they were made, and no two nodes make the same id, however their clocks
\* move while the services run (nextId, waitNextMs).
IdsGrow ==
    \A n \in Nodes :
        /\ \A i \in 1 .. Len(issuedIds[n]) - 1 :
               issuedIds[n][i] < issuedIds[n][i + 1]
        /\ \A m \in Nodes \ {n} : \A i \in 1 .. Len(issuedIds[n]), j \in 1 .. Len(issuedIds[m]) :
               issuedIds[n][i] # issuedIds[m][j]
=============================================================================
