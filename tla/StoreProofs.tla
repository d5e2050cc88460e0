---------------------------- MODULE StoreProofs -----------------------------
(***************************************************************************)
(* Proofs about what the services keep in Redis and how they reach it: the *)
(* Redis connection that a service's threads share (RedisLink), accounts   *)
(* and their tokens (Accounts), and, kept here with them, the generator of *)
(* message ids (MessageIds) and the offline messages (Mailbox).            *)
(*                                                                         *)
(* The call of a service is several commands and statements, and another   *)
(* call's may come between them. The invariants say what each call has     *)
(* done so far and may still do.                                           *)
(***************************************************************************)
EXTENDS RedisLink, MessageIds, Accounts, Mailbox, TLAPS

-----------------------------------------------------------------------------
(* RedisLink: the mutex lets one command at a time be under way             *)

LinkTypeOK ==
    /\ context \in {"open", "error"}
    /\ mutex \in LinkUsers \cup {NoUser}
    /\ user \in [LinkUsers -> [pc : {"out", "lock", "write", "read"}, command : Nat]]
    /\ commands \in Nat
    /\ outcome \in Seq(Int) /\ Len(outcome) = commands

\* Who writes or reads has the mutex, and whoever is in command() has a command
MutexInv ==
    \A u \in LinkUsers :
        /\ user[u].pc \in {"write", "read"} => mutex = u
        /\ user[u].pc # "out" => user[u].command \in 1 .. commands

\* What is on the wire belongs to the thread that waits for a reply
WireInv ==
    \/ sent = <<>> /\ replies = <<>>
    \/ /\ context = "open" /\ mutex \in LinkUsers /\ user[mutex].pc = "read"
       /\ \/ sent = <<user[mutex].command>> /\ replies = <<>>
          \/ sent = <<>> /\ replies = <<user[mutex].command>>

LinkInv == LinkTypeOK /\ MutexInv /\ WireInv /\ ReplyIsMine

\* The new link has nothing on the wire.
LEMMA LinkInitially == RedisLinkInit => LinkInv
<1> SUFFICES ASSUME RedisLinkInit PROVE LinkInv
    BY Zenon
<1> QED
    BY DEF RedisLinkInit, LinkInv, LinkTypeOK, MutexInv, WireInv, ReplyIsMine

\* A thread that leaves command() with the result of its own command, or with none,
\* keeps the invariant.
LEMMA UnlockStep ==
    ASSUME LinkInv, NEW u \in LinkUsers, NEW result \in Int,
           user[u].pc \in {"write", "read"}, result \in {0, user[u].command},
           unlock(u, result), sent' = <<>>, replies' = <<>>,
           UNCHANGED <<context, commands>>
    PROVE  LinkInv'
<1>1. user[u].command \in 1 .. commands /\ mutex = u
    BY Zenon DEF LinkInv, MutexInv, LinkTypeOK
<1>2. LinkTypeOK'
    BY <1>1, RedisLinkAssumption DEF LinkInv, LinkTypeOK, unlock
<1>3. MutexInv'
    BY <1>1, RedisLinkAssumption DEF LinkInv, LinkTypeOK, MutexInv, unlock
<1>4. WireInv'
    BY Zenon DEF WireInv
<1>5. ReplyIsMine'
    BY <1>1 DEF LinkInv, LinkTypeOK, ReplyIsMine, unlock
<1> QED
    BY <1>2, <1>3, <1>4, <1>5, Zenon DEF LinkInv

\* Every step of the threads and of the connection keeps it.
LEMMA LinkStep == LinkInv /\ [RedisLinkNext]_redisVars => LinkInv'
<1> SUFFICES ASSUME LinkInv, [RedisLinkNext]_redisVars PROVE LinkInv'
    BY Zenon
<1> USE RedisLinkAssumption DEF LinkInv, LinkTypeOK, MutexInv, WireInv, ReplyIsMine
<1>1. ASSUME NEW u \in LinkUsers, issueCommand(u) PROVE LinkInv'
    BY <1>1 DEF issueCommand
<1>2. ASSUME NEW u \in LinkUsers, lock(u) PROVE LinkInv'
    BY <1>2 DEF lock
<1>3. ASSUME NEW u \in LinkUsers, writeCommand(u) PROVE LinkInv'
    <2>1. CASE context = "open"
        <3>1. user[u].pc = "write" /\ mutex = u /\ sent = <<>> /\ replies = <<>>
            BY <1>3, Zenon DEF writeCommand
        <3>2. sent' = <<user[u].command>>
            BY <1>3, <2>1, <3>1 DEF writeCommand
        <3>3. /\ user' = [user EXCEPT ![u].pc = "read"]
              /\ UNCHANGED <<context, mutex, replies, outcome, commands>>
            BY <1>3, <2>1, Zenon DEF writeCommand
        <3>4. LinkTypeOK'
            BY <3>3, Zenon
        <3>5. MutexInv'
            BY <3>1, <3>3
        <3>6. ReplyIsMine'
            BY <3>3, Zenon
        <3>7. WireInv'
            BY <2>1, <3>1, <3>2, <3>3, Zenon
        <3> QED
            BY <3>4, <3>5, <3>6, <3>7, Zenon
    <2>2. CASE context # "open"
        BY <1>3, <2>2, UnlockStep DEF writeCommand
    <2> QED
        BY <2>1, <2>2, Zenon
<1>4. ASSUME NEW u \in LinkUsers, readReply(u) PROVE LinkInv'
    <2>1. CASE context = "open"
        <3>1. sent = <<>> /\ replies = <<user[u].command>>
            BY <1>4, <2>1, Zenon DEF readReply
        <3>2. Head(replies) = user[u].command /\ Tail(replies) = <<>>
            BY <3>1
        <3> QED
            BY <1>4, <2>1, <3>1, <3>2, UnlockStep, SMTT(20) DEF readReply
    <2>2. CASE context # "open"
        BY <1>4, <2>2, UnlockStep DEF readReply
    <2> QED
        BY <2>1, <2>2, Zenon
<1>5. CASE redisAnswers
    <2>1. /\ mutex \in LinkUsers /\ user[mutex].pc = "read"
          /\ sent = <<user[mutex].command>> /\ replies = <<>>
        BY <1>5, Zenon DEF redisAnswers
    <2>2. Head(sent) = user[mutex].command /\ Tail(sent) = <<>>
        BY <2>1
    <2>3. sent' = <<>> /\ replies' = <<user[mutex].command>>
        BY <1>5, <2>1, <2>2 DEF redisAnswers
    <2> QED
        BY <1>5, <2>1, <2>3, Zenon DEF redisAnswers
<1>6. CASE connectionError
    BY <1>6, Zenon DEF connectionError
<1>7. CASE UNCHANGED redisVars
    BY <1>7, Zenon DEF redisVars
<1> QED
    BY <1>1, <1>2, <1>3, <1>4, <1>5, <1>6, <1>7, Zenon DEF RedisLinkNext, RedisStep

\* However many threads share the connection, no command is ever answered with the
\* reply to another (RedisClient::command).
THEOREM RepliesAreMine == RedisLinkSpec => []ReplyIsMine
<1>1. LinkInv => ReplyIsMine
    BY Zenon DEF LinkInv
<1> QED
    BY LinkInitially, LinkStep, <1>1, PTL DEF RedisLinkSpec

-----------------------------------------------------------------------------
(* MessageIds: the digits of an id                                          *)

\* A number's higher digit decides: with x and y below S, a * S + x is less than
\* b * S + y if a is less than b.
LEMMA HigherDigitDecides ==
    ASSUME NEW a \in Nat, NEW b \in Nat, NEW S \in Nat,
           NEW x \in 0 .. S - 1, NEW y \in 0 .. S - 1, a < b
    PROVE  a * S + x < b * S + y
<1> DEFINE d == b - a - 1
<1>1. d \in Nat /\ b = a + 1 + d
    OBVIOUS
<1> HIDE DEF d
<1>2. b * S = a * S + S + d * S
    BY <1>1
<1>3. a * S \in Nat /\ d * S \in Nat /\ b * S \in Nat
    BY <1>1
<1> QED
    BY <1>2, <1>3

\* Two ids of one node are in the order of their time and sequence.
LEMMA MakeIdGrows ==
    ASSUME NEW n \in Nodes, NEW s \in Nat \ {0}, NEW t \in Nat \ {0},
           NEW x \in 0 .. SequenceMask, NEW y \in 0 .. SequenceMask,
           s < t \/ (s = t /\ x < y)
    PROVE  MakeId(s, n, x) < MakeId(t, n, y)
<1> USE MessageIdsAssumption
<1> DEFINE a == (s - 1) * (MaxNode + 1) + n
           b == (t - 1) * (MaxNode + 1) + n
<1>1. a \in Nat /\ b \in Nat
    <2>1. (s - 1) * (MaxNode + 1) \in Nat /\ (t - 1) * (MaxNode + 1) \in Nat /\ n \in Nat
        OBVIOUS
    <2> QED
        BY <2>1
<1>2. MakeId(s, n, x) = a * (SequenceMask + 1) + x /\ MakeId(t, n, y) = b * (SequenceMask + 1) + y
    BY Zenon DEF MakeId, kEpochMs
<1>3. CASE s < t
    <2>1. a < b
        BY <1>3, HigherDigitDecides
    <2> HIDE DEF a, b
    <2> QED
        BY <1>1, <1>2, <2>1, HigherDigitDecides
<1>4. CASE s = t /\ x < y
    <2>1. a * (SequenceMask + 1) \in Nat /\ a = b
        BY <1>1, <1>4
    <2> HIDE DEF a, b
    <2> QED
        BY <1>2, <1>4, <2>1
<1> QED
    BY <1>3, <1>4, Zenon

\* Two nodes have no id in common.
LEMMA MakeIdTellsNodes ==
    ASSUME NEW n \in Nodes, NEW m \in Nodes, n # m, NEW s \in Nat \ {0}, NEW t \in Nat \ {0},
           NEW x \in 0 .. SequenceMask, NEW y \in 0 .. SequenceMask
    PROVE  MakeId(s, n, x) # MakeId(t, m, y)
<1> USE MessageIdsAssumption
<1> DEFINE a == (s - 1) * (MaxNode + 1) + n
           b == (t - 1) * (MaxNode + 1) + m
<1>1. a \in Nat /\ b \in Nat
    <2>1. /\ (s - 1) * (MaxNode + 1) \in Nat /\ (t - 1) * (MaxNode + 1) \in Nat
          /\ n \in Nat /\ m \in Nat
        OBVIOUS
    <2> QED
        BY <2>1
<1>2. MakeId(s, n, x) = a * (SequenceMask + 1) + x /\ MakeId(t, m, y) = b * (SequenceMask + 1) + y
    BY Zenon DEF MakeId, kEpochMs
<1>3. a # b
    <2>1. CASE s = t
        <3>1. (s - 1) * (MaxNode + 1) \in Nat /\ n \in Nat /\ m \in Nat
            OBVIOUS
        <3> QED
            BY <2>1, <3>1
    <2>2. CASE s < t
        BY <2>2, HigherDigitDecides, <1>1
    <2>3. CASE t < s
        BY <2>3, HigherDigitDecides, <1>1
    <2> QED
        BY <2>1, <2>2, <2>3
<1> HIDE DEF a, b
<1>4. CASE a < b
    BY <1>1, <1>2, <1>4, HigherDigitDecides
<1>5. CASE b < a
    BY <1>1, <1>2, <1>5, HigherDigitDecides
<1> QED
    BY <1>1, <1>3, <1>4, <1>5

IdsTypeOK ==
    /\ wallClock \in [Nodes -> Nat] /\ lastMs \in [Nodes -> Nat]
    /\ sequence \in [Nodes -> 0 .. SequenceMask]
    /\ waiting \in [Nodes -> {"no", "clock", "over"}]
    /\ issuedIds \in [Nodes -> Seq(Int)]

\* Every id has the digits of its node, and the last one those nextId() remembers
Digits(ids, n) ==
    \A i \in 1 .. Len(ids) :
        \E s \in Nat \ {0}, x \in 0 .. SequenceMask : ids[i] = MakeId(s, n, x)
Latest(ids, n, ms, seq) ==
    Len(ids) > 0 => ms > 0 /\ ids[Len(ids)] = MakeId(ms, n, seq)

DigitsInv ==
    \A n \in Nodes : Digits(issuedIds[n], n) /\ Latest(issuedIds[n], n, lastMs[n], sequence[n])

IdsInv == IdsTypeOK /\ DigitsInv /\ IdsGrow

\* An id is an integer.
LEMMA MakeIdType ==
    ASSUME NEW n \in Nodes, NEW s \in Nat, NEW x \in 0 .. SequenceMask
    PROVE  MakeId(s, n, x) \in Int
<1>1. (s - kEpochMs) * (MaxNode + 1) + n \in Int
    BY MessageIdsAssumption DEF kEpochMs
<1> QED
    BY <1>1, MessageIdsAssumption DEF MakeId

\* No id has been made.
LEMMA IdsInitially == MessageIdsInit => IdsInv
BY MessageIdsAssumption DEF MessageIdsInit, IdsInv, IdsTypeOK, DigitsInv, Digits, Latest, IdsGrow, kEpochMs

\* The sequence after the last one of its millisecond is zero.
LEMMA NextSequence ==
    ASSUME NEW S \in Nat \ {0}, NEW x \in 0 .. S - 1
    PROVE  (x + 1) % S \in 0 .. S - 1 /\ ((x + 1) % S # 0 => (x + 1) % S = x + 1)
<1>1. CASE x + 1 = S
    BY <1>1
<1>2. CASE x + 1 \in 0 .. S - 1
    <2>1. (x + 1) % S = x + 1
        BY <1>2
    <2> QED
        BY <1>2, <2>1, Zenon
<1> QED
    BY <1>1, <1>2

\* Only an id that is issued can disturb the invariant.
LEMMA ClockStep ==
    ASSUME IdsInv, wallClock' \in [Nodes -> Nat], waiting' \in [Nodes -> {"no", "clock", "over"}],
           UNCHANGED <<lastMs, sequence, issuedIds>>
    PROVE  IdsInv'
<1>1. IdsTypeOK'
    BY Zenon DEF IdsInv, IdsTypeOK
<1>2. DigitsInv'
    BY Zenon DEF IdsInv, DigitsInv
<1>3. IdsGrow'
    BY DEF IdsInv, IdsGrow
<1> QED
    BY <1>1, <1>2, <1>3, Zenon DEF IdsInv

\* An id whose time and sequence are past those of the last one may be issued.
LEMMA IssueStep ==
    ASSUME IdsInv, NEW n \in Nodes, NEW ms \in Nat \ {0}, NEW seq \in 0 .. SequenceMask,
           lastMs[n] < ms \/ (lastMs[n] = ms /\ sequence[n] < seq),
           issue(n, ms, seq), waiting' \in [Nodes -> {"no", "clock", "over"}]
    PROVE  IdsInv'
<1> DEFINE old == issuedIds[n]
           new == issuedIds'[n]
           k == Len(old)
<1>1. old \in Seq(Int) /\ MakeId(ms, n, seq) \in Int
    BY MakeIdType, Zenon DEF IdsInv, IdsTypeOK
<1>2. new = Append(old, MakeId(ms, n, seq))
    BY Zenon DEF issue, IdsInv, IdsTypeOK
<1>3. k \in Nat /\ Len(new) = k + 1 /\ new \in Seq(Int)
    BY <1>1, <1>2
<1>4. new[k + 1] = MakeId(ms, n, seq) /\ \A i \in 1 .. k : new[i] = old[i]
    BY <1>1, <1>2
<1>5. \A m \in Nodes \ {n} : issuedIds'[m] = issuedIds[m] /\ lastMs'[m] = lastMs[m] /\ sequence'[m] = sequence[m]
    BY Zenon DEF issue, IdsInv, IdsTypeOK
<1>6. lastMs'[n] = ms /\ sequence'[n] = seq
    BY Zenon DEF issue, IdsInv, IdsTypeOK
<1>7. IdsTypeOK'
    BY <1>3, Zenon DEF issue, IdsInv, IdsTypeOK
<1>8. k > 0 => old[k] < MakeId(ms, n, seq)
    BY MakeIdGrows DEF IdsInv, IdsTypeOK, DigitsInv, Latest
<1>9. \A i \in 1 .. k : \E s \in Nat \ {0}, x \in 0 .. SequenceMask : old[i] = MakeId(s, n, x)
    BY Zenon DEF IdsInv, DigitsInv, Digits
<1>10. \A i \in 1 .. k - 1 : old[i] < old[i + 1]
    BY Zenon DEF IdsInv, IdsGrow
<1> HIDE DEF old, new, k
<1>11. ASSUME NEW i \in 1 .. Len(new)
       PROVE  \E s \in Nat \ {0}, x \in 0 .. SequenceMask : new[i] = MakeId(s, n, x)
    <2>1. CASE i \in 1 .. k
        BY <1>4, <1>9, <2>1, Zenon
    <2>2. CASE i = k + 1
        BY <1>4, <2>2, Zenon
    <2>3. i \in 1 .. k \/ i = k + 1
        BY <1>3
    <2> QED
        BY <2>1, <2>2, <2>3, Zenon
<1>12. DigitsInv'
    <2> SUFFICES ASSUME NEW m \in Nodes PROVE DigitsInv!(m)'
        BY Zenon DEF DigitsInv
    <2>1. CASE m = n
        <3>1. Digits(new, n)
            BY <1>11, Zenon DEF Digits
        <3>2. Latest(new, n, lastMs'[n], sequence'[n])
            BY <1>3, <1>4, <1>6 DEF Latest
        <3> QED
            BY <2>1, <3>1, <3>2, Zenon DEF new
    <2>2. CASE m # n
        BY <1>5, <2>2, Zenon DEF IdsInv, DigitsInv
    <2> QED
        BY <2>1, <2>2, Zenon
<1>13. ASSUME NEW i \in 1 .. Len(new) - 1 PROVE new[i] < new[i + 1]
    <2>1. CASE i \in 1 .. k - 1
        <3>1. i \in 1 .. k /\ i + 1 \in 1 .. k
            BY <1>3, <2>1
        <3> QED
            BY <1>4, <1>10, <2>1, <3>1, Zenon
    <2>2. CASE i = k
        BY <1>3, <1>4, <1>8, <2>2
    <2> QED
        BY <1>3, <2>1, <2>2
<1>14. ASSUME NEW m \in Nodes \ {n}, NEW i \in 1 .. Len(new), NEW j \in 1 .. Len(issuedIds[m])
       PROVE  new[i] # issuedIds[m][j]
    <2>1. PICK s \in Nat \ {0}, x \in 0 .. SequenceMask : new[i] = MakeId(s, n, x)
        BY <1>11, Zenon
    <2>2. PICK t \in Nat \ {0}, y \in 0 .. SequenceMask : issuedIds[m][j] = MakeId(t, m, y)
        BY Zenon DEF IdsInv, DigitsInv, Digits
    <2> QED
        BY <2>1, <2>2, MakeIdTellsNodes, Zenon
<1>15. IdsGrow'
    <2>1. ASSUME NEW m \in Nodes, NEW i \in 1 .. Len(issuedIds'[m]) - 1
          PROVE  issuedIds'[m][i] < issuedIds'[m][i + 1]
        <3>1. CASE m = n
            BY <1>13, <3>1, Zenon DEF new
        <3>2. CASE m # n
            BY <1>5, <3>2, Zenon DEF IdsInv, IdsGrow
        <3> QED
            BY <3>1, <3>2, Zenon
    <2>2. ASSUME NEW m \in Nodes, NEW o \in Nodes \ {m},
                 NEW i \in 1 .. Len(issuedIds'[m]), NEW j \in 1 .. Len(issuedIds'[o])
          PROVE  issuedIds'[m][i] # issuedIds'[o][j]
        <3>1. CASE m = n
            BY <1>5, <1>14, <3>1 DEF new
        <3>2. CASE o = n
            BY <1>5, <1>14, <3>2 DEF new
        <3>3. CASE m # n /\ o # n
            BY <1>5, <3>3 DEF IdsInv, IdsGrow
        <3> QED
            BY <3>1, <3>2, <3>3, Zenon
    <2> QED
        BY <2>1, <2>2, Zenon DEF IdsGrow
<1> QED
    BY <1>7, <1>12, <1>15, Zenon DEF IdsInv

\* Whatever the clocks do, the generators keep the invariant.
LEMMA IdsStep == IdsInv /\ [MessageIdsNext]_idVars => IdsInv'
<1> SUFFICES ASSUME IdsInv, [MessageIdsNext]_idVars PROVE IdsInv'
    BY Zenon
<1>0. IdsTypeOK
    BY Zenon DEF IdsInv
<1>1. ASSUME NEW n \in Nodes PROVE nowMs(n) \in Nat \ {0} /\ lastMs[n] \in Nat
    BY <1>0 DEF nowMs, kEpochMs, IdsTypeOK
<1>2. ASSUME NEW n \in Nodes, nextId(n) PROVE IdsInv'
    <2> DEFINE seq == (sequence[n] + 1) % (SequenceMask + 1)
    <2>1. seq \in 0 .. SequenceMask /\ (seq # 0 => seq = sequence[n] + 1)
        <3>1. SequenceMask + 1 \in Nat \ {0} /\ sequence[n] \in 0 .. (SequenceMask + 1) - 1
            BY <1>0, MessageIdsAssumption DEF IdsTypeOK
        <3>2. (SequenceMask + 1) - 1 = SequenceMask
            BY MessageIdsAssumption
        <3> QED
            BY <3>1, <3>2, NextSequence, Zenon
    <2>2. waiting' \in [Nodes -> {"no", "clock", "over"}]
        BY <1>0, <1>2, Zenon DEF IdsTypeOK, nextId
    <2>3. CASE UNCHANGED <<wallClock, lastMs, sequence, issuedIds>>
        BY <1>0, <2>2, <2>3, ClockStep, Zenon DEF IdsTypeOK
    <2>4. CASE nowMs(n) > lastMs[n] /\ issue(n, nowMs(n), 0)
        BY <1>1, <2>2, <2>4, IssueStep, MessageIdsAssumption
    <2>5. CASE nowMs(n) = lastMs[n] /\ seq # 0 /\ issue(n, nowMs(n), seq)
        <3>1. sequence[n] < seq
            BY <1>0, <2>1, <2>5, MessageIdsAssumption DEF IdsTypeOK
        <3> HIDE DEF seq
        <3> QED
            BY <1>1, <2>1, <2>2, <2>5, <3>1, IssueStep, Zenon
    <2> QED
        BY <1>2, <2>3, <2>4, <2>5, Zenon DEF nextId
<1>3. ASSUME NEW n \in Nodes, waitNextMs(n) PROVE IdsInv'
    BY <1>0, <1>3, ClockStep, Zenon DEF waitNextMs, IdsTypeOK
<1>4. ASSUME NEW n \in Nodes, afterWait(n) PROVE IdsInv'
    <2> DEFINE ms == IF nowMs(n) <= lastMs[n] THEN lastMs[n] + 1 ELSE nowMs(n)
    <2>1. ms \in Nat \ {0} /\ lastMs[n] < ms
        BY <1>1
    <2>2. issue(n, ms, 0) /\ waiting' \in [Nodes -> {"no", "clock", "over"}]
        BY <1>0, <1>4, Zenon DEF afterWait, IdsTypeOK
    <2> HIDE DEF ms
    <2> QED
        BY <2>1, <2>2, IssueStep, MessageIdsAssumption
<1>5. ASSUME NEW n \in Nodes, NEW to \in 0 .. MaxClock, setClock(n, to) PROVE IdsInv'
    BY <1>0, <1>5, ClockStep, MessageIdsAssumption DEF setClock, IdsTypeOK
<1>6. CASE UNCHANGED idVars
    BY <1>0, <1>6, ClockStep, Zenon DEF idVars, IdsTypeOK
<1> QED
    BY <1>2, <1>3, <1>4, <1>5, <1>6, Zenon DEF MessageIdsNext

\* The ids of a node grow and no two nodes make the same one, for any number of nodes
\* up to kMaxNodeId, any width of the sequence and any clocks (MessageIdGenerator).
THEOREM MessageIdsGrow == MessageIdsSpec => []IdsGrow
<1>1. IdsInv => IdsGrow
    BY Zenon DEF IdsInv
<1> QED
    BY IdsInitially, IdsStep, <1>1, PTL DEF MessageIdsSpec

-----------------------------------------------------------------------------
(* Mailbox: what was acknowledged stays acknowledged                        *)

MailTypeOK ==
    /\ offline \in [Mails -> {"none", "pending", "pulled", "acked"}]
    /\ stores \in [Mails -> Nat]
    /\ settled \subseteq Mails

\* A row that was acknowledged keeps that status until it is deleted, and is deleted only
\* when no copy of its message is still to be stored: it never becomes pending again
SettledInv ==
    \A m \in settled : /\ offline[m] \in {"acked", "none"}
                       /\ offline[m] = "none" => stores[m] >= MaxStores(m)

MailInv == MailTypeOK /\ SettledInv /\ AckIsWhole

\* No mail yet.
LEMMA MailInitially == MailboxInit => MailInv
<1> SUFFICES ASSUME MailboxInit PROVE MailInv
    BY Zenon
<1>1. MailTypeOK
    BY Zenon DEF MailboxInit, MailTypeOK
<1> QED
    BY <1>1, Zenon DEF MailboxInit, MailInv, SettledInv, AckIsWhole

\* A step that brings no row to acknowledged keeps the receipts whole.
LEMMA InsertMailStep ==
    ASSUME MailInv, NEW m \in Mails, insertOfflineMessage(m)
    PROVE  MailInv'
<1>1. /\ stores \in [Mails -> Nat] /\ offline \in [Mails -> {"none", "pending", "pulled", "acked"}]
      /\ MaxStores(m) \in Nat /\ settled' = settled /\ delivered' = delivered
      /\ stores[m] < MaxStores(m) /\ settled \subseteq Mails
    BY Zenon DEF MailInv, MailTypeOK, MaxStores, insertOfflineMessage
<1>2. /\ stores' \in [Mails -> Nat]
      /\ \A x \in Mails : stores'[x] = IF x = m THEN stores[x] + 1 ELSE stores[x]
    BY <1>1 DEF insertOfflineMessage
<1>3. /\ offline' \in [Mails -> {"none", "pending", "pulled", "acked"}]
      /\ \A x \in Mails : offline'[x] = IF x = m /\ offline[x] # "acked" THEN "pending" ELSE offline[x]
    BY <1>1, Zenon DEF insertOfflineMessage
<1>4. MailTypeOK'
    BY <1>1, <1>2, <1>3, Zenon DEF MailTypeOK
<1>5. AckIsWhole'
    BY <1>1, <1>3, Zenon DEF MailInv, AckIsWhole
<1>6. SettledInv'
    <2> SUFFICES ASSUME NEW x \in settled
                 PROVE  /\ offline'[x] \in {"acked", "none"}
                        /\ offline'[x] = "none" => stores'[x] >= MaxStores(x)
        BY <1>1, Zenon DEF SettledInv, MaxStores
    <2>1. CASE x # m
        BY <1>1, <1>2, <1>3, <2>1, Zenon DEF MailInv, SettledInv
    <2>2. CASE x = m
        <3>1. stores[m] \in Nat /\ ~ (stores[m] >= MaxStores(m))
            BY <1>1
        <3>2. offline[m] = "acked"
            BY <2>2, <3>1, Zenon DEF MailInv, SettledInv
        <3> QED
            BY <1>1, <1>3, <2>2, <3>2, Zenon
    <2> QED
        BY <2>1, <2>2, Zenon
<1> QED
    BY <1>4, <1>5, <1>6, Zenon DEF MailInv

\* The transaction of a pull leaves acknowledged and deleted rows alone.
LEMMA EndPullStep ==
    ASSUME MailInv, endPull
    PROVE  MailInv'
<1>1. /\ offline \in [Mails -> {"none", "pending", "pulled", "acked"}] /\ settled \subseteq Mails
      /\ UNCHANGED <<stores, settled, delivered>>
    BY Zenon DEF MailInv, MailTypeOK, endPull
<1>2. /\ offline' \in [Mails -> {"none", "pending", "pulled", "acked"}]
      /\ \A x \in Mails : offline'[x] = offline[x]
                          \/ (offline[x] \in {"pending", "pulled"} /\ offline'[x] = "pulled")
    BY <1>1, Zenon DEF endPull, markBatchAsPulled
<1>3. MailTypeOK'
    BY <1>1, <1>2, Zenon DEF MailInv, MailTypeOK
<1>4. AckIsWhole'
    BY <1>1, <1>2, Zenon DEF MailInv, AckIsWhole
<1>5. SettledInv'
    BY <1>1, <1>2, Zenon DEF MailInv, SettledInv, MaxStores
<1> QED
    BY <1>3, <1>4, <1>5, Zenon DEF MailInv

\* An acknowledgement and its receipt are one transaction.
LEMMA AckMailStep ==
    ASSUME MailInv, NEW m \in Mails, AckMessage(m)
    PROVE  MailInv'
<1>1. /\ offline \in [Mails -> {"none", "pending", "pulled", "acked"}] /\ settled \subseteq Mails
      /\ UNCHANGED stores
    BY Zenon DEF MailInv, MailTypeOK, AckMessage
<1>2. CASE UNCHANGED offline /\ AckFails
    BY <1>1, <1>2, Zenon DEF AckFails, MailInv, MailTypeOK, SettledInv, AckIsWhole, MaxStores
<1>3. CASE markAsAcked(m) /\ AckOk(m)
    <2>1. /\ offline' \in [Mails -> {"none", "pending", "pulled", "acked"}]
          /\ \A x \in Mails : offline'[x] = IF x = m /\ offline[x] # "none" THEN "acked" ELSE offline[x]
        BY <1>1, <1>3, Zenon DEF markAsAcked
    <2>2. /\ delivered' = delivered \cup {m}
          /\ settled' = IF offline[m] = "none" THEN settled ELSE settled \cup {m}
        BY <1>3, Zenon DEF AckOk
    <2>3. MailTypeOK'
        BY <1>1, <2>1, <2>2, Zenon DEF MailInv, MailTypeOK
    <2>4. AckIsWhole'
        BY <2>1, <2>2, Zenon DEF MailInv, AckIsWhole
    <2>5. SettledInv'
        BY <1>1, <2>1, <2>2, Zenon DEF MailInv, SettledInv, MaxStores
    <2> QED
        BY <2>3, <2>4, <2>5, Zenon DEF MailInv
<1> QED
    BY <1>2, <1>3, Zenon DEF AckMessage

\* A row goes once it is acknowledged and all copies of its message are stored.
LEMMA DeleteMailStep ==
    ASSUME MailInv, NEW m \in Mails, deleteAckedMessages(m)
    PROVE  MailInv'
<1>1. /\ offline \in [Mails -> {"none", "pending", "pulled", "acked"}] /\ settled \subseteq Mails
      /\ UNCHANGED <<stores, settled, delivered>> /\ stores[m] = MaxStores(m) /\ MaxStores(m) \in Nat
    BY Zenon DEF MailInv, MailTypeOK, MaxStores, deleteAckedMessages
<1>2. /\ offline' \in [Mails -> {"none", "pending", "pulled", "acked"}]
      /\ \A x \in Mails : offline'[x] = IF x = m THEN "none" ELSE offline[x]
    BY <1>1, Zenon DEF deleteAckedMessages
<1>3. MailTypeOK'
    BY <1>1, <1>2, Zenon DEF MailInv, MailTypeOK
<1>4. AckIsWhole'
    BY <1>1, <1>2, Zenon DEF MailInv, AckIsWhole
<1>5. SettledInv'
    BY <1>1, <1>2 DEF MailInv, SettledInv, MaxStores
<1> QED
    BY <1>3, <1>4, <1>5, Zenon DEF MailInv

\* A listing offers pending and pulled rows only.
LEMMA PageIsUnacked ==
    ASSUME MailInv, beginPull
    PROVE  settled \cap pull'.rows = {}
<1>1. \A m \in listOfflineMessages : offline[m] \in {"pending", "pulled"}
    BY Zenon DEF listOfflineMessages, page
<1>2. \A m \in settled : offline[m] \notin {"pending", "pulled"}
    BY Zenon DEF MailInv, SettledInv
<1>3. pull'.rows = listOfflineMessages \/ pull'.rows = {}
    BY DEF beginPull
<1> QED
    BY <1>1, <1>2, <1>3, Zenon

\* Every step keeps the invariant, and a pull that begins lists nothing acknowledged.
LEMMA MailStep ==
    ASSUME MailInv, [MailboxNext]_mailVars
    PROVE  MailInv' /\ (~ pull.on /\ pull'.on => settled \cap pull'.rows = {})
<1>1. ASSUME UNCHANGED <<offline, stores, settled, delivered>> PROVE MailInv'
    BY <1>1, Zenon DEF MailInv, MailTypeOK, SettledInv, AckIsWhole, MaxStores
<1>2. CASE beginPull
    BY <1>1, <1>2, PageIsUnacked, Zenon DEF beginPull
<1>3. CASE endPull
    BY <1>3, EndPullStep, Zenon DEF endPull, NoPull
<1>4. CASE UNCHANGED mailVars
    BY <1>1, <1>4, Zenon DEF mailVars
<1>5. ASSUME NEW m \in Mails,
             insertOfflineMessage(m) \/ deliverOnline(m) \/ AckMessage(m) \/ deleteAckedMessages(m)
      PROVE  MailInv' /\ UNCHANGED pull
    <2>1. UNCHANGED pull
        BY <1>5, Zenon DEF insertOfflineMessage, deliverOnline, AckMessage, deleteAckedMessages
    <2>2. deliverOnline(m) => MailInv'
        BY <1>1, Zenon DEF deliverOnline
    <2> QED
        BY <1>5, <2>1, <2>2, InsertMailStep, AckMailStep, DeleteMailStep, Zenon
<1> QED
    BY <1>2, <1>3, <1>4, <1>5, Zenon DEF MailboxNext

\* For every page size and set of messages: a message acknowledged while it has a row is
\* in no page listed later, and has its receipt, whatever pulls, stores, acknowledgements
\* and cleanups come in between.
THEOREM AcknowledgedStays == MailboxSpec => AckedIsNotOffered
<1>1. MailboxInit => MailInv
    BY MailInitially, Zenon
<1>2. MailInv /\ [MailboxNext]_mailVars
          => MailInv' /\ [~ pull.on /\ pull'.on => settled \cap pull'.rows = {}]_mailVars
    BY MailStep, Zenon
<1>3. MailInv => AckIsWhole
    BY Zenon DEF MailInv
<1> QED
    BY <1>1, <1>2, <1>3, PTL DEF MailboxSpec, AckedIsNotOffered

-----------------------------------------------------------------------------
(* Accounts: what is in Redis, in MySQL and in the hands of clients         *)

Places == {"free", "register", "create", "login", "refresh", "setex", "getDevice", "delSeen",
           "upsert", "delNew", "delOld", "done", "fail", "kickDevice", "kick", "clear"}

AccountsTypeOK ==
    /\ names \in {0, 1} /\ registered \in Nat /\ registered <= names
    /\ live \subseteq Tokens /\ handed \subseteq Tokens /\ retired \subseteq Tokens
    /\ row \in [Devices -> -1 .. MaxRequests]
    /\ issued \in [Tokens -> Devices \cup {NoDevice}]
    /\ rpcs \in [Rpcs -> [op : {"none", "register", "login", "refresh", "kickDevice"}, pc : Places,
                          dev : Devices \cup {NoDevice}, new : 0 .. MaxRequests,
                          old : 0 .. MaxRequests, seen : -1 .. MaxRequests]]
    /\ requests \in 0 .. MaxRequests

\* Where a request of each kind can be, and which have a device and a new token
PlaceInv(r) ==
    LET me == rpcs[r]
    IN  /\ me.pc = "free" => me.op = "none"
        /\ me.op \in {"none", "register"} => me.dev = NoDevice
        /\ me.pc \in {"register", "create"} => me.op = "register"
        /\ me.pc = "login" => me.op = "login"
        /\ me.pc \in {"refresh", "setex", "delOld"} => me.op = "refresh"
        /\ me.pc \in {"getDevice", "upsert", "delNew"} => me.op \in {"login", "refresh"}
        /\ me.pc \in {"kickDevice", "kick", "clear"} => me.op = "kickDevice"
        /\ me.pc \in {"delSeen", "done", "fail"} => me.op \in {"login", "refresh", "kickDevice"}
        /\ me.pc \in {"getDevice", "upsert", "delNew", "delSeen"} => me.dev \in Devices
        /\ me.op = "kickDevice" => me.dev \in Devices
        /\ me.op \in {"login", "refresh"} <=> me.new # 0

\* Whose a token is: the one a request issues belongs to it alone and no client has
\* it; the one it refreshes was given to a client
TokenInv ==
    /\ live \subseteq 1 .. requests /\ handed \subseteq 1 .. requests /\ retired \subseteq handed
    /\ \A r \in Rpcs : rpcs[r].new # 0 =>
           /\ rpcs[r].new \in 1 .. requests /\ issued[rpcs[r].new] = rpcs[r].dev
           /\ rpcs[r].new \notin handed
           /\ \A x \in Rpcs : rpcs[x].new = rpcs[r].new => x = r
    /\ \A r \in Rpcs : rpcs[r].op = "refresh" =>
           rpcs[r].old \in handed /\ issued[rpcs[r].old] = rpcs[r].dev

\* A token is in Redis from its SETEX on; a request that fails has taken its token
\* back, and one that refreshed has deleted the token it was given
TakenBackInv(r) ==
    LET me == rpcs[r]
    IN  /\ me.pc \in {"login", "refresh", "setex"} => me.new \notin live
        /\ me.pc = "fail" => me.new \notin live \/ me.dev \in unsure
        /\ me.pc = "done" /\ me.op = "refresh" => me.old \notin live \/ me.dev \in unsure

\* A device for which a client has, or is about to get, a token has a row
RowExistsInv ==
    /\ \A t \in handed : issued[t] \in Devices => row[issued[t]] >= 0
    /\ \A r \in Rpcs : rpcs[r].pc = "done" /\ rpcs[r].op = "login" /\ rpcs[r].dev \in Devices
                           => row[rpcs[r].dev] >= 0

\* No token of the device is valid but these
OnlyValid(d, tokens) == \A t \in live : issued[t] = d => t \in tokens

\* What is valid at each place of the one request of a device
ValidInv(d, r) ==
    LET me == rpcs[r]
    IN  /\ me.pc \in {"login", "refresh", "setex", "kickDevice", "kick", "delOld", "done", "fail"} =>
               OnlyValid(d, {row[d]})
        /\ me.pc \in {"getDevice", "delNew"} => OnlyValid(d, {row[d], me.new})
        /\ me.pc = "kick" => me.seen = row[d]
        /\ me.pc = "upsert" /\ me.op = "login" => OnlyValid(d, {me.new})
        /\ me.pc = "upsert" /\ me.op = "refresh" => OnlyValid(d, {row[d], me.new}) /\ me.seen = row[d]
        /\ me.pc = "delSeen" /\ me.op = "login" => OnlyValid(d, {me.seen, me.new})
        /\ me.pc = "delSeen" /\ me.op = "refresh" => OnlyValid(d, {me.seen, me.new}) /\ row[d] = me.new
        /\ me.pc = "delSeen" /\ me.op = "kickDevice" => OnlyValid(d, {me.seen})
        /\ me.pc = "clear" => OnlyValid(d, {})

\* Requests of a device did not overlap, and nothing failed that nobody looked at
Orderly(d) == d \in Devices /\ d \notin crossed /\ d \notin unsure

RowInv ==
    \A d \in Devices : Orderly(d) =>
        /\ \A r, x \in Rpcs : rpcs[r].dev = d /\ rpcs[x].dev = d => r = x
        /\ (\A r \in Rpcs : rpcs[r].dev # d) => OnlyValid(d, {row[d]})
        /\ \A r \in Rpcs : rpcs[r].dev = d => ValidInv(d, r)

AccountsInv ==
    /\ AccountsTypeOK /\ TokenInv /\ RowExistsInv /\ RowInv /\ NoStrayToken
    /\ \A r \in Rpcs : PlaceInv(r) /\ TakenBackInv(r)

\* No account, no token, no request.
LEMMA AccountsInitially == AccountsInit => AccountsInv
<1> SUFFICES ASSUME AccountsInit PROVE AccountsInv
    BY Zenon
<1>1. AccountsTypeOK
    BY AccountsAssumption DEF AccountsInit, AccountsTypeOK, Places, Tokens, Free
<1>2. \A r \in Rpcs : rpcs[r] = Free
    BY Zenon DEF AccountsInit
<1>3. TokenInv /\ RowExistsInv /\ NoStrayToken
    BY <1>2, Zenon DEF AccountsInit, TokenInv, RowExistsInv, NoStrayToken, Free
<1>4. RowInv
    BY <1>2, AccountsAssumption, Zenon DEF AccountsInit, RowInv, OnlyValid, Free
<1>5. \A r \in Rpcs : PlaceInv(r) /\ TakenBackInv(r)
    BY <1>2, AccountsAssumption DEF PlaceInv, TakenBackInv, Free
<1> QED
    BY <1>1, <1>3, <1>4, <1>5, Zenon DEF AccountsInv

\* The invariant shows what the runs check.
LEMMA AccountsFromInv == AccountsInv => NoStrayToken /\ StoresAgree
<1> SUFFICES ASSUME AccountsInv PROVE NoStrayToken /\ StoresAgree
    BY Zenon
<1>1. RegisteredOnce
    BY DEF AccountsInv, AccountsTypeOK, RegisteredOnce
<1>2. RowNamesTheToken
    BY Zenon DEF AccountsInv, RowInv, RowNamesTheToken, OnlyValid, Orderly
<1> QED
    BY <1>1, <1>2, Zenon DEF AccountsInv, StoresAgree

\* A thread goes to the next place of its request, and no other moves.
LEMMA Goes ==
    ASSUME AccountsTypeOK, NEW r \in Rpcs, NEW place \in Places, Goto(r, place)
    PROVE  /\ rpcs'[r].pc = place /\ rpcs'[r].op = rpcs[r].op /\ rpcs'[r].dev = rpcs[r].dev
           /\ rpcs'[r].new = rpcs[r].new /\ rpcs'[r].old = rpcs[r].old /\ rpcs'[r].seen = rpcs[r].seen
           /\ \A x \in Rpcs : x # r => rpcs'[x] = rpcs[x]
           /\ rpcs' \in [Rpcs -> [op : {"none", "register", "login", "refresh", "kickDevice"}, pc : Places,
                                  dev : Devices \cup {NoDevice}, new : 0 .. MaxRequests,
                                  old : 0 .. MaxRequests, seen : -1 .. MaxRequests]]
    BY DEF AccountsTypeOK, Goto

\* A thread that answered is free.
LEMMA Answers ==
    ASSUME AccountsTypeOK, NEW r \in Rpcs, answer(r)
    PROVE  /\ rpcs'[r] = Free
           /\ \A x \in Rpcs : x # r => rpcs'[x] = rpcs[x]
           /\ rpcs' \in [Rpcs -> [op : {"none", "register", "login", "refresh", "kickDevice"}, pc : Places,
                                  dev : Devices \cup {NoDevice}, new : 0 .. MaxRequests,
                                  old : 0 .. MaxRequests, seen : -1 .. MaxRequests]]
    BY AccountsAssumption DEF AccountsTypeOK, answer, Free, Places

\* A step within a request keeps the invariant if what it does to the request's own
\* place and device is right: other requests have other tokens and, unless they
\* overlap, other devices.
LEMMA WithinRequest ==
    ASSUME AccountsInv, AccountsTypeOK', NEW r \in Rpcs,
           rpcs'[r].op = rpcs[r].op, rpcs'[r].dev = rpcs[r].dev, rpcs'[r].new = rpcs[r].new,
           rpcs'[r].old = rpcs[r].old, \A x \in Rpcs : x # r => rpcs'[x] = rpcs[x],
           UNCHANGED <<issued, handed, retired, crossed, requests>>, unsure \subseteq unsure',
           live' \subseteq live \cup {rpcs[r].new},
           \A d \in Devices : /\ d # rpcs[r].dev => row'[d] = row[d]
                              /\ row[d] >= 0 => row'[d] >= 0,
           rpcs'[r].pc = "done" /\ rpcs[r].op = "login" /\ rpcs[r].dev \in Devices =>
               row'[rpcs[r].dev] >= 0,
           PlaceInv(r)', TakenBackInv(r)',
           \A d \in Devices : d = rpcs[r].dev /\ Orderly(d)' => ValidInv(d, r)'
    PROVE  AccountsInv'
<1>0. AccountsTypeOK /\ TokenInv /\ RowExistsInv /\ RowInv /\ NoStrayToken
    BY Zenon DEF AccountsInv
<1>a. \A x \in Rpcs : /\ rpcs'[x].op = rpcs[x].op /\ rpcs'[x].dev = rpcs[x].dev
                      /\ rpcs'[x].new = rpcs[x].new /\ rpcs'[x].old = rpcs[x].old
    BY Zenon
<1>b. \A t \in live' : t \in live \/ (t = rpcs[r].new /\ rpcs[r].new # 0)
    <2>1. 0 \notin live'
        <3>1. live' \subseteq 1 .. MaxRequests
            BY Zenon DEF AccountsTypeOK, Tokens
        <3> QED
            BY <3>1
    <2> QED
        BY <2>1, Zenon
<1>1. TokenInv'
    <2>1. live' \subseteq 1 .. requests
        BY <1>0, <1>b, Zenon DEF TokenInv
    <2> QED
        BY <1>0, <1>a, <2>1 DEF TokenInv
<1>2. RowExistsInv'
    <2>1. ASSUME NEW x \in Rpcs, rpcs'[x].pc = "done", rpcs'[x].op = "login", rpcs'[x].dev \in Devices
          PROVE  row'[rpcs'[x].dev] >= 0
        BY <1>0, <1>a, <2>1 DEF RowExistsInv
    <2>2. ASSUME NEW t \in handed, issued[t] \in Devices PROVE row'[issued[t]] >= 0
        BY <1>0, <2>2, Zenon DEF RowExistsInv
    <2> QED
        BY <2>1, <2>2, Zenon DEF RowExistsInv
<1>3. NoStrayToken'
    <2>1. ASSUME NEW t \in live', t \in live
          PROVE  issued[t] \in unsure' \/ (t \notin retired /\ (t \in handed \/ \E x \in Rpcs : rpcs'[x].new = t))
        BY <1>0, <1>a, <2>1 DEF NoStrayToken
    <2>2. rpcs[r].new # 0 => rpcs[r].new \notin retired
        BY <1>0, Zenon DEF TokenInv
    <2> QED
        BY <1>a, <1>b, <2>1, <2>2, Zenon DEF NoStrayToken
<1>4. ASSUME NEW x \in Rpcs PROVE PlaceInv(x)' /\ TakenBackInv(x)'
    <2>1. CASE x # r
        <3>0. rpcs'[x] = rpcs[x] /\ PlaceInv(x) /\ TakenBackInv(x)
            BY <2>1, Zenon DEF AccountsInv
        <3>1. PlaceInv(x)'
            BY <3>0, Zenon DEF PlaceInv
        <3>2. rpcs[x].new \in live' => rpcs[x].new \in live
            BY <1>0, <1>b, <2>1, Zenon DEF TokenInv
        <3>3. rpcs[x].op = "refresh" => (rpcs[x].old \in live' => rpcs[x].old \in live)
            BY <1>0, <1>b, <2>1, Zenon DEF TokenInv
        <3> QED
            BY <3>0, <3>1, <3>2, <3>3, Zenon DEF TakenBackInv
    <2> QED
        BY <2>1, Zenon
<1>5. RowInv'
    <2> SUFFICES ASSUME NEW d \in Devices, Orderly(d)'
                 PROVE  /\ \A y, x \in Rpcs : rpcs'[y].dev = d /\ rpcs'[x].dev = d => y = x
                        /\ (\A y \in Rpcs : rpcs'[y].dev # d) => OnlyValid(d, {row[d]})'
                        /\ \A y \in Rpcs : rpcs'[y].dev = d => ValidInv(d, y)'
        BY Zenon DEF RowInv
    <2>0. Orderly(d)
        BY Zenon DEF Orderly
    <2>1. \A y, x \in Rpcs : rpcs[y].dev = d /\ rpcs[x].dev = d => y = x
        BY <1>0, <2>0, Zenon DEF RowInv
    <2>2. CASE rpcs[r].dev = d
        <3>1. ValidInv(d, r)'
            BY <2>2, Zenon
        <3> QED
            BY <1>a, <2>1, <2>2, <3>1
    <2>3. CASE rpcs[r].dev # d
        <3>1. row'[d] = row[d]
            BY <2>3, Zenon
        <3>2. \A t \in live' : issued[t] = d => t \in live
            BY <1>0, <1>b, <2>3, Zenon DEF TokenInv
        <3>3. ASSUME NEW y \in Rpcs, rpcs'[y].dev = d PROVE ValidInv(d, y)'
            <4>1. rpcs'[y] = rpcs[y] /\ ValidInv(d, y)
                BY <1>0, <1>a, <2>0, <2>3, <3>3, Zenon DEF RowInv
            <4> QED
                BY <3>1, <3>2, <4>1, Zenon DEF ValidInv, OnlyValid
        <3>4. (\A y \in Rpcs : rpcs'[y].dev # d) => OnlyValid(d, {row[d]})'
            BY <1>0, <1>a, <2>0, <3>1, <3>2 DEF RowInv, OnlyValid
        <3> QED
            BY <1>a, <2>1, <3>3, <3>4
    <2> QED
        BY <2>2, <2>3, Zenon
<1> QED
    BY <1>1, <1>2, <1>3, <1>4, <1>5, Zenon DEF AccountsInv

\* The last step of a request keeps the invariant if its token was handed out or is not
\* valid, the token it retires is not valid, and its device's row is right.
LEMMA EndOfRequest ==
    ASSUME AccountsInv, AccountsTypeOK', NEW r \in Rpcs,
           rpcs'[r] = Free, \A x \in Rpcs : x # r => rpcs'[x] = rpcs[x],
           UNCHANGED <<row, issued, crossed, requests>>, unsure \subseteq unsure',
           live' \subseteq live \cup {rpcs[r].new},
           rpcs[r].new \in live' => rpcs[r].new \in handed' \/ rpcs[r].dev \in unsure',
           handed \subseteq handed',
           handed' # handed => rpcs[r].new # 0 /\ handed' = handed \cup {rpcs[r].new},
           handed' # handed /\ rpcs[r].dev \in Devices => row[rpcs[r].dev] >= 0,
           \/ retired' = retired
           \/ /\ retired' = retired \cup {rpcs[r].old} /\ rpcs[r].op = "refresh"
              /\ rpcs[r].old \notin live' \/ rpcs[r].dev \in unsure',
           \A d \in Devices : d = rpcs[r].dev /\ Orderly(d)' => OnlyValid(d, {row[d]})'
    PROVE  AccountsInv'
<1>0. AccountsTypeOK /\ TokenInv /\ RowExistsInv /\ RowInv /\ NoStrayToken
    BY Zenon DEF AccountsInv
<1>a. rpcs'[r].new = 0 /\ rpcs'[r].op = "none" /\ rpcs'[r].dev = NoDevice /\ rpcs'[r].pc = "free"
    BY DEF Free
<1>b. \A t \in live' : t \in live \/ (t = rpcs[r].new /\ rpcs[r].new # 0)
    <2>1. 0 \notin live'
        <3>1. live' \subseteq 1 .. MaxRequests
            BY Zenon DEF AccountsTypeOK, Tokens
        <3> QED
            BY <3>1
    <2> QED
        BY <2>1, Zenon
<1>1. TokenInv'
    <2>1. live' \subseteq 1 .. requests /\ handed' \subseteq 1 .. requests
        BY <1>0, <1>b DEF TokenInv
    <2>2. retired' \subseteq handed'
        <3>1. retired \subseteq handed /\ (rpcs[r].op = "refresh" => rpcs[r].old \in handed)
            BY <1>0, Zenon DEF TokenInv
        <3> QED
            BY <3>1, Zenon
    <2>3. ASSUME NEW x \in Rpcs, rpcs'[x].new # 0
          PROVE  /\ rpcs'[x].new \in 1 .. requests /\ issued[rpcs'[x].new] = rpcs'[x].dev
                 /\ rpcs'[x].new \notin handed'
                 /\ \A y \in Rpcs : rpcs'[y].new = rpcs'[x].new => y = x
        BY <1>0, <1>a, <2>3 DEF TokenInv
    <2>4. ASSUME NEW x \in Rpcs, rpcs'[x].op = "refresh"
          PROVE  rpcs'[x].old \in handed' /\ issued[rpcs'[x].old] = rpcs'[x].dev
        BY <1>0, <1>a, <2>4, Zenon DEF TokenInv
    <2> QED
        BY <2>1, <2>2, <2>3, <2>4, Zenon DEF TokenInv
<1>2. RowExistsInv'
    <2>1. ASSUME NEW x \in Rpcs, rpcs'[x].pc = "done", rpcs'[x].op = "login", rpcs'[x].dev \in Devices
          PROVE  row[rpcs'[x].dev] >= 0
        BY <1>0, <1>a, <2>1, Zenon DEF RowExistsInv
    <2>2. ASSUME NEW t \in handed', issued[t] \in Devices PROVE row[issued[t]] >= 0
        <3>1. CASE t \in handed
            BY <1>0, <2>2, <3>1, Zenon DEF RowExistsInv
        <3>2. CASE t \notin handed
            BY <1>0, <2>2, <3>2 DEF TokenInv
        <3> QED
            BY <3>1, <3>2, Zenon
    <2> QED
        BY <2>1, <2>2, Zenon DEF RowExistsInv
<1>3. NoStrayToken'
    <2> SUFFICES ASSUME NEW t \in live', issued[t] \notin unsure'
                 PROVE  t \notin retired' /\ (t \in handed' \/ \E x \in Rpcs : rpcs'[x].new = t)
        BY Zenon DEF NoStrayToken
    <2>1. CASE t = rpcs[r].new
        <3>1. issued[t] = rpcs[r].dev /\ t \notin handed
            BY <1>0, <2>1 DEF TokenInv, AccountsTypeOK, Tokens
        <3>2. t \in handed'
            BY <2>1, <3>1, Zenon
        <3>3. t \notin retired'
            BY <1>0, <2>1, <3>1, Zenon DEF TokenInv
        <3> QED
            BY <3>2, <3>3, Zenon
    <2>2. CASE t # rpcs[r].new
        <3>1. t \in live
            BY <2>2, Zenon
        <3>2. t \notin retired /\ (t \in handed \/ \E x \in Rpcs : rpcs[x].new = t)
            BY <1>0, <3>1, Zenon DEF NoStrayToken
        <3>3. t \in handed' \/ \E x \in Rpcs : rpcs'[x].new = t
            BY <2>2, <3>2, Zenon
        <3>4. t \notin retired'
            BY <1>0, <3>2 DEF TokenInv
        <3> QED
            BY <3>3, <3>4, Zenon
    <2> QED
        BY <2>1, <2>2, Zenon
<1>4. ASSUME NEW x \in Rpcs PROVE PlaceInv(x)' /\ TakenBackInv(x)'
    <2>1. CASE x # r
        <3>0. rpcs'[x] = rpcs[x] /\ PlaceInv(x) /\ TakenBackInv(x)
            BY <2>1, Zenon DEF AccountsInv
        <3>1. PlaceInv(x)'
            BY <3>0, Zenon DEF PlaceInv
        <3>2. rpcs[x].new \in live' => rpcs[x].new \in live
            BY <1>0, <1>b, <2>1, Zenon DEF TokenInv
        <3>3. rpcs[x].op = "refresh" => (rpcs[x].old \in live' => rpcs[x].old \in live)
            BY <1>0, <1>b, <2>1, Zenon DEF TokenInv
        <3> QED
            BY <3>0, <3>1, <3>2, <3>3, Zenon DEF TakenBackInv
    <2>2. CASE x = r
        BY <1>a, <2>2, Zenon DEF PlaceInv, TakenBackInv
    <2> QED
        BY <2>1, <2>2, Zenon
<1>5. RowInv'
    <2> SUFFICES ASSUME NEW d \in Devices, Orderly(d)'
                 PROVE  /\ \A y, x \in Rpcs : rpcs'[y].dev = d /\ rpcs'[x].dev = d => y = x
                        /\ (\A y \in Rpcs : rpcs'[y].dev # d) => OnlyValid(d, {row[d]})'
                        /\ \A y \in Rpcs : rpcs'[y].dev = d => ValidInv(d, y)'
        BY Zenon DEF RowInv
    <2>0. Orderly(d) /\ d # NoDevice
        BY AccountsAssumption, Zenon DEF Orderly
    <2>1. \A y, x \in Rpcs : rpcs[y].dev = d /\ rpcs[x].dev = d => y = x
        BY <1>0, <2>0, Zenon DEF RowInv
    <2>2. CASE rpcs[r].dev = d
        <3>1. OnlyValid(d, {row[d]})'
            BY <2>2, Zenon
        <3> QED
            BY <1>a, <2>0, <2>1, <2>2, <3>1, Zenon
    <2>3. CASE rpcs[r].dev # d
        <3>2. \A t \in live' : issued[t] = d => t \in live
            BY <1>0, <1>b, <2>3, Zenon DEF TokenInv
        <3>3. ASSUME NEW y \in Rpcs, rpcs'[y].dev = d PROVE ValidInv(d, y)'
            <4>1. rpcs'[y] = rpcs[y] /\ ValidInv(d, y)
                BY <1>0, <1>a, <2>0, <2>3, <3>3, Zenon DEF RowInv
            <4> QED
                BY <3>2, <4>1, Zenon DEF ValidInv, OnlyValid
        <3>4. (\A y \in Rpcs : rpcs'[y].dev # d) => OnlyValid(d, {row[d]})'
            BY <1>0, <2>0, <2>3, <3>2 DEF RowInv, OnlyValid
        <3> QED
            BY <1>a, <2>0, <2>1, <3>3, <3>4
    <2> QED
        BY <2>2, <2>3, Zenon
<1> QED
    BY <1>1, <1>2, <1>3, <1>4, <1>5, Zenon DEF AccountsInv

\* What the invariant says of one request.
LEMMA RequestFacts ==
    ASSUME AccountsInv, NEW r \in Rpcs
    PROVE  /\ AccountsTypeOK /\ PlaceInv(r) /\ TakenBackInv(r)
           /\ rpcs[r].dev \in Devices \cup {NoDevice} /\ rpcs[r].new \in 0 .. MaxRequests
           /\ rpcs[r].seen \in -1 .. MaxRequests /\ MaxRequests \in Nat
           /\ rpcs[r].new # 0 => issued[rpcs[r].new] = rpcs[r].dev /\ rpcs[r].new \notin handed
           /\ \A t \in live : t \in 1 .. MaxRequests
           /\ \A d \in Devices : d = rpcs[r].dev /\ Orderly(d) => ValidInv(d, r)
           /\ \A d \in Devices : row[d] \in -1 .. MaxRequests
    BY AccountsAssumption, Zenon DEF AccountsInv, AccountsTypeOK, TokenInv, RowInv, Tokens

\* Register's lookup touches no token and no row of a device.
LEMMA GetUserStep ==
    ASSUME AccountsInv, NEW r \in Rpcs, getUserByUsername(r) PROVE AccountsInv'
<1>0. AccountsTypeOK /\ PlaceInv(r) /\ rpcs[r].new \in 0 .. MaxRequests
    BY RequestFacts, Zenon
<1>1. rpcs[r].op = "register" /\ rpcs[r].new = 0 /\ rpcs[r].dev = NoDevice /\ 0 \notin live
    BY <1>0 DEF getUserByUsername, PlaceInv, AccountsTypeOK, Tokens
<1>a. UNCHANGED <<names, live, row, issued, handed, retired, registered, crossed, requests, unsure>>
    BY Zenon DEF getUserByUsername, storage, history, Fine, Harmless
<1>2. CASE answer(r)
    <2>1. rpcs'[r] = Free /\ AccountsTypeOK' /\ \A x \in Rpcs : x # r => rpcs'[x] = rpcs[x]
        BY <1>0, <1>2, <1>a, Answers, Zenon DEF AccountsTypeOK
    <2> QED
        BY <1>1, <1>a, <2>1, EndOfRequest, AccountsAssumption, Zenon
<1>3. CASE Goto(r, "create")
    <2>1. "create" \in Places
        BY Zenon DEF Places
    <2>2. /\ rpcs'[r].pc = "create" /\ rpcs'[r].op = rpcs[r].op /\ rpcs'[r].dev = rpcs[r].dev
          /\ rpcs'[r].new = rpcs[r].new /\ rpcs'[r].old = rpcs[r].old
          /\ AccountsTypeOK' /\ \A x \in Rpcs : x # r => rpcs'[x] = rpcs[x]
        BY <1>0, <1>3, <1>a, <2>1, Goes, Zenon DEF AccountsTypeOK
    <2>3. PlaceInv(r)' /\ TakenBackInv(r)'
        BY <1>1, <2>2, Zenon DEF PlaceInv, TakenBackInv
    <2> QED
        BY <1>1, <1>a, <2>2, <2>3, WithinRequest, AccountsAssumption, Zenon
<1> QED
    BY <1>2, <1>3, Zenon DEF getUserByUsername

\* The unique username lets one insert pass.
LEMMA CreateUserStep ==
    ASSUME AccountsInv, NEW r \in Rpcs, createUser(r) PROVE AccountsInv'
<1>0. AccountsTypeOK /\ PlaceInv(r) /\ rpcs[r].new \in 0 .. MaxRequests
    BY RequestFacts, Zenon
<1>1. rpcs[r].op = "register" /\ rpcs[r].new = 0 /\ rpcs[r].dev = NoDevice /\ 0 \notin live
    BY <1>0 DEF createUser, PlaceInv, AccountsTypeOK, Tokens
<1>a. UNCHANGED <<live, row, issued, handed, retired, crossed, requests, unsure>> /\ answer(r)
    BY Zenon DEF createUser, Fine, Harmless
<1>b. names' \in {0, 1} /\ registered' \in Nat /\ registered' <= names'
    BY <1>0 DEF createUser, AccountsTypeOK
<1>2. rpcs'[r] = Free /\ AccountsTypeOK' /\ \A x \in Rpcs : x # r => rpcs'[x] = rpcs[x]
    BY <1>0, <1>a, <1>b, Answers, Zenon DEF AccountsTypeOK
<1> QED
    BY <1>1, <1>a, <1>2, EndOfRequest, AccountsAssumption, Zenon

\* A refresh whose token is not valid ends before it made one.
LEMMA CheckOldStep ==
    ASSUME AccountsInv, NEW r \in Rpcs, checkOld(r) PROVE AccountsInv'
<1>0. /\ AccountsTypeOK /\ PlaceInv(r) /\ TakenBackInv(r)
      /\ \A d \in Devices : d = rpcs[r].dev /\ Orderly(d) => ValidInv(d, r)
    BY RequestFacts, Zenon
<1>1. rpcs[r].op = "refresh" /\ rpcs[r].new \notin live /\ rpcs[r].pc = "refresh"
    BY <1>0, Zenon DEF checkOld, PlaceInv, TakenBackInv
<1>a. UNCHANGED <<names, live, row, issued, handed, retired, registered, crossed, requests, unsure>>
    BY Zenon DEF checkOld, storage, history, Fine, Harmless
<1>b. ASSUME NEW d \in Devices, d = rpcs[r].dev, Orderly(d)' PROVE OnlyValid(d, {row[d]})'
    <2>1. ValidInv(d, r)
        BY <1>0, <1>a, <1>b, Zenon DEF Orderly
    <2> QED
        BY <1>1, <1>a, <2>1, Zenon DEF ValidInv, OnlyValid
<1>2. CASE answer(r)
    <2>1. rpcs'[r] = Free /\ AccountsTypeOK' /\ \A x \in Rpcs : x # r => rpcs'[x] = rpcs[x]
        BY <1>0, <1>2, <1>a, Answers, Zenon DEF AccountsTypeOK
    <2> QED
        BY <1>1, <1>a, <1>b, <2>1, EndOfRequest, Zenon
<1>3. CASE Goto(r, "setex")
    <2>1. "setex" \in Places
        BY Zenon DEF Places
    <2>2. /\ rpcs'[r].pc = "setex" /\ rpcs'[r].op = rpcs[r].op /\ rpcs'[r].dev = rpcs[r].dev
          /\ rpcs'[r].new = rpcs[r].new /\ rpcs'[r].old = rpcs[r].old
          /\ AccountsTypeOK' /\ \A x \in Rpcs : x # r => rpcs'[x] = rpcs[x]
        BY <1>0, <1>3, <1>a, <2>1, Goes, Zenon DEF AccountsTypeOK
    <2>3. PlaceInv(r)' /\ TakenBackInv(r)'
        BY <1>0, <1>1, <1>a, <2>2, Zenon DEF PlaceInv, TakenBackInv
    <2>4. ASSUME NEW d \in Devices, d = rpcs[r].dev, Orderly(d)' PROVE ValidInv(d, r)'
        BY <1>b, <2>2, <2>4, Zenon DEF ValidInv
    <2> QED
        BY <1>1, <1>a, <2>2, <2>3, <2>4, WithinRequest, Zenon
<1> QED
    BY <1>2, <1>3, Zenon DEF checkOld

\* SETEX makes the request's own token valid; one that failed after all leaves a token
\* nobody knows of, and the device is no longer sure.
LEMMA SetExStep ==
    ASSUME AccountsInv, NEW r \in Rpcs, setEx(r) PROVE AccountsInv'
<1> DEFINE next == IF rpcs[r].dev # NoDevice THEN "getDevice"
                   ELSE IF rpcs[r].op = "login" THEN "done" ELSE "delOld"
<1>0. /\ AccountsTypeOK /\ PlaceInv(r) /\ TakenBackInv(r) /\ rpcs[r].new \in 0 .. MaxRequests
      /\ rpcs[r].dev \in Devices \cup {NoDevice}
      /\ \A d \in Devices : d = rpcs[r].dev /\ Orderly(d) => ValidInv(d, r)
    BY RequestFacts, Zenon
<1>1. /\ rpcs[r].op \in {"login", "refresh"} /\ rpcs[r].new # 0 /\ rpcs[r].new \notin live
      /\ rpcs[r].pc \in {"login", "setex"}
    BY <1>0, Zenon DEF setEx, PlaceInv, TakenBackInv
<1>a. UNCHANGED <<names, row, issued, handed, retired, registered, crossed, requests>>
    BY Zenon DEF setEx, history
<1>b. ASSUME NEW d \in Devices, d = rpcs[r].dev, Orderly(d) PROVE OnlyValid(d, {row[d]})
    BY <1>0, <1>1, <1>b, Zenon DEF ValidInv
<1>c. live \cup {rpcs[r].new} \subseteq Tokens
    <2>1. rpcs[r].new \in Tokens
        BY <1>0, <1>1, AccountsAssumption DEF Tokens
    <2> QED
        BY <1>0, <2>1, Zenon DEF AccountsTypeOK
<1>2. CASE live' = live \cup {rpcs[r].new} /\ Goto(r, next) /\ Fine
    <2>1. next \in Places /\ unsure' = unsure
        BY <1>2, Zenon DEF Places, Fine
    <2> HIDE DEF next
    <2>2. /\ rpcs'[r].pc = next /\ rpcs'[r].op = rpcs[r].op /\ rpcs'[r].dev = rpcs[r].dev
          /\ rpcs'[r].new = rpcs[r].new /\ rpcs'[r].old = rpcs[r].old
          /\ AccountsTypeOK' /\ \A x \in Rpcs : x # r => rpcs'[x] = rpcs[x]
        BY <1>0, <1>2, <1>a, <1>c, <2>1, Goes, Zenon DEF AccountsTypeOK
    <2> USE DEF next
    <2>3. PlaceInv(r)' /\ TakenBackInv(r)'
        BY <1>0, <1>1, <1>a, <2>2, AccountsAssumption, Zenon DEF PlaceInv, TakenBackInv
    <2>4. ASSUME NEW d \in Devices, d = rpcs[r].dev, Orderly(d)' PROVE ValidInv(d, r)'
        <3>1. rpcs'[r].pc = "getDevice" /\ OnlyValid(d, {row[d]})
            BY <1>a, <1>b, <2>1, <2>2, <2>4, AccountsAssumption, Zenon DEF Orderly
        <3> QED
            BY <1>2, <1>a, <2>2, <3>1, Zenon DEF ValidInv, OnlyValid
    <2>5. ~ (rpcs'[r].pc = "done" /\ rpcs[r].op = "login" /\ rpcs[r].dev \in Devices)
        BY <2>2, AccountsAssumption, Zenon
    <2> HIDE DEF next
    <2> QED
        BY <1>1, <1>2, <1>a, <2>1, <2>2, <2>3, <2>4, <2>5, WithinRequest, Zenon
<1>3. ASSUME answer(r), unsure \subseteq unsure', live' \subseteq live \cup {rpcs[r].new},
             rpcs[r].new \in live' => rpcs[r].dev \in unsure'
      PROVE  AccountsInv'
    <2>1. rpcs'[r] = Free /\ AccountsTypeOK' /\ \A x \in Rpcs : x # r => rpcs'[x] = rpcs[x]
        BY <1>0, <1>3, <1>a, <1>c, Answers, Zenon DEF AccountsTypeOK
    <2>2. ASSUME NEW d \in Devices, d = rpcs[r].dev, Orderly(d)' PROVE OnlyValid(d, {row[d]})'
        <3>1. OnlyValid(d, {row[d]}) /\ live' \subseteq live
            BY <1>3, <1>a, <1>b, <2>2, Zenon DEF Orderly
        <3> QED
            BY <1>a, <3>1, Zenon DEF OnlyValid
    <2> QED
        BY <1>3, <1>a, <2>1, <2>2, EndOfRequest, Zenon
<1>4. CASE Harmless /\ UNCHANGED live /\ answer(r)
    BY <1>1, <1>3, <1>4, Zenon DEF Harmless
<1>5. CASE Harmful(r) /\ live' = live \cup {rpcs[r].new} /\ answer(r)
    BY <1>1, <1>3, <1>5, Zenon DEF Harmful
<1> QED
    BY <1>2, <1>4, <1>5, Zenon DEF setEx

\* What a request learns from the row of its device.
LEMMA GetDeviceStep ==
    ASSUME AccountsInv, NEW r \in Rpcs, getDevice(r) PROVE AccountsInv'
<1> DEFINE next(seen) == CASE rpcs[r].op = "login" -> IF seen > 0 THEN "delSeen" ELSE "upsert"
                           [] rpcs[r].op = "refresh" -> IF seen >= 0 THEN "upsert" ELSE "delOld"
                           [] OTHER -> IF seen >= 0 THEN "kick" ELSE "fail"
           go(seen) == rpcs' = [rpcs EXCEPT ![r].seen = seen, ![r].pc = next(seen)]
<1>0. /\ AccountsTypeOK /\ PlaceInv(r) /\ rpcs[r].new \in 0 .. MaxRequests
      /\ \A t \in live : t \in 1 .. MaxRequests
      /\ \A d \in Devices : d = rpcs[r].dev /\ Orderly(d) => ValidInv(d, r)
      /\ \A d \in Devices : row[d] \in -1 .. MaxRequests
      /\ MaxRequests \in Nat /\ 0 \notin live
    BY RequestFacts
<1>1. /\ rpcs[r].pc \in {"getDevice", "kickDevice"} /\ rpcs[r].dev \in Devices
      /\ rpcs[r].pc = "getDevice" => rpcs[r].op \in {"login", "refresh"}
      /\ rpcs[r].pc = "kickDevice" => rpcs[r].op = "kickDevice"
      /\ rpcs[r].op = "kickDevice" => rpcs[r].new = 0
    BY <1>0, Zenon DEF getDevice, PlaceInv
<1>a. UNCHANGED <<names, live, row, issued, handed, retired, registered, crossed, requests>>
    BY Zenon DEF getDevice, storage, history
<1>b. rpcs[r].op = "refresh" => row[rpcs[r].dev] >= 0
    BY <1>1, Zenon DEF AccountsInv, TokenInv, RowExistsInv
<1>2. ASSUME NEW seen \in -1 .. MaxRequests, go(seen), unsure \subseteq unsure',
             seen = row[rpcs[r].dev] \/ rpcs[r].dev \in unsure'
      PROVE  AccountsInv'
    <2>1. next(seen) \in Places
        BY Zenon DEF Places
    <2>2. /\ rpcs'[r].pc = next(seen) /\ rpcs'[r].op = rpcs[r].op /\ rpcs'[r].dev = rpcs[r].dev
          /\ rpcs'[r].new = rpcs[r].new /\ rpcs'[r].old = rpcs[r].old /\ rpcs'[r].seen = seen
          /\ AccountsTypeOK' /\ \A x \in Rpcs : x # r => rpcs'[x] = rpcs[x]
        <3> HIDE DEF next
        <3> QED
            BY <1>0, <1>2, <1>a, <2>1, Zenon DEF AccountsTypeOK
    <2>3. PlaceInv(r)'
        BY <1>0, <1>1, <2>2, Zenon DEF PlaceInv
    <2>4. TakenBackInv(r)'
        BY <1>0, <1>1, <1>a, <2>2, Zenon DEF TakenBackInv
    <2>5. ASSUME NEW d \in Devices, d = rpcs[r].dev, Orderly(d)' PROVE ValidInv(d, r)'
        <3>1. ValidInv(d, r) /\ seen = row[d]
            BY <1>0, <1>2, <1>a, <2>5, Zenon DEF Orderly
        <3>2. OnlyValid(d, {row[d], rpcs[r].new}) /\ (rpcs[r].op = "kickDevice" => OnlyValid(d, {row[d]}))
            BY <1>1, <3>1, Zenon DEF ValidInv, OnlyValid
        <3>3. CASE rpcs[r].op = "login"
            BY <1>0, <1>a, <2>2, <3>1, <3>2, <3>3, SMTT(20) DEF ValidInv, OnlyValid
        <3>4. CASE rpcs[r].op = "refresh"
            BY <1>0, <1>a, <1>b, <2>2, <2>5, <3>1, <3>2, <3>4, Zenon DEF ValidInv, OnlyValid
        <3>5. CASE rpcs[r].op = "kickDevice"
            BY <1>0, <1>a, <2>2, <3>1, <3>2, <3>5, Zenon DEF ValidInv, OnlyValid
        <3> QED
            BY <1>1, <3>3, <3>4, <3>5, Zenon
    <2>6. ~ (rpcs'[r].pc = "done")
        BY <2>2, Zenon
    <2> HIDE DEF next, go
    <2> QED
        BY <1>2, <1>a, <2>2, <2>3, <2>4, <2>5, <2>6, WithinRequest, Zenon
<1>3. CASE go(row[rpcs[r].dev]) /\ Fine
    BY <1>0, <1>1, <1>2, <1>3, Zenon DEF Fine
<1>4. CASE Harmful(r) /\ go(-1)
    <2>1. -1 \in -1 .. MaxRequests
        BY <1>0
    <2> HIDE DEF go
    <2> QED
        BY <1>2, <1>4, <2>1, Zenon DEF Harmful
<1> QED
    BY <1>3, <1>4, Zenon DEF getDevice

\* A DEL takes away the one token, or the device is no longer sure.
LEMMA DelFacts ==
    ASSUME AccountsTypeOK, NEW r \in Rpcs, NEW token, del(r, token)
    PROVE  /\ live' \subseteq live /\ live' \subseteq Tokens /\ unsure \subseteq unsure'
           /\ token \notin live' \/ rpcs[r].dev \in unsure'
    BY Zenon DEF AccountsTypeOK, del, Fine, Harmful

\* DEL of the token that the row named.
LEMMA DelSeenStep ==
    ASSUME AccountsInv, NEW r \in Rpcs, delSeen(r) PROVE AccountsInv'
<1> DEFINE next == IF rpcs[r].op = "login" THEN "upsert"
                   ELSE IF rpcs[r].op = "refresh" THEN "delOld" ELSE "clear"
<1>0. /\ AccountsTypeOK /\ PlaceInv(r)
      /\ \A d \in Devices : d = rpcs[r].dev /\ Orderly(d) => ValidInv(d, r)
    BY RequestFacts, Zenon
<1>1. rpcs[r].pc = "delSeen" /\ rpcs[r].dev \in Devices /\ rpcs[r].op \in {"login", "refresh", "kickDevice"}
    BY <1>0, Zenon DEF delSeen, PlaceInv
<1>a. UNCHANGED <<names, row, issued, handed, retired, registered, crossed, requests>> /\ Goto(r, next)
    BY Zenon DEF delSeen, history
<1>b. /\ live' \subseteq live /\ live' \subseteq Tokens /\ unsure \subseteq unsure'
      /\ rpcs[r].seen \notin live' \/ rpcs[r].dev \in unsure'
    BY <1>0, DelFacts, Zenon DEF delSeen
<1>2. next \in Places
    BY Zenon DEF Places
<1>3. /\ rpcs'[r].pc = next /\ rpcs'[r].op = rpcs[r].op /\ rpcs'[r].dev = rpcs[r].dev
      /\ rpcs'[r].new = rpcs[r].new /\ rpcs'[r].old = rpcs[r].old /\ rpcs'[r].seen = rpcs[r].seen
      /\ AccountsTypeOK' /\ \A x \in Rpcs : x # r => rpcs'[x] = rpcs[x]
    <2> HIDE DEF next
    <2> QED
        BY <1>0, <1>a, <1>b, <1>2, Goes, Zenon DEF AccountsTypeOK
<1>4. PlaceInv(r)' /\ TakenBackInv(r)'
    BY <1>0, <1>1, <1>3, Zenon DEF PlaceInv, TakenBackInv
<1>5. ASSUME NEW d \in Devices, d = rpcs[r].dev, Orderly(d)' PROVE ValidInv(d, r)'
    <2>1. ValidInv(d, r) /\ rpcs[r].seen \notin live'
        BY <1>0, <1>a, <1>b, <1>5, Zenon DEF Orderly
    <2>2. CASE rpcs[r].op = "login"
        BY <1>1, <1>a, <1>b, <1>3, <2>1, <2>2, Zenon DEF ValidInv, OnlyValid
    <2>3. CASE rpcs[r].op = "refresh"
        BY <1>1, <1>a, <1>b, <1>3, <2>1, <2>3, Zenon DEF ValidInv, OnlyValid
    <2>4. CASE rpcs[r].op = "kickDevice"
        BY <1>1, <1>a, <1>b, <1>3, <2>1, <2>4, Zenon DEF ValidInv, OnlyValid
    <2> QED
        BY <1>1, <2>2, <2>3, <2>4, Zenon
<1>6. ~ (rpcs'[r].pc = "done")
    BY <1>3, Zenon
<1> HIDE DEF next
<1> QED
    BY <1>a, <1>b, <1>3, <1>4, <1>5, <1>6, WithinRequest, Zenon

\* The row names the new token, or the token is about to be taken back.
LEMMA UpsertStep ==
    ASSUME AccountsInv, NEW r \in Rpcs, upsertDevice(r) PROVE AccountsInv'
<1> DEFINE next == IF rpcs[r].op = "login" THEN "done"
                   ELSE IF rpcs[r].seen > 0 THEN "delSeen" ELSE "delOld"
           written == [row EXCEPT ![rpcs[r].dev] = rpcs[r].new]
<1>0. /\ AccountsTypeOK /\ PlaceInv(r) /\ rpcs[r].new \in 0 .. MaxRequests
      /\ rpcs[r].seen \in -1 .. MaxRequests /\ MaxRequests \in Nat
      /\ \A t \in live : t \in 1 .. MaxRequests
      /\ \A d \in Devices : d = rpcs[r].dev /\ Orderly(d) => ValidInv(d, r)
    BY RequestFacts, Zenon
<1>1. /\ rpcs[r].pc = "upsert" /\ rpcs[r].dev \in Devices /\ rpcs[r].op \in {"login", "refresh"}
      /\ rpcs[r].new # 0
    BY <1>0, Zenon DEF upsertDevice, PlaceInv
<1>a. UNCHANGED <<names, live, issued, handed, retired, registered, crossed, requests>>
    BY Zenon DEF upsertDevice, history
<1>b. written[rpcs[r].dev] = rpcs[r].new /\ \A d \in Devices : d # rpcs[r].dev => written[d] = row[d]
    BY <1>0, <1>1, Zenon DEF AccountsTypeOK
<1>c. written \in [Devices -> -1 .. MaxRequests]
    BY <1>0, <1>1 DEF AccountsTypeOK
<1>2. CASE row' = written /\ Goto(r, next) /\ Fine
    <2>1. next \in Places /\ unsure' = unsure
        BY <1>2, Zenon DEF Places, Fine
    <2>2. /\ rpcs'[r].pc = next /\ rpcs'[r].op = rpcs[r].op /\ rpcs'[r].dev = rpcs[r].dev
          /\ rpcs'[r].new = rpcs[r].new /\ rpcs'[r].old = rpcs[r].old /\ rpcs'[r].seen = rpcs[r].seen
          /\ AccountsTypeOK' /\ \A x \in Rpcs : x # r => rpcs'[x] = rpcs[x]
        <3> HIDE DEF next, written
        <3> QED
            BY <1>0, <1>2, <1>a, <1>c, <2>1, Goes, Zenon DEF AccountsTypeOK
    <2>3. PlaceInv(r)' /\ TakenBackInv(r)'
        BY <1>0, <1>1, <2>2, Zenon DEF PlaceInv, TakenBackInv
    <2>4. ASSUME NEW d \in Devices, d = rpcs[r].dev, Orderly(d)' PROVE ValidInv(d, r)'
        <3>1. ValidInv(d, r) /\ row'[d] = rpcs[r].new
            BY <1>0, <1>2, <1>a, <1>b, <2>1, <2>4, Zenon DEF Orderly
        <3>2. CASE rpcs[r].op = "login"
            BY <1>1, <1>a, <2>2, <3>1, <3>2, Zenon DEF ValidInv, OnlyValid
        <3>3. CASE rpcs[r].op = "refresh"
            <4>1. OnlyValid(d, {rpcs[r].seen, rpcs[r].new})
                BY <1>1, <3>1, <3>3, Zenon DEF ValidInv
            <4>2. CASE rpcs[r].seen > 0
                <5>1. rpcs'[r].pc = "delSeen"
                    BY <2>2, <3>3, <4>2, Zenon
                <5> QED
                    BY <1>a, <2>2, <3>1, <3>3, <4>1, <5>1, Zenon DEF ValidInv, OnlyValid
            <4>3. CASE ~ (rpcs[r].seen > 0)
                <5>1. rpcs'[r].pc = "delOld"
                    BY <2>2, <3>3, <4>3, Zenon
                <5>2. \A t \in live : t # rpcs[r].seen
                    BY <1>0, <4>3
                <5> QED
                    BY <1>a, <2>2, <3>1, <4>1, <5>1, <5>2, Zenon DEF ValidInv, OnlyValid
            <4> QED
                BY <4>2, <4>3, Zenon
        <3> QED
            BY <1>1, <3>2, <3>3, Zenon
    <2>5. \A d \in Devices : /\ d # rpcs[r].dev => row'[d] = row[d]
                             /\ row[d] >= 0 => row'[d] >= 0
        BY <1>0, <1>2, <1>b
    <2>6. row'[rpcs[r].dev] >= 0
        BY <1>0, <1>2, <1>b
    <2> HIDE DEF next, written
    <2> QED
        BY <1>2, <1>a, <2>1, <2>2, <2>3, <2>4, <2>5, <2>6, WithinRequest, Zenon
<1>3. ASSUME Goto(r, "delNew"), row' \in {row, written}, unsure \subseteq unsure',
             row' = row \/ rpcs[r].dev \in unsure'
      PROVE  AccountsInv'
    <2>1. "delNew" \in Places /\ row' \in [Devices -> -1 .. MaxRequests]
        <3> HIDE DEF written
        <3> QED
            BY <1>0, <1>3, <1>c, Zenon DEF Places, AccountsTypeOK
    <2>2. /\ rpcs'[r].pc = "delNew" /\ rpcs'[r].op = rpcs[r].op /\ rpcs'[r].dev = rpcs[r].dev
          /\ rpcs'[r].new = rpcs[r].new /\ rpcs'[r].old = rpcs[r].old
          /\ AccountsTypeOK' /\ \A x \in Rpcs : x # r => rpcs'[x] = rpcs[x]
        BY <1>0, <1>3, <1>a, <2>1, Goes, Zenon DEF AccountsTypeOK
    <2>3. PlaceInv(r)' /\ TakenBackInv(r)'
        BY <1>0, <1>1, <2>2, Zenon DEF PlaceInv, TakenBackInv
    <2>4. ASSUME NEW d \in Devices, d = rpcs[r].dev, Orderly(d)' PROVE ValidInv(d, r)'
        <3>1. ValidInv(d, r) /\ row' = row
            BY <1>0, <1>3, <1>a, <2>4, Zenon DEF Orderly
        <3> QED
            BY <1>1, <1>a, <2>2, <3>1, Zenon DEF ValidInv, OnlyValid
    <2>5. \A d \in Devices : /\ d # rpcs[r].dev => row'[d] = row[d]
                             /\ row[d] >= 0 => row'[d] >= 0
        <3> HIDE DEF written
        <3> QED
            BY <1>0, <1>3, <1>b
    <2> HIDE DEF written
    <2> QED
        BY <1>3, <1>a, <2>2, <2>3, <2>4, <2>5, WithinRequest, Zenon
<1>4. CASE Harmless /\ UNCHANGED row /\ Goto(r, "delNew")
    BY <1>3, <1>4, Zenon DEF Harmless
<1>5. CASE Harmful(r) /\ row' = written /\ Goto(r, "delNew")
    BY <1>3, <1>5, Zenon DEF Harmful
<1> QED
    BY <1>2, <1>4, <1>5, Zenon DEF upsertDevice

\* A request that could not write the row takes its token back.
LEMMA DelNewStep ==
    ASSUME AccountsInv, NEW r \in Rpcs, delNew(r) PROVE AccountsInv'
<1>0. /\ AccountsTypeOK /\ PlaceInv(r)
      /\ \A d \in Devices : d = rpcs[r].dev /\ Orderly(d) => ValidInv(d, r)
    BY RequestFacts, Zenon
<1>1. rpcs[r].pc = "delNew" /\ rpcs[r].op \in {"login", "refresh"}
    BY <1>0, Zenon DEF delNew, PlaceInv
<1>a. /\ UNCHANGED <<names, row, issued, handed, retired, registered, crossed, requests>>
      /\ Goto(r, "fail") /\ "fail" \in Places
    BY Zenon DEF delNew, history, Places
<1>b. /\ live' \subseteq live /\ live' \subseteq Tokens /\ unsure \subseteq unsure'
      /\ rpcs[r].new \notin live' \/ rpcs[r].dev \in unsure'
    BY <1>0, DelFacts, Zenon DEF delNew
<1>3. /\ rpcs'[r].pc = "fail" /\ rpcs'[r].op = rpcs[r].op /\ rpcs'[r].dev = rpcs[r].dev
      /\ rpcs'[r].new = rpcs[r].new /\ rpcs'[r].old = rpcs[r].old
      /\ AccountsTypeOK' /\ \A x \in Rpcs : x # r => rpcs'[x] = rpcs[x]
    BY <1>0, <1>a, <1>b, Goes, Zenon DEF AccountsTypeOK
<1>4. PlaceInv(r)' /\ TakenBackInv(r)'
    BY <1>0, <1>1, <1>b, <1>3, Zenon DEF PlaceInv, TakenBackInv
<1>5. ASSUME NEW d \in Devices, d = rpcs[r].dev, Orderly(d)' PROVE ValidInv(d, r)'
    <2>1. ValidInv(d, r) /\ rpcs[r].new \notin live'
        BY <1>0, <1>a, <1>b, <1>5, Zenon DEF Orderly
    <2> QED
        BY <1>1, <1>a, <1>b, <1>3, <2>1, Zenon DEF ValidInv, OnlyValid
<1> QED
    BY <1>a, <1>b, <1>3, <1>4, <1>5, WithinRequest, Zenon

\* A refresh deletes the token it was given.
LEMMA DelOldStep ==
    ASSUME AccountsInv, NEW r \in Rpcs, delOld(r) PROVE AccountsInv'
<1>0. /\ AccountsTypeOK /\ PlaceInv(r)
      /\ \A d \in Devices : d = rpcs[r].dev /\ Orderly(d) => ValidInv(d, r)
    BY RequestFacts, Zenon
<1>1. rpcs[r].pc = "delOld" /\ rpcs[r].op = "refresh"
    BY <1>0, Zenon DEF delOld, PlaceInv
<1>a. /\ UNCHANGED <<names, row, issued, handed, retired, registered, crossed, requests>>
      /\ Goto(r, "done") /\ "done" \in Places
    BY Zenon DEF delOld, history, Places
<1>b. /\ live' \subseteq live /\ live' \subseteq Tokens /\ unsure \subseteq unsure'
      /\ rpcs[r].old \notin live' \/ rpcs[r].dev \in unsure'
    BY <1>0, DelFacts, Zenon DEF delOld
<1>3. /\ rpcs'[r].pc = "done" /\ rpcs'[r].op = rpcs[r].op /\ rpcs'[r].dev = rpcs[r].dev
      /\ rpcs'[r].new = rpcs[r].new /\ rpcs'[r].old = rpcs[r].old
      /\ AccountsTypeOK' /\ \A x \in Rpcs : x # r => rpcs'[x] = rpcs[x]
    BY <1>0, <1>a, <1>b, Goes, Zenon DEF AccountsTypeOK
<1>4. PlaceInv(r)' /\ TakenBackInv(r)'
    BY <1>0, <1>1, <1>b, <1>3, Zenon DEF PlaceInv, TakenBackInv
<1>5. ASSUME NEW d \in Devices, d = rpcs[r].dev, Orderly(d)' PROVE ValidInv(d, r)'
    <2>1. ValidInv(d, r)
        BY <1>0, <1>a, <1>b, <1>5, Zenon DEF Orderly
    <2> QED
        BY <1>1, <1>a, <1>b, <1>3, <2>1, Zenon DEF ValidInv, OnlyValid
<1> QED
    BY <1>1, <1>a, <1>b, <1>3, <1>4, <1>5, WithinRequest, Zenon

\* The answer hands the new token out and retires the refreshed one.
LEMMA DoneStep ==
    ASSUME AccountsInv, NEW r \in Rpcs, done(r) PROVE AccountsInv'
<1>0. /\ AccountsTypeOK /\ PlaceInv(r) /\ TakenBackInv(r) /\ rpcs[r].new \in 0 .. MaxRequests
      /\ rpcs[r].dev \in Devices \cup {NoDevice}
      /\ rpcs[r].old \in 0 .. MaxRequests /\ MaxRequests \in Nat /\ 0 \notin live
      /\ \A d \in Devices : d = rpcs[r].dev /\ Orderly(d) => ValidInv(d, r)
    BY RequestFacts DEF AccountsTypeOK
<1>1. rpcs[r].pc \in {"done", "fail"}
    BY Zenon DEF done
<1>a. UNCHANGED <<names, live, row, issued, registered, crossed, requests, unsure>> /\ answer(r)
    BY Zenon DEF done, storage, Fine
<1>b. \/ handed' = handed /\ ~ (rpcs[r].pc = "done" /\ rpcs[r].new # 0)
      \/ rpcs[r].pc = "done" /\ rpcs[r].new # 0 /\ handed' = handed \cup {rpcs[r].new}
    BY <1>0 DEF done, Hand
<1>c. \/ retired' = retired
      \/ rpcs[r].pc = "done" /\ rpcs[r].op = "refresh" /\ retired' = retired \cup {rpcs[r].old}
    BY Zenon DEF done
<1>d. rpcs[r].op = "refresh" => rpcs[r].old \in handed /\ issued[rpcs[r].old] = rpcs[r].dev
    BY Zenon DEF AccountsInv, TokenInv
<1>e. handed' \subseteq Tokens /\ retired' \subseteq Tokens
    <2>1. rpcs[r].new # 0 => rpcs[r].new \in Tokens
        BY <1>0 DEF Tokens
    <2>2. handed \subseteq Tokens /\ retired \subseteq Tokens
        BY <1>0, Zenon DEF AccountsTypeOK
    <2> QED
        BY <1>b, <1>c, <1>d, <2>1, <2>2, Zenon
<1>2. rpcs'[r] = Free /\ AccountsTypeOK' /\ \A x \in Rpcs : x # r => rpcs'[x] = rpcs[x]
    BY <1>0, <1>a, <1>e, Answers, Zenon DEF AccountsTypeOK
<1>3. rpcs[r].new \in live' => rpcs[r].new \in handed' \/ rpcs[r].dev \in unsure'
    BY <1>0, <1>1, <1>a, <1>b, Zenon DEF TakenBackInv
<1>4. handed' # handed /\ rpcs[r].dev \in Devices => row[rpcs[r].dev] >= 0
    <2>1. handed' # handed => rpcs[r].pc = "done" /\ rpcs[r].op \in {"login", "refresh"}
        BY <1>0, <1>b, Zenon DEF PlaceInv
    <2>2. RowExistsInv
        BY Zenon DEF AccountsInv
    <2> QED
        BY <1>d, <2>1, <2>2, Zenon DEF RowExistsInv
<1>5. \/ retired' = retired
      \/ /\ retired' = retired \cup {rpcs[r].old} /\ rpcs[r].op = "refresh"
         /\ rpcs[r].old \notin live' \/ rpcs[r].dev \in unsure'
    BY <1>0, <1>a, <1>c, Zenon DEF TakenBackInv
<1>6. ASSUME NEW d \in Devices, d = rpcs[r].dev, Orderly(d)' PROVE OnlyValid(d, {row[d]})'
    <2>1. ValidInv(d, r)
        BY <1>0, <1>a, <1>6, Zenon DEF Orderly
    <2> QED
        BY <1>1, <1>a, <2>1, Zenon DEF ValidInv, OnlyValid
<1>7. /\ handed \subseteq handed'
      /\ handed' # handed => rpcs[r].new # 0 /\ handed' = handed \cup {rpcs[r].new}
    BY <1>b, Zenon
<1> QED
    BY <1>a, <1>2, <1>3, <1>4, <1>5, <1>6, <1>7, EndOfRequest, Zenon

\* A revocation asks for the connection to be closed.
LEMMA KickStep ==
    ASSUME AccountsInv, NEW r \in Rpcs, kickConnection(r) PROVE AccountsInv'
<1> DEFINE next == IF rpcs[r].seen > 0 THEN "delSeen" ELSE "clear"
<1>0. /\ AccountsTypeOK /\ PlaceInv(r) /\ rpcs[r].seen \in -1 .. MaxRequests /\ MaxRequests \in Nat
      /\ \A t \in live : t \in 1 .. MaxRequests
      /\ \A d \in Devices : d = rpcs[r].dev /\ Orderly(d) => ValidInv(d, r)
    BY RequestFacts, Zenon
<1>1. rpcs[r].pc = "kick" /\ rpcs[r].op = "kickDevice" /\ rpcs[r].dev \in Devices
    BY <1>0, Zenon DEF kickConnection, PlaceInv
<1>a. /\ UNCHANGED <<names, live, row, issued, handed, retired, registered, crossed, requests, unsure>>
      /\ Goto(r, next) /\ next \in Places
    BY Zenon DEF kickConnection, storage, history, Fine, Places
<1>3. /\ rpcs'[r].pc = next /\ rpcs'[r].op = rpcs[r].op /\ rpcs'[r].dev = rpcs[r].dev
      /\ rpcs'[r].new = rpcs[r].new /\ rpcs'[r].old = rpcs[r].old /\ rpcs'[r].seen = rpcs[r].seen
      /\ AccountsTypeOK' /\ \A x \in Rpcs : x # r => rpcs'[x] = rpcs[x]
    <2> HIDE DEF next
    <2> QED
        BY <1>0, <1>a, Goes, Zenon DEF AccountsTypeOK
<1>4. PlaceInv(r)' /\ TakenBackInv(r)'
    BY <1>0, <1>1, <1>3, Zenon DEF PlaceInv, TakenBackInv
<1>5. ASSUME NEW d \in Devices, d = rpcs[r].dev, Orderly(d)' PROVE ValidInv(d, r)'
    <2>1. OnlyValid(d, {rpcs[r].seen})
        BY <1>0, <1>1, <1>a, <1>5, Zenon DEF Orderly, ValidInv
    <2>2. CASE rpcs[r].seen > 0
        <3>1. rpcs'[r].pc = "delSeen"
            BY <1>3, <2>2, Zenon
        <3> QED
            BY <1>1, <1>a, <1>3, <2>1, <3>1, Zenon DEF ValidInv, OnlyValid
    <2>3. CASE ~ (rpcs[r].seen > 0)
        <3>1. rpcs'[r].pc = "clear"
            BY <1>3, <2>3, Zenon
        <3>2. \A t \in live : t # rpcs[r].seen
            BY <1>0, <2>3
        <3> QED
            BY <1>a, <2>1, <3>1, <3>2, Zenon DEF ValidInv, OnlyValid
    <2> QED
        BY <2>2, <2>3, Zenon
<1>6. ~ (rpcs'[r].pc = "done")
    BY <1>3, Zenon
<1> HIDE DEF next
<1> QED
    BY <1>a, <1>3, <1>4, <1>5, <1>6, WithinRequest, Zenon

\* A revocation clears the row after its token is gone.
LEMMA ClearStep ==
    ASSUME AccountsInv, NEW r \in Rpcs, clearDeviceToken(r) PROVE AccountsInv'
<1> DEFINE cleared == [row EXCEPT ![rpcs[r].dev] = 0]
<1>0. /\ AccountsTypeOK /\ PlaceInv(r) /\ MaxRequests \in Nat
      /\ \A d \in Devices : d = rpcs[r].dev /\ Orderly(d) => ValidInv(d, r)
    BY RequestFacts, Zenon
<1>1. rpcs[r].pc = "clear" /\ rpcs[r].op = "kickDevice" /\ rpcs[r].dev \in Devices /\ rpcs[r].new = 0
    BY <1>0, Zenon DEF clearDeviceToken, PlaceInv
<1>a. UNCHANGED <<names, live, issued, handed, retired, registered, crossed, requests, unsure>>
    BY Zenon DEF clearDeviceToken, history, Fine, Harmless
<1>b. /\ cleared \in [Devices -> -1 .. MaxRequests] /\ cleared[rpcs[r].dev] = 0
      /\ \A d \in Devices : d # rpcs[r].dev => cleared[d] = row[d]
    BY <1>0, <1>1 DEF AccountsTypeOK
<1>c. row' \in {row, cleared}
    BY Zenon DEF clearDeviceToken
<1>d. PICK place \in {"done", "fail"} : Goto(r, place)
    BY Zenon DEF clearDeviceToken
<1> HIDE DEF cleared
<1>e. row' \in [Devices -> -1 .. MaxRequests]
    BY <1>0, <1>b, <1>c, Zenon DEF AccountsTypeOK
<1>3. /\ rpcs'[r].pc = place /\ rpcs'[r].op = rpcs[r].op /\ rpcs'[r].dev = rpcs[r].dev
      /\ rpcs'[r].new = rpcs[r].new /\ rpcs'[r].old = rpcs[r].old
      /\ AccountsTypeOK' /\ \A x \in Rpcs : x # r => rpcs'[x] = rpcs[x]
    <2>1. place \in Places
        BY Zenon DEF Places
    <2> QED
        BY <1>0, <1>a, <1>d, <1>e, <2>1, Goes, Zenon DEF AccountsTypeOK
<1>4. PlaceInv(r)' /\ TakenBackInv(r)'
    <2>1. 0 \notin live
        BY <1>0 DEF AccountsTypeOK, Tokens
    <2> QED
        BY <1>0, <1>1, <1>a, <1>3, <2>1, Zenon DEF PlaceInv, TakenBackInv
<1>5. ASSUME NEW d \in Devices, d = rpcs[r].dev, Orderly(d)' PROVE ValidInv(d, r)'
    <2>1. ValidInv(d, r)
        BY <1>0, <1>a, <1>5, Zenon DEF Orderly
    <2> QED
        BY <1>1, <1>a, <1>3, <2>1, Zenon DEF ValidInv, OnlyValid
<1>6. \A d \in Devices : /\ d # rpcs[r].dev => row'[d] = row[d]
                         /\ row[d] >= 0 => row'[d] >= 0
    BY <1>b, <1>c
<1> QED
    BY <1>1, <1>a, <1>3, <1>4, <1>5, <1>6, WithinRequest, Zenon

\* A new request gets a token of its own and finds its device at rest, or crosses
\* another request.
LEMMA BeginStep ==
    ASSUME AccountsInv, NEW r \in Rpcs, NEW op \in {"register", "login", "refresh", "kickDevice"},
           NEW d \in Devices \cup {NoDevice}, NEW old \in 0 .. MaxRequests, begin(r, op, d, old),
           op = "register" => d = NoDevice, op = "kickDevice" => d \in Devices,
           op = "refresh" => old \in handed /\ issued[old] = d
    PROVE  AccountsInv'
<1> DEFINE token == IF op \in {"login", "refresh"} THEN requests + 1 ELSE 0
<1>0. AccountsTypeOK /\ TokenInv /\ RowExistsInv /\ RowInv /\ NoStrayToken /\ PlaceInv(r)
    BY Zenon DEF AccountsInv
<1>1. /\ rpcs[r].pc = "free" /\ rpcs[r].dev = NoDevice /\ rpcs[r].new = 0 /\ rpcs[r].op = "none"
    BY DEF begin, Free
<1>2. /\ requests' = requests + 1 /\ requests + 1 \in Tokens
      /\ requests \in Nat /\ requests' \in 0 .. MaxRequests
    BY <1>0, AccountsAssumption DEF begin, AccountsTypeOK, Tokens
<1>a. UNCHANGED <<names, live, row, handed, retired, registered, unsure>>
    BY Zenon DEF begin, storage
<1>3. /\ rpcs'[r].op = op /\ rpcs'[r].pc = op /\ rpcs'[r].dev = d /\ rpcs'[r].old = old
      /\ rpcs'[r].new = token
      /\ \A x \in Rpcs : x # r => rpcs'[x] = rpcs[x]
    BY <1>0, <1>2, Zenon DEF begin, AccountsTypeOK
<1>4. AccountsTypeOK'
    <2>1. token \in 0 .. MaxRequests
        BY <1>2, AccountsAssumption DEF Tokens
    <2>2. op \in Places /\ -1 \in -1 .. MaxRequests
        BY AccountsAssumption DEF Places
    <2>3. rpcs' = [rpcs EXCEPT ![r] = [op |-> op, pc |-> op, dev |-> d, old |-> old, seen |-> -1, new |-> token]]
        BY <1>2, Zenon DEF begin
    <2>4. issued' \in [Tokens -> Devices \cup {NoDevice}]
        BY <1>0, <1>2, Zenon DEF begin, AccountsTypeOK
    <2> HIDE DEF token
    <2>5. rpcs' \in [Rpcs -> [op : {"none", "register", "login", "refresh", "kickDevice"}, pc : Places,
                              dev : Devices \cup {NoDevice}, new : 0 .. MaxRequests,
                              old : 0 .. MaxRequests, seen : -1 .. MaxRequests]]
        BY <1>0, <2>1, <2>2, <2>3, Zenon DEF AccountsTypeOK
    <2> QED
        BY <1>0, <1>2, <1>a, <2>4, <2>5, Zenon DEF AccountsTypeOK
<1>5. /\ issued'[requests + 1] = d
      /\ \A t \in 1 .. requests : issued'[t] = issued[t]
    BY <1>0, <1>2, AccountsAssumption DEF begin, AccountsTypeOK, Tokens
<1>b. \A t \in live \cup handed : t \in 1 .. requests /\ issued'[t] = issued[t]
    BY <1>0, <1>5, Zenon DEF TokenInv
<1>6. TokenInv'
    <2>1. live' \subseteq 1 .. requests' /\ handed' \subseteq 1 .. requests' /\ retired' \subseteq handed'
        BY <1>0, <1>2, <1>a DEF TokenInv
    <2>2. ASSUME NEW x \in Rpcs, rpcs'[x].new # 0
          PROVE  /\ rpcs'[x].new \in 1 .. requests' /\ issued'[rpcs'[x].new] = rpcs'[x].dev
                 /\ rpcs'[x].new \notin handed'
                 /\ \A y \in Rpcs : rpcs'[y].new = rpcs'[x].new => y = x
        <3>1. CASE x = r
            <4>1. rpcs'[r].new = requests + 1 /\ requests + 1 \notin 1 .. requests
                BY <1>2, <1>3, <2>2, <3>1
            <4>2. \A y \in Rpcs : y # r /\ rpcs'[y].new # 0 => rpcs'[y].new \in 1 .. requests
                BY <1>0, <1>3, Zenon DEF TokenInv
            <4> QED
                BY <1>2, <1>3, <1>5, <1>a, <1>b, <2>2, <3>1, <4>1, <4>2
        <3>2. CASE x # r
            <4>1. rpcs'[x] = rpcs[x] /\ rpcs[x].new \in 1 .. requests /\ rpcs[x].new # requests + 1
                BY <1>0, <1>2, <1>3, <2>2, <3>2 DEF TokenInv
            <4>2. /\ issued'[rpcs[x].new] = rpcs[x].dev /\ rpcs[x].new \notin handed
                  /\ \A y \in Rpcs : rpcs[y].new = rpcs[x].new => y = x
                BY <1>0, <1>5, <2>2, <4>1, Zenon DEF TokenInv
            <4> QED
                BY <1>2, <1>3, <1>a, <2>2, <4>1, <4>2
        <3> QED
            BY <3>1, <3>2, Zenon
    <2>3. ASSUME NEW x \in Rpcs, rpcs'[x].op = "refresh"
          PROVE  rpcs'[x].old \in handed' /\ issued'[rpcs'[x].old] = rpcs'[x].dev
        <3>1. CASE x = r
            BY <1>3, <1>a, <1>b, <2>3, <3>1, Zenon
        <3>2. CASE x # r
            <4>1. rpcs[x].old \in handed /\ issued[rpcs[x].old] = rpcs[x].dev /\ rpcs'[x] = rpcs[x]
                BY <1>0, <1>3, <2>3, <3>2, Zenon DEF TokenInv
            <4> QED
                BY <1>a, <1>b, <4>1, Zenon
        <3> QED
            BY <3>1, <3>2, Zenon
    <2> QED
        BY <2>1, <2>2, <2>3, Zenon DEF TokenInv
<1>7. RowExistsInv'
    BY <1>0, <1>3, <1>a, <1>b, Zenon DEF RowExistsInv
<1>8. NoStrayToken'
    <2>1. \A x \in Rpcs : rpcs[x].new # 0 => rpcs'[x].new = rpcs[x].new
        BY <1>1, <1>3, Zenon
    <2>2. 0 \notin live
        BY <1>0 DEF AccountsTypeOK, Tokens
    <2>3. ASSUME NEW t \in live, issued[t] \notin unsure
          PROVE  t \notin retired /\ (t \in handed \/ \E x \in Rpcs : rpcs[x].new = t)
        BY <1>0, <2>3, Zenon DEF NoStrayToken
    <2>4. ASSUME NEW t \in live, \E x \in Rpcs : rpcs[x].new = t PROVE \E x \in Rpcs : rpcs'[x].new = t
        BY <2>1, <2>2, <2>4, Zenon
    <2> QED
        BY <1>a, <1>b, <2>3, <2>4, Zenon DEF NoStrayToken
<1>9. ASSUME NEW x \in Rpcs PROVE PlaceInv(x)' /\ TakenBackInv(x)'
    <2>1. CASE x # r
        BY <1>3, <1>a, <2>1 DEF AccountsInv, PlaceInv, TakenBackInv
    <2>2. CASE x = r
        <3>1. token \notin live /\ (op \in {"login", "refresh"} <=> token # 0)
            BY <1>0, <1>2 DEF TokenInv
        <3> HIDE DEF token
        <3> QED
            BY <1>3, <1>a, <2>2, <3>1, Zenon DEF PlaceInv, TakenBackInv
    <2> QED
        BY <2>1, <2>2, Zenon
<1>10. RowInv'
    <2> SUFFICES ASSUME NEW e \in Devices, Orderly(e)'
                 PROVE  /\ \A y, x \in Rpcs : rpcs'[y].dev = e /\ rpcs'[x].dev = e => y = x
                        /\ (\A y \in Rpcs : rpcs'[y].dev # e) => OnlyValid(e, {row[e]})'
                        /\ \A y \in Rpcs : rpcs'[y].dev = e => ValidInv(e, y)'
        BY Zenon DEF RowInv
    <2>0. Orderly(e) /\ e # NoDevice
        BY <1>a, AccountsAssumption, Zenon DEF Orderly, begin
    <2>1. /\ \A y, x \in Rpcs : rpcs[y].dev = e /\ rpcs[x].dev = e => y = x
          /\ (\A y \in Rpcs : rpcs[y].dev # e) => OnlyValid(e, {row[e]})
          /\ \A y \in Rpcs : rpcs[y].dev = e => ValidInv(e, y)
        BY <1>0, <2>0, Zenon DEF RowInv
    <2>2. CASE d = e
        <3>1. \A y \in Rpcs : rpcs[y].dev # e
            BY <2>2, Zenon DEF begin, Orderly
        <3>2. OnlyValid(e, {row[e]})'
            BY <1>a, <1>b, <2>1, <3>1, Zenon DEF OnlyValid
        <3>3. ValidInv(e, r)'
            BY <1>3, <2>2, <3>2, <2>0, Zenon DEF ValidInv
        <3> QED
            BY <1>3, <2>2, <3>1, <3>2, <3>3, Zenon
    <2>3. CASE d # e
        <3>1. \A y \in Rpcs : rpcs'[y].dev = e => y # r /\ rpcs'[y] = rpcs[y]
            BY <1>3, <2>3, Zenon
        <3>2. (\A y \in Rpcs : rpcs'[y].dev # e) => OnlyValid(e, {row[e]})'
            BY <1>1, <1>3, <1>a, <1>b, <2>0, <2>1, Zenon DEF OnlyValid
        <3>3. ASSUME NEW y \in Rpcs, rpcs'[y].dev = e PROVE ValidInv(e, y)'
            <4>1. rpcs'[y] = rpcs[y] /\ ValidInv(e, y)
                BY <2>1, <3>1, <3>3, Zenon
            <4> QED
                BY <1>a, <1>b, <4>1, Zenon DEF ValidInv, OnlyValid
        <3> QED
            BY <2>1, <3>1, <3>2, <3>3, Zenon
    <2> QED
        BY <2>2, <2>3, Zenon
<1> QED
    BY <1>4, <1>6, <1>7, <1>8, <1>9, <1>10, Zenon DEF AccountsInv

\* A step that changes nothing.
LEMMA AccountsStutter == ASSUME AccountsInv, UNCHANGED accountVars PROVE AccountsInv'
<1>1. UNCHANGED <<names, live, row, issued, rpcs, handed, retired, registered, crossed, unsure, requests>>
    BY Zenon DEF accountVars
<1>2. AccountsTypeOK'
    BY <1>1, Zenon DEF AccountsInv, AccountsTypeOK
<1>3. TokenInv' /\ RowExistsInv' /\ NoStrayToken'
    BY <1>1, Zenon DEF AccountsInv, TokenInv, RowExistsInv, NoStrayToken
<1>4. ASSUME NEW r \in Rpcs PROVE PlaceInv(r)' /\ TakenBackInv(r)'
    <2>1. PlaceInv(r) /\ TakenBackInv(r)
        BY Zenon DEF AccountsInv
    <2> QED
        BY <1>1, <2>1, Zenon DEF PlaceInv, TakenBackInv
<1>5. ASSUME NEW d \in Devices, NEW r \in Rpcs, ValidInv(d, r) PROVE ValidInv(d, r)'
    BY <1>1, <1>5, Zenon DEF ValidInv, OnlyValid
<1>6. RowInv'
    BY <1>1, <1>5, Zenon DEF AccountsInv, RowInv, Orderly, OnlyValid
<1> QED
    BY <1>2, <1>3, <1>4, <1>6, Zenon DEF AccountsInv

\* Every step of the account and device services keeps the invariant.
LEMMA AccountsStep == AccountsInv /\ [AccountsNext]_accountVars => AccountsInv'
<1> SUFFICES ASSUME AccountsInv, [AccountsNext]_accountVars PROVE AccountsInv'
    BY Zenon
<1>0. 0 \in 0 .. MaxRequests
    BY AccountsAssumption
<1>1. ASSUME NEW r \in Rpcs, Register(r) PROVE AccountsInv'
    BY <1>0, <1>1, BeginStep, Zenon DEF Register
<1>2. ASSUME NEW r \in Rpcs, NEW d \in Devices \cup {NoDevice}, Login(r, d) PROVE AccountsInv'
    BY <1>0, <1>2, BeginStep, Zenon DEF Login
<1>3. ASSUME NEW r \in Rpcs, NEW t \in handed, RefreshToken(r, t) PROVE AccountsInv'
    <2>1. t \in 0 .. MaxRequests /\ issued[t] \in Devices \cup {NoDevice}
        BY AccountsAssumption DEF AccountsInv, AccountsTypeOK, Tokens
    <2>2. begin(r, "refresh", issued[t], t)
        BY <1>3, Zenon DEF RefreshToken
    <2> QED
        BY <2>1, <2>2, BeginStep, Zenon
<1>4. ASSUME NEW r \in Rpcs, NEW d \in Devices, KickDevice(r, d) PROVE AccountsInv'
    BY <1>0, <1>4, BeginStep, Zenon DEF KickDevice
<1>5. CASE UNCHANGED accountVars
    BY <1>5, AccountsStutter, Zenon
<1> QED
    BY Zenon, <1>1, <1>2, <1>3, <1>4, <1>5, GetUserStep, CreateUserStep, CheckOldStep, SetExStep, GetDeviceStep,
       DelSeenStep, UpsertStep, DelNewStep, DelOldStep, DoneStep, KickStep, ClearStep DEF AccountsNext

\* The invariant of the accounts holds in every state.
LEMMA AccountsInvariance == AccountsSpec => []AccountsInv
    BY AccountsInitially, AccountsStep, PTL DEF AccountsSpec

\* For any number of requests, devices and threads, no token stays valid that no client
\* has and no request will hand out, and none that was refreshed, unless a DEL failed or
\* a call reported an error although it did its work (Login, RefreshToken).
THEOREM TokensAreAccounted == AccountsSpec => []NoStrayToken
    BY AccountsInvariance, AccountsFromInv, PTL

\* A username is registered once, and the row of a device at rest names its only valid
\* token, so that a revocation reaches it (Register, upsertDevice, KickDevice).
THEOREM RowsNameTheTokens == AccountsSpec => []StoresAgree
    BY AccountsInvariance, AccountsFromInv, PTL
=============================================================================
