----------------------------- MODULE PushProofs -----------------------------
(***************************************************************************)
(* Proofs about two services that work on what others wrote, for any       *)
(* number of workers, users, messages, devices, calls and failures. The    *)
(* push service: a committed offset never loses a message, and a worker    *)
(* never passes over a record that is not settled (Push). The admin        *)
(* service: what it does and says is exact (Admin).                        *)
(*                                                                         *)
(* Whether a record is settled depends on the committed offset of the      *)
(* retry topic, because a retry record keeps a message only until it is    *)
(* consumed itself. The invariant speaks of retry records after a fixed    *)
(* offset instead; ThroughLift moves from one offset to another.           *)
(***************************************************************************)
EXTENDS Push, Admin, TLAPS

Places == {"off", "poll", "handle", "reject", "fanout", "incr", "retry", "dlq", "save",
           "commit", "rewind", "stopped"}

\* Where a worker has a record in hand
Busy == Places \ {"off", "poll"}

\* Where it dispatches to the recipients one by one, and where one is in hand
Fanning == {"fanout", "incr", "retry", "dlq", "save"}
InHand == {"incr", "retry", "dlq"}

TopicRecord == [msg : Messages, to : Users \cup {NoUser}]

PushTypeOK ==
    /\ log \in [Topics -> Seq(TopicRecord)]
    /\ \A i \in 1..Len(log["retry"]) : log["retry"][i].to \in Users
    /\ committed \in [Topics -> Nat] /\ \A p \in Topics : committed[p] <= Len(log[p])
    /\ position \in [Topics -> Nat] /\ \A p \in Topics : position[p] <= Len(log[p])
    /\ owner \in [Topics -> Workers \cup {NoWorker}]
    /\ pc \in [Workers -> Places]
    /\ cur \in [Workers -> [p : Topics, off : Nat]]
    /\ todo \in [Workers -> SUBSET Users]
    /\ user \in [Workers -> Users \cup {NoUser}]
    /\ failed \in [Workers -> BOOLEAN]
    /\ members \subseteq Users

-----------------------------------------------------------------------------
(* The invariant                                                            *)

\* The message needs no more work for this user
Dealt(m, u) == \/ <<m, u>> \in delivered \cup offline
               \/ [msg |-> m, to |-> u] \in dlq

\* A retry record after the offset h will take care of it
Ahead(m, u, h) ==
    \E i \in 1..Len(log["retry"]) : i > h /\ log["retry"][i] = [msg |-> m, to |-> u]

Through(r, h) ==
    IF r.msg \in Malformed THEN r \in dlq
    ELSE \A u \in Recipients(r) : Dealt(r.msg, u) \/ Ahead(r.msg, u, h)

\* Once the first n records of p are consumed, so are the retry records among them
Horizon(p, n) == IF p = "retry" THEN n ELSE 0

Clear(p, n) == \A i \in 1..n : Through(log[p][i], Horizon(p, n))

CurHorizon(w) == Horizon(cur[w].p, cur[w].off + 1)

\* The record in hand comes after a clear prefix
HasRecord(w) ==
    pc[w] \in Busy => /\ cur[w].off < Len(log[cur[w].p])
                      /\ Clear(cur[w].p, cur[w].off)

\* Each recipient is still to do, in hand, or dealt with, unless a dispatch failed
FansOut(w) ==
    pc[w] \in Fanning =>
        /\ Cur(w).msg \notin Malformed
        /\ failed[w] \/ \A u \in Recipients(Cur(w)) :
               \/ u \in todo[w]
               \/ pc[w] \in InHand /\ u = user[w]
               \/ Dealt(Cur(w).msg, u)
               \/ Ahead(Cur(w).msg, u, CurHorizon(w))

WorkerInv(w) ==
    /\ HasRecord(w)
    /\ FansOut(w)
    /\ pc[w] \in InHand \cup {"save"} => user[w] \in Users
    /\ pc[w] = "reject" => Cur(w).msg \in Malformed
    /\ pc[w] = "commit" => Through(Cur(w), CurHorizon(w))

CommitInv == \A p \in Topics : Clear(p, committed[p])

\* The owner of a partition has fetched a clear prefix, but for the record in hand
PositionInv ==
    \A p \in Topics : \A w \in Workers : owner[p] = w =>
        /\ pc[w] # "off"
        /\ \/ Clear(p, position[p])
           \/ /\ pc[w] \in Busy
              /\ cur[w].p = p /\ cur[w].off + 1 = position[p]

PushInv ==
    /\ PushTypeOK
    /\ \A w \in Workers : WorkerInv(w)
    /\ CommitInv
    /\ PositionInv

-----------------------------------------------------------------------------
(* What happens to a settled record                                         *)

\* No step takes a record, a delivery, an offline row or a dead letter back, or
\* lets a user join
Grows ==
    /\ \A p \in Topics : /\ Len(log[p]) <= Len(log'[p])
                         /\ \A i \in 1..Len(log[p]) : log'[p][i] = log[p][i]
    /\ dlq \subseteq dlq'
    /\ delivered \subseteq delivered' /\ offline \subseteq offline'
    /\ members' \subseteq members

\* The topics have lengths, and no offset is beyond them.
LEMMA LogFacts ==
    ASSUME PushTypeOK
    PROVE  /\ "retry" \in Topics
           /\ \A p \in Topics : /\ Len(log[p]) \in Nat
                                /\ committed[p] \in Nat /\ committed[p] <= Len(log[p])
                                /\ position[p] \in Nat /\ position[p] <= Len(log[p])
<1>1. "retry" \in Topics
    BY Zenon DEF Topics
<1>2. \A p \in Topics : Len(log[p]) \in Nat
    BY DEF PushTypeOK
<1> QED
    BY <1>1, <1>2, Zenon DEF PushTypeOK

\* What is dealt with stays so, and a retry record stays in its topic.
LEMMA DealtGrows ==
    ASSUME PushTypeOK, PushTypeOK', Grows
    PROVE  /\ \A m, u : Dealt(m, u) => Dealt(m, u)'
           /\ \A m, u : \A h \in Nat : Ahead(m, u, h) => Ahead(m, u, h)'
<1>1. \A m, u : Dealt(m, u) => Dealt(m, u)'
    BY Zenon DEF Grows, Dealt
<1>2. ASSUME NEW m, NEW u, NEW h \in Nat, Ahead(m, u, h) PROVE Ahead(m, u, h)'
    <2>1. PICK i \in 1..Len(log["retry"]) :
              i > h /\ log["retry"][i] = [msg |-> m, to |-> u]
        BY <1>2, Zenon DEF Ahead
    <2>2. i \in 1..Len(log'["retry"]) /\ log'["retry"][i] = log["retry"][i]
        BY DEF Grows, PushTypeOK, Topics
    <2> QED
        BY <2>1, <2>2, Zenon DEF Ahead
<1> QED
    BY <1>1, <1>2, Zenon

\* A settled record stays settled.
LEMMA ThroughGrows ==
    ASSUME PushTypeOK, PushTypeOK', Grows, NEW r, NEW h \in Nat, Through(r, h)
    PROVE  Through(r, h)'
<1>1. CASE r.msg \in Malformed
    BY <1>1, Zenon DEF Through, Grows
<1>2. CASE r.msg \notin Malformed
    <2>1. \A u \in Recipients(r)' : u \in Recipients(r)
        BY Zenon DEF Recipients, Grows
    <2>2. \A u \in Recipients(r)' : (Dealt(r.msg, u) \/ Ahead(r.msg, u, h))'
        BY <1>2, <2>1, DealtGrows, Zenon DEF Through
    <2> QED
        BY <1>2, <2>2, Zenon DEF Through
<1> QED
    BY <1>1, <1>2, Zenon

\* So does a prefix of a partition.
LEMMA ClearGrows ==
    ASSUME PushTypeOK, PushTypeOK', Grows, NEW p \in Topics, NEW n \in Nat,
           n <= Len(log[p]), Clear(p, n)
    PROVE  Clear(p, n)'
<1> SUFFICES ASSUME NEW i \in 1..n PROVE Through(log[p][i], Horizon(p, n))'
    BY Zenon DEF Clear
<1>1. log'[p][i] = log[p][i]
    BY DEF Grows, PushTypeOK
<1>2. PICK r : r = log[p][i]
    BY Zenon
<1>3. PICK h \in Nat : h = Horizon(p, n)
    BY Zenon DEF Horizon
<1>4. Through(r, h)
    BY <1>2, <1>3, Zenon DEF Clear
<1>5. Through(r, h)'
    BY <1>4, ThroughGrows, Zenon
<1> QED
    BY <1>1, <1>2, <1>3, <1>5, Zenon DEF Horizon

\* Once the retry topic is consumed up to k, a record that relied on any retry
\* record relies on one after k.
LEMMA ThroughLift ==
    ASSUME PushTypeOK, PushAssumption, NEW r, NEW h \in Nat, NEW k \in Nat,
           Through(r, h), Clear("retry", k), k <= Len(log["retry"]),
           \A u \in Recipients(r) : u \in Users
    PROVE  Through(r, k)
<1>1. CASE r.msg \in Malformed
    BY <1>1, Zenon DEF Through
<1>2. CASE r.msg \notin Malformed
    <2>1. ASSUME NEW u \in Recipients(r), ~Dealt(r.msg, u) PROVE Ahead(r.msg, u, k)
        <3>1. Ahead(r.msg, u, h)
            BY <1>2, <2>1, Zenon DEF Through
        <3>2. PICK i \in 1..Len(log["retry"]) :
                  i > h /\ log["retry"][i] = [msg |-> r.msg, to |-> u]
            BY <3>1, Zenon DEF Ahead
        <3>3. CASE i > k
            BY <3>2, <3>3, Zenon DEF Ahead
        <3>4. CASE i <= k
            <4>1. Through(log["retry"][i], k)
                BY <3>4 DEF Clear, Horizon
            <4>2. /\ log["retry"][i].msg = r.msg /\ log["retry"][i].to = u
                  /\ u # NoUser
                BY <3>2 DEF PushAssumption
            <4>3. u \in Recipients(log["retry"][i])
                BY <4>2, Zenon DEF Recipients
            <4> QED
                BY <1>2, <2>1, <4>1, <4>2, <4>3, Zenon DEF Through
        <3> QED
            BY <3>3, <3>4 DEF PushTypeOK, Topics
    <2> QED
        BY <1>2, <2>1, Zenon DEF Through
<1> QED
    BY <1>1, <1>2, Zenon

\* The recipients of a record of a topic are users.
LEMMA RecipientsAreUsers ==
    ASSUME PushTypeOK, NEW p \in Topics, NEW i \in 1..Len(log[p])
    PROVE  /\ log[p][i] \in TopicRecord
           /\ \A u \in Recipients(log[p][i]) : u \in Users
<1>1. log[p][i] \in TopicRecord
    BY DEF PushTypeOK
<1> QED
    BY <1>1, Zenon DEF PushTypeOK, Recipients, TopicRecord

\* A prefix grows by its next record, once that is settled.
LEMMA ClearNext ==
    ASSUME PushTypeOK, PushAssumption, NEW p \in Topics, NEW n \in Nat, n < Len(log[p]),
           Clear(p, n), Through(log[p][n + 1], Horizon(p, n + 1))
    PROVE  Clear(p, n + 1)
<1> SUFFICES ASSUME NEW i \in 1..(n + 1) PROVE Through(log[p][i], Horizon(p, n + 1))
    BY Zenon DEF Clear
<1>1. CASE i = n + 1
    BY <1>1, Zenon
<1>2. CASE i \in 1..n /\ p # "retry"
    BY <1>2, Zenon DEF Clear, Horizon
<1>3. CASE i \in 1..n /\ p = "retry"
    <2>1. Through(log[p][i], n) /\ Through(log[p][n + 1], n + 1)
        BY <1>3, Zenon DEF Clear, Horizon
    <2>2. ASSUME log[p][i].msg \notin Malformed,
                 NEW u \in Recipients(log[p][i]), ~Dealt(log[p][i].msg, u)
          PROVE  Ahead(log[p][i].msg, u, n + 1)
        <3>1. Ahead(log[p][i].msg, u, n)
            BY <2>1, <2>2, Zenon DEF Through
        <3>2. PICK j \in 1..Len(log["retry"]) :
                  j > n /\ log["retry"][j] = [msg |-> log[p][i].msg, to |-> u]
            BY <3>1, Zenon DEF Ahead
        <3>3. CASE j > n + 1
            BY <3>2, <3>3, Zenon DEF Ahead
        <3>4. CASE j = n + 1
            <4>1. /\ log[p][n + 1].msg = log[p][i].msg /\ log[p][n + 1].to = u
                BY <1>3, <3>2, <3>4
            <4>2. log[p][n + 1].to # NoUser
                BY <1>3 DEF PushTypeOK, PushAssumption
            <4>3. u \in Recipients(log[p][n + 1])
                BY <4>1, <4>2, Zenon DEF Recipients
            <4> QED
                BY <2>1, <2>2, <4>1, <4>3, Zenon DEF Through
        <3> QED
            BY <3>2, <3>3, <3>4 DEF PushTypeOK, Topics
    <2> QED
        BY <1>3, <2>1, <2>2, Zenon DEF Through, Horizon
<1> QED
    BY <1>1, <1>2, <1>3

\* A settled record is settled in the sense of the properties.
LEMMA ThroughIsSettled ==
    ASSUME PushTypeOK, PushAssumption, CommitInv, NEW p \in Topics,
           NEW i \in 1..Len(log[p]), NEW h \in Nat, Through(log[p][i], h)
    PROVE  Settled(log[p][i])
<1>1. Through(log[p][i], committed["retry"])
    BY RecipientsAreUsers, ThroughLift, Zenon DEF CommitInv, PushTypeOK, Topics
<1> QED
    <2>1. DOMAIN log["retry"] = 1..Len(log["retry"])
        BY LogFacts DEF PushTypeOK
    <2> QED
        BY <1>1, <2>1, Zenon DEF Through, Settled, Kept, Dealt, Ahead

-----------------------------------------------------------------------------
(* The invariant says what the properties say                               *)

\* A committed prefix is clear, so its records are settled.
LEMMA CommittedFromInv ==
    ASSUME PushInv, PushAssumption
    PROVE  CommittedIsSettled
<1> SUFFICES ASSUME NEW p \in Topics, NEW i \in 1..committed[p] PROVE Settled(log[p][i])
    BY Zenon DEF CommittedIsSettled
<1>1. Through(log[p][i], Horizon(p, committed[p]))
    BY Zenon DEF PushInv, CommitInv, Clear
<1>2. Horizon(p, committed[p]) \in Nat /\ i \in 1..Len(log[p])
    BY DEF PushInv, PushTypeOK, Horizon
<1> QED
    BY <1>1, <1>2, ThroughIsSettled, Zenon DEF PushInv

\* What the owner of a partition has fetched is clear, but for the record in hand.
LEMMA HandledFromInv ==
    ASSUME PushInv, PushAssumption
    PROVE  HandledInOrder
<1> SUFFICES ASSUME NEW p \in Topics, NEW i \in 1..position[p], owner[p] # NoWorker,
                    ~Settled(log[p][i])
             PROVE  cur[owner[p]] = [p |-> p, off |-> i - 1] /\ pc[owner[p]] # "poll"
    BY Zenon DEF HandledInOrder
<1>1. PICK w \in Workers : owner[p] = w
    BY Zenon DEF PushInv, PushTypeOK
<1>2. i \in 1..Len(log[p]) /\ position[p] \in Nat
    BY DEF PushInv, PushTypeOK
<1>3. \A n \in Nat : i <= n => ~Clear(p, n)
    <2> SUFFICES ASSUME NEW n \in Nat, i <= n, Clear(p, n) PROVE FALSE
        BY Zenon
    <2>1. Through(log[p][i], Horizon(p, n)) /\ Horizon(p, n) \in Nat
        BY DEF Clear, Horizon
    <2> QED
        BY <1>2, <2>1, ThroughIsSettled, Zenon DEF PushInv
<1>4. pc[w] \in Busy /\ cur[w].p = p /\ cur[w].off + 1 = position[p]
    BY <1>1, <1>2, <1>3 DEF PushInv, PositionInv
<1>5. Clear(p, cur[w].off) /\ cur[w].off \in Nat
    BY <1>4, Zenon DEF PushInv, WorkerInv, HasRecord, PushTypeOK
<1>6. cur[w].off = i - 1
    BY <1>2, <1>3, <1>4, <1>5
<1>7. cur[w] = [p |-> p, off |-> i - 1]
    BY <1>4, <1>6, Zenon DEF PushInv, PushTypeOK
<1> QED
    BY <1>1, <1>4, <1>7, Zenon DEF Busy

\* Before the first record there is nothing to settle.
LEMMA PushInitially == PushAssumption /\ Init => PushInv
<1> SUFFICES ASSUME PushAssumption, Init PROVE PushInv
    BY Zenon
<1>1. PushTypeOK
    BY DEF Init, PushTypeOK, PushAssumption, Topics, Places, NoRecord, TopicRecord
<1>2. \A w \in Workers : WorkerInv(w)
    BY Zenon DEF Init, WorkerInv, HasRecord, FansOut, Busy, Fanning, InHand
<1>3. CommitInv
    BY DEF Init, CommitInv, Clear
<1>4. PositionInv
    BY Zenon DEF Init, PositionInv, PushAssumption
<1> QED
    BY <1>1, <1>2, <1>3, <1>4, Zenon DEF PushInv

-----------------------------------------------------------------------------
(* What a step leaves alone                                                 *)

Rests(v) ==
    /\ pc'[v] = pc[v] /\ cur'[v] = cur[v] /\ todo'[v] = todo[v]
    /\ user'[v] = user[v] /\ failed'[v] = failed[v]

\* The record in hand stays the same while the topics grow.
LEMMA SameRecord ==
    ASSUME PushTypeOK, Grows, NEW w \in Workers, HasRecord(w), pc[w] \in Busy,
           cur'[w] = cur[w]
    PROVE  /\ Cur(w)' = Cur(w) /\ CurHorizon(w)' = CurHorizon(w)
           /\ Cur(w) \in TopicRecord /\ CurHorizon(w) \in Nat
           /\ cur[w].p \in Topics /\ cur[w].off \in Nat
           /\ cur[w].off < Len(log[cur[w].p]) /\ Clear(cur[w].p, cur[w].off)
           /\ cur[w].off < Len(log'[cur[w].p])
<1>1. /\ cur[w].p \in Topics /\ cur[w].off \in Nat
      /\ cur[w].off < Len(log[cur[w].p]) /\ Clear(cur[w].p, cur[w].off)
    BY Zenon DEF PushTypeOK, HasRecord
<1>2. cur[w].off + 1 \in 1..Len(log[cur[w].p])
    BY <1>1 DEF PushTypeOK
<1>3. Cur(w)' = Cur(w)
    <2>1. log'[cur[w].p][cur[w].off + 1] = log[cur[w].p][cur[w].off + 1]
        BY <1>1, <1>2, Zenon DEF Grows
    <2> QED
        BY <2>1, Zenon DEF Cur
<1>4. Cur(w) \in TopicRecord
    BY <1>1, <1>2 DEF Cur, PushTypeOK
<1>5. cur[w].off < Len(log'[cur[w].p])
    BY <1>1 DEF Grows, PushTypeOK
<1>6. CurHorizon(w)' = CurHorizon(w) /\ CurHorizon(w) \in Nat
    BY <1>1 DEF CurHorizon, Horizon
<1> QED
    BY <1>1, <1>3, <1>4, <1>5, <1>6, Zenon

\* A busy worker's record.
LEMMA RecordFacts ==
    ASSUME PushInv, NEW w \in Workers, pc[w] \in Busy
    PROVE  /\ cur[w].p \in Topics /\ cur[w].off \in Nat
           /\ cur[w].off < Len(log[cur[w].p]) /\ cur[w].off <= Len(log[cur[w].p])
           /\ cur[w].off + 1 \in 1..Len(log[cur[w].p])
           /\ Clear(cur[w].p, cur[w].off)
           /\ Cur(w) \in TopicRecord
<1>1. /\ cur[w].p \in Topics /\ cur[w].off \in Nat
      /\ cur[w].off < Len(log[cur[w].p]) /\ Clear(cur[w].p, cur[w].off)
    BY Zenon DEF PushInv, PushTypeOK, WorkerInv, HasRecord
<1>2. cur[w].off + 1 \in 1..Len(log[cur[w].p]) /\ cur[w].off <= Len(log[cur[w].p])
    BY <1>1, LogFacts DEF PushInv
<1>3. Cur(w) \in TopicRecord
    BY <1>1, <1>2, RecipientsAreUsers, Zenon DEF Cur, PushInv
<1> QED
    BY <1>1, <1>2, <1>3, Zenon

\* While it dispatches, the retry records that count for it are to come.
LEMMA RecordInHand ==
    ASSUME PushInv, NEW w \in Workers, pc[w] \in Fanning
    PROVE  /\ Cur(w) \in TopicRecord /\ CurHorizon(w) \in Nat
           /\ cur[w].p = "retry" => CurHorizon(w) <= Len(log["retry"])
<1>1. pc[w] \in Busy
    BY Zenon DEF Fanning, Busy, Places
<1> QED
    BY <1>1, RecordFacts DEF CurHorizon, Horizon

\* So does the record itself, with the prefix before it.
LEMMA HasRecordKept ==
    ASSUME PushTypeOK, PushTypeOK', Grows, NEW w \in Workers, HasRecord(w), pc[w] \in Busy,
           cur'[w] = cur[w]
    PROVE  HasRecord(w)'
<1>1. PICK p \in Topics, n \in Nat : p = cur[w].p /\ n = cur[w].off
    BY SameRecord, Zenon
<1>2. n < Len(log[p]) /\ Clear(p, n) /\ n < Len(log'[p])
    BY <1>1, SameRecord, Zenon
<1>3. n <= Len(log[p])
    BY <1>2 DEF PushTypeOK
<1>4. Clear(p, n)'
    BY <1>2, <1>3, ClearGrows, Zenon
<1> QED
    BY <1>1, <1>2, <1>4, Zenon DEF HasRecord

\* A worker that does not move keeps its part of the invariant.
LEMMA RestingWorker ==
    ASSUME PushTypeOK, PushTypeOK', Grows, NEW w \in Workers, Rests(w), WorkerInv(w)
    PROVE  WorkerInv(w)'
<1>1. CASE pc[w] \notin Busy
    BY <1>1, Zenon DEF WorkerInv, Rests, HasRecord, FansOut, Busy, Fanning, InHand, Places, PushTypeOK
<1>2. CASE pc[w] \in Busy
    <2>1. HasRecord(w)'
        BY <1>2, HasRecordKept, Zenon DEF WorkerInv, Rests
    <2>2. /\ Cur(w)' = Cur(w) /\ CurHorizon(w)' = CurHorizon(w)
          /\ Cur(w) \in TopicRecord /\ CurHorizon(w) \in Nat
        BY <1>2, SameRecord, Zenon DEF WorkerInv, Rests
    <2>3. FansOut(w)'
        <3> SUFFICES ASSUME pc[w] \in Fanning PROVE FansOut(w)'
            BY Zenon DEF FansOut, Rests
        <3>1. PICK r \in TopicRecord, h \in Nat : r = Cur(w) /\ h = CurHorizon(w)
            BY <2>2, Zenon
        <3>2. \A u \in Recipients(r)' : u \in Recipients(r)
            BY Zenon DEF Recipients, Grows
        <3>3. r.msg \notin Malformed
            BY <3>1, Zenon DEF WorkerInv, FansOut
        <3>4. ASSUME ~failed[w], NEW u \in Recipients(r)'
              PROVE  \/ u \in todo[w]
                     \/ pc[w] \in InHand /\ u = user[w]
                     \/ Dealt(r.msg, u)' \/ Ahead(r.msg, u, h)'
            BY <3>1, <3>2, <3>4, DealtGrows, Zenon DEF WorkerInv, FansOut
        <3> QED
            BY <2>2, <3>1, <3>3, <3>4, Zenon DEF FansOut, Rests
    <2>4. pc[w] = "commit" => Through(Cur(w), CurHorizon(w))'
        <3> SUFFICES ASSUME pc[w] = "commit" PROVE Through(Cur(w), CurHorizon(w))'
            BY Zenon
        <3>1. PICK r \in TopicRecord, h \in Nat : r = Cur(w) /\ h = CurHorizon(w)
            BY <2>2, Zenon
        <3>2. Through(r, h)'
            BY <3>1, ThroughGrows, Zenon DEF WorkerInv
        <3> QED
            BY <2>2, <3>1, <3>2, Zenon
    <2> QED
        BY <2>1, <2>2, <2>3, <2>4, Zenon DEF WorkerInv, Rests
<1> QED
    BY <1>1, <1>2, Zenon

\* The committed prefixes stay clear while no offset is committed.
LEMMA CommitKept ==
    ASSUME PushTypeOK, PushTypeOK', Grows, CommitInv, UNCHANGED committed
    PROVE  CommitInv'
<1> SUFFICES ASSUME NEW p \in Topics PROVE Clear(p, committed[p])'
    BY Zenon DEF CommitInv
<1>1. PICK n \in Nat : n = committed[p]
    BY Zenon DEF PushTypeOK
<1>2. Clear(p, n)'
    BY <1>1, ClearGrows, Zenon DEF CommitInv, PushTypeOK
<1> QED
    BY <1>1, <1>2, Zenon

\* The worker keeps its record if it has one, and does not leave run()
Stays(v) ==
    /\ pc[v] # "off" => pc'[v] # "off"
    /\ pc[v] \in Busy => pc'[v] \in Busy /\ cur'[v] = cur[v]

\* The fetched prefixes stay clear while no one fetches or is given a partition.
LEMMA PositionKept ==
    ASSUME PushTypeOK, PushTypeOK', Grows, PositionInv, UNCHANGED position,
           \A p \in Topics : \A v \in Workers : owner'[p] = v => owner[p] = v /\ Stays(v)
    PROVE  PositionInv'
<1> SUFFICES ASSUME NEW p \in Topics, NEW v \in Workers, owner'[p] = v
             PROVE  /\ pc'[v] # "off"
                    /\ \/ Clear(p, position[p])'
                       \/ pc'[v] \in Busy /\ cur'[v].p = p /\ cur'[v].off + 1 = position[p]
    BY DEF PositionInv
<1>1. owner[p] = v /\ Stays(v)
    BY Zenon
<1>2. PICK n \in Nat : n = position[p]
    BY Zenon DEF PushTypeOK
<1>3. CASE Clear(p, n)
    <2>1. Clear(p, n)'
        BY <1>2, <1>3, ClearGrows, Zenon DEF PushTypeOK
    <2> QED
        BY <1>1, <1>2, <2>1 DEF PositionInv, Stays
<1>4. CASE ~Clear(p, n)
    BY <1>1, <1>2, <1>4 DEF PositionInv, Stays
<1> QED
    BY <1>3, <1>4, Zenon

\* Workers that rest, or move within their record, leave the offsets as they are.
LEMMA QuietStep ==
    ASSUME PushInv, PushTypeOK', Grows, UNCHANGED <<committed, position>>,
           \A v \in Workers : WorkerInv(v)',
           \A p \in Topics : \A v \in Workers : owner'[p] = v => owner[p] = v /\ Stays(v)
    PROVE  PushInv'
<1>1. CommitInv'
    BY CommitKept, Zenon DEF PushInv
<1>2. PositionInv'
    BY PositionKept, Zenon DEF PushInv
<1> QED
    BY <1>1, <1>2, Zenon DEF PushInv

\* A step of one worker on its record, all other workers resting.
LEMMA BusyStep ==
    ASSUME PushInv, PushTypeOK', Grows, UNCHANGED <<committed, position, owner>>,
           NEW w \in Workers, \A v \in Workers : v # w => Rests(v),
           pc[w] \in Busy, pc'[w] \in Busy, cur'[w] = cur[w],
           HasRecord(w)' => WorkerInv(w)'
    PROVE  PushInv'
<1>1. HasRecord(w)'
    BY HasRecordKept, Zenon DEF PushInv, WorkerInv
<1>2. \A v \in Workers : WorkerInv(v)'
    BY <1>1, RestingWorker, Zenon DEF PushInv
<1>3. \A v \in Workers : Stays(v)
    BY Zenon DEF Stays, Rests, Busy
<1> QED
    BY <1>2, <1>3, QuietStep, Zenon

\* A step of the dispatch: a recipient that was to do or in hand is still so, or is
\* dealt with, or a dispatch has failed.
LEMMA FanStep ==
    ASSUME PushInv, PushTypeOK', Grows, UNCHANGED <<committed, position, owner>>,
           NEW w \in Workers, \A v \in Workers : v # w => Rests(v),
           pc[w] \in Fanning, pc'[w] \in Fanning, cur'[w] = cur[w],
           pc'[w] \in InHand \cup {"save"} => user'[w] \in Users,
           NEW r \in TopicRecord, r = Cur(w), NEW h \in Nat, h = CurHorizon(w),
           ~failed'[w] => ~failed[w],
           ~failed'[w] =>
               \A u \in Users :
                   u \in todo[w] \/ (pc[w] \in InHand /\ u = user[w]) =>
                       \/ u \in todo'[w]
                       \/ pc'[w] \in InHand /\ u = user'[w]
                       \/ Dealt(r.msg, u)' \/ Ahead(r.msg, u, h)'
    PROVE  PushInv'
<1>1. pc[w] \in Busy /\ pc'[w] \in Busy
    BY Zenon DEF Fanning, Busy, Places
<1>2. WorkerInv(w)
    BY Zenon DEF PushInv
<1>3. Cur(w)' = r /\ CurHorizon(w)' = h
    BY <1>1, <1>2, SameRecord, Zenon DEF PushInv, WorkerInv
<1>4. r.msg \notin Malformed
    BY <1>2, Zenon DEF WorkerInv, FansOut
<1>5. ASSUME ~failed'[w], NEW u \in Recipients(r)'
      PROVE  \/ u \in todo'[w]
             \/ pc'[w] \in InHand /\ u = user'[w]
             \/ Dealt(r.msg, u)' \/ Ahead(r.msg, u, h)'
    <2>1. u \in Users /\ u \in Recipients(r)
        <3>1. u \in Recipients(r)
            BY Zenon DEF Recipients, Grows
        <3>2. cur[w].p \in Topics /\ cur[w].off + 1 \in 1..Len(log[cur[w].p])
            BY <1>1, RecordFacts, Zenon
        <3> QED
            BY <3>1, <3>2, RecipientsAreUsers, Zenon DEF PushInv, Cur
    <2>2. \/ u \in todo[w] \/ (pc[w] \in InHand /\ u = user[w])
          \/ Dealt(r.msg, u) \/ Ahead(r.msg, u, h)
        BY <1>2, <1>5, <2>1, Zenon DEF WorkerInv, FansOut
    <2>3. Dealt(r.msg, u) \/ Ahead(r.msg, u, h) => Dealt(r.msg, u)' \/ Ahead(r.msg, u, h)'
        BY DealtGrows, Zenon DEF PushInv
    <2> QED
        BY <1>5, <2>1, <2>2, <2>3, Zenon
<1>6. FansOut(w)'
    BY <1>3, <1>4, <1>5, Zenon DEF FansOut
<1>7. HasRecord(w)' => WorkerInv(w)'
    BY <1>6, Zenon DEF WorkerInv, Fanning
<1> QED
    BY <1>1, <1>7, BusyStep, Zenon

-----------------------------------------------------------------------------
(* The steps around the workers                                             *)

\* A record is appended to a topic.
LEMMA AppendFacts ==
    ASSUME PushTypeOK, NEW p \in Topics, NEW r \in TopicRecord,
           log' = [log EXCEPT ![p] = Append(@, r)]
    PROVE  /\ log' \in [Topics -> Seq(TopicRecord)]
           /\ Len(log'[p]) = Len(log[p]) + 1 /\ log'[p][Len(log[p]) + 1] = r
           /\ \A q \in Topics : /\ Len(log[q]) <= Len(log'[q])
                                /\ \A i \in 1..Len(log[q]) : log'[q][i] = log[q][i]
           /\ \A q \in Topics : q # p => log'[q] = log[q]
<1>1. log[p] \in Seq(TopicRecord) /\ log'[p] = Append(log[p], r)
    BY Zenon DEF PushTypeOK
<1>2. /\ log'[p] \in Seq(TopicRecord) /\ Len(log'[p]) = Len(log[p]) + 1
      /\ log'[p][Len(log[p]) + 1] = r
      /\ \A i \in 1..Len(log[p]) : log'[p][i] = log[p][i]
    BY <1>1
<1>3. \A q \in Topics : q # p => log'[q] = log[q]
    BY Zenon DEF PushTypeOK
<1>4. \A q \in Topics : log'[q] \in Seq(TopicRecord) /\ Len(log[q]) \in Nat
    BY <1>2, <1>3 DEF PushTypeOK
<1>5. log' \in [Topics -> Seq(TopicRecord)]
    BY <1>4, Zenon DEF PushTypeOK
<1>6. \A q \in Topics : /\ Len(log[q]) <= Len(log'[q])
                        /\ \A i \in 1..Len(log[q]) : log'[q][i] = log[q][i]
    BY <1>2, <1>3, <1>4
<1> QED
    BY <1>2, <1>3, <1>5, <1>6

\* Nothing is appended.
LEMMA SameLogGrows ==
    ASSUME PushTypeOK, UNCHANGED log, dlq \subseteq dlq', delivered \subseteq delivered',
           offline \subseteq offline', members' \subseteq members
    PROVE  Grows
<1>1. \A p \in Topics : Len(log[p]) \in Nat
    BY DEF PushTypeOK
<1> QED
    BY <1>1 DEF Grows

\* Publishing a message appends its record to the topic of its kind.
LEMMA PublishStep ==
    ASSUME PushAssumption, PushInv, NEW m \in Messages, publish(m)
    PROVE  PushInv'
<1>1. PICK p \in Topics, r \in TopicRecord :
          p # "retry" /\ log' = [log EXCEPT ![p] = Append(@, r)]
    <2>1. [msg |-> m, to |-> To[m]] \in TopicRecord
        BY Zenon DEF PushAssumption, TopicRecord
    <2> QED
        BY <2>1, Zenon DEF publish, Topics
<1>2. /\ UNCHANGED <<dlq, committed, position, owner, pc, cur, todo, user, failed, members>>
      /\ UNCHANGED <<delivered, offline>>
    BY Zenon DEF publish, locals, stores
<1>3. Grows
    BY <1>1, <1>2, AppendFacts, Zenon DEF Grows, PushInv
<1>4. PushTypeOK'
    <2>1. log' \in [Topics -> Seq(TopicRecord)] /\ log'["retry"] = log["retry"]
        BY <1>1, AppendFacts, Zenon DEF PushInv, Topics
    <2>2. \A q \in Topics : committed[q] <= Len(log'[q]) /\ position[q] <= Len(log'[q])
        <3>1. \A q \in Topics : Len(log'[q]) \in Nat
            BY <2>1
        <3> QED
            BY <1>3, <3>1, LogFacts DEF Grows, PushInv
    <2> QED
        BY <1>2, <2>1, <2>2, Zenon DEF PushInv, PushTypeOK
<1>5. \A v \in Workers : Rests(v) /\ Stays(v)
    BY <1>2, Zenon DEF Rests, Stays
<1>6. \A v \in Workers : WorkerInv(v)'
    BY <1>3, <1>4, <1>5, RestingWorker, Zenon DEF PushInv
<1> QED
    BY <1>2, <1>3, <1>4, <1>5, <1>6, QuietStep, Zenon

\* A member leaves, or a partition is taken from its worker.
LEMMA LosingStep ==
    ASSUME PushAssumption, PushInv,
           \/ \E u \in Users : leaveGroup(u)
           \/ \E p \in Topics : revoke(p) \/ expel(p)
    PROVE  PushInv'
<1>1. /\ UNCHANGED <<log, dlq, committed, position, pc, cur, todo, user, failed>>
      /\ UNCHANGED <<delivered, offline>>
      /\ members' \subseteq members
    BY Zenon DEF leaveGroup, revoke, expel, kafka, locals, stores
<1>2. /\ owner' \in [Topics -> Workers \cup {NoWorker}]
      /\ \A p \in Topics : \A v \in Workers : owner'[p] = v => owner[p] = v
    BY Zenon DEF PushInv, PushTypeOK, PushAssumption, leaveGroup, revoke, expel, kafka
<1>3. Grows
    BY <1>1, SameLogGrows, Zenon DEF PushInv
<1>4. PushTypeOK'
    BY <1>1, <1>2, Zenon DEF PushInv, PushTypeOK
<1>5. \A v \in Workers : Rests(v) /\ Stays(v)
    BY <1>1, Zenon DEF Rests, Stays
<1>6. \A v \in Workers : WorkerInv(v)'
    BY <1>3, <1>4, <1>5, RestingWorker, Zenon DEF PushInv
<1> QED
    BY <1>1, <1>2, <1>3, <1>4, <1>5, <1>6, QuietStep, Zenon

\* A worker that is given a partition starts from the committed offset.
LEMMA AssignStep ==
    ASSUME PushAssumption, PushInv, NEW p \in Topics, NEW w \in Workers, assign(p, w)
    PROVE  PushInv'
<1>1. /\ UNCHANGED <<log, dlq, committed, pc, cur, todo, user, failed, members>>
      /\ UNCHANGED <<delivered, offline>>
    BY Zenon DEF assign, locals, stores
<1>2. Grows
    BY <1>1, SameLogGrows, Zenon DEF PushInv
<1>3. PushTypeOK'
    BY <1>1, Zenon DEF PushInv, PushTypeOK, assign
<1>4. \A v \in Workers : Rests(v)
    BY <1>1, Zenon DEF Rests
<1>5. \A v \in Workers : WorkerInv(v)'
    BY <1>2, <1>3, <1>4, RestingWorker, Zenon DEF PushInv
<1>6. CommitInv'
    BY <1>1, <1>2, <1>3, CommitKept, Zenon DEF PushInv
<1>7. PositionInv'
    <2> SUFFICES ASSUME NEW q \in Topics, NEW v \in Workers, owner'[q] = v
                 PROVE  /\ pc'[v] # "off"
                        /\ \/ Clear(q, position[q])'
                           \/ /\ pc'[v] \in Busy /\ cur'[v].p = q
                              /\ cur'[v].off + 1 = position'[q]
        BY DEF PositionInv
    <2>1. CASE q = p
        <3>1. position'[q] = committed'[q] /\ v = w /\ pc'[v] # "off"
            BY <1>1, <2>1, Zenon DEF assign, PushInv, PushTypeOK
        <3>2. Clear(q, committed[q])'
            BY <1>6, Zenon DEF CommitInv
        <3> QED
            BY <3>1, <3>2, Zenon
    <2>2. CASE q # p
        <3>1. position'[q] = position[q] /\ owner[q] = v
            BY <2>2, Zenon DEF assign, PushInv, PushTypeOK
        <3>2. PICK n \in Nat : n = position[q] /\ n <= Len(log[q])
            BY Zenon DEF PushInv, PushTypeOK
        <3>3. Clear(q, n) => Clear(q, n)'
            BY <1>2, <1>3, <3>2, ClearGrows, Zenon DEF PushInv
        <3> QED
            BY <1>1, <3>1, <3>2, <3>3, Zenon DEF PushInv, PositionInv
    <2> QED
        BY <2>1, <2>2, Zenon
<1> QED
    BY <1>3, <1>5, <1>6, <1>7, Zenon DEF PushInv

\* A worker starts, is told to stop, or dies with its partitions given up.
LEMMA LifeStep ==
    ASSUME PushAssumption, PushInv, NEW w \in Workers, start(w) \/ stop(w) \/ crash(w)
    PROVE  PushInv'
<1>1. /\ UNCHANGED <<log, dlq, committed, position, cur, todo, user, failed, members>>
      /\ UNCHANGED <<delivered, offline>>
    BY Zenon DEF start, stop, crash, kafka, locals, stores
<1>2. /\ owner' \in [Topics -> Workers \cup {NoWorker}]
      /\ \A p \in Topics : \A v \in Workers : owner'[p] = v => owner[p] = v
    BY Zenon DEF PushInv, PushTypeOK, PushAssumption, start, stop, crash, Release, kafka
<1>3. /\ pc' \in [Workers -> Places]
      /\ \A v \in Workers : v # w => pc'[v] = pc[v]
      /\ pc'[w] # pc[w] => pc'[w] \in {"off", "poll"}
    BY Zenon DEF PushInv, PushTypeOK, start, stop, crash, Goto, Places
<1>4. \A p \in Topics : \A v \in Workers : owner'[p] = v => Stays(v)
    <2>1. \A p \in Topics : owner[p] = w => pc[w] # "off"
        BY Zenon DEF PushInv, PositionInv
    <2>2. CASE start(w)
        BY <1>1, <2>2, Zenon DEF start, Goto, Stays, Busy, PushInv, PushTypeOK
    <2>3. CASE stop(w)
        BY <1>1, <2>3, Zenon DEF stop, Stays
    <2>4. CASE crash(w)
        BY <1>1, <1>3, <2>4, PushAssumption, Zenon DEF crash, Release, Stays, PushAssumption
    <2> QED
        BY <2>2, <2>3, <2>4, Zenon
<1>5. Grows
    BY <1>1, SameLogGrows, Zenon DEF PushInv
<1>6. PushTypeOK'
    BY <1>1, <1>2, <1>3, Zenon DEF PushInv, PushTypeOK
<1>7. ASSUME NEW v \in Workers PROVE WorkerInv(v)'
    <2>1. CASE pc'[v] = pc[v]
        BY <1>1, <1>5, <1>6, <2>1, RestingWorker, Zenon DEF PushInv, Rests
    <2>2. CASE pc'[v] # pc[v]
        <3>1. pc'[v] \in {"off", "poll"}
            BY <1>3, <2>2, Zenon
        <3> QED
            BY <3>1, Zenon DEF WorkerInv, HasRecord, FansOut, Busy, Fanning, InHand
    <2> QED
        BY <2>1, <2>2, Zenon
<1> QED
    BY <1>1, <1>2, <1>4, <1>5, <1>6, <1>7, QuietStep, Zenon

-----------------------------------------------------------------------------
(* The steps of a worker on its record                                      *)

\* A worker starts on a record: its recipients are to do, or it is malformed.
LEMMA HandleStep ==
    ASSUME PushAssumption, PushInv, NEW w \in Workers, handle(w)
    PROVE  PushInv'
<1>1. /\ UNCHANGED <<log, dlq, committed, position, owner, cur, user, members>>
      /\ UNCHANGED <<delivered, offline>>
    BY Zenon DEF handle, kafka, stores
<1>2. /\ pc[w] = "handle" /\ pc[w] \in Busy
      /\ pc'[w] \in {"reject", "fanout"} /\ pc'[w] \in Busy
      /\ \A v \in Workers : v # w => Rests(v)
    BY <1>1 DEF handle, Goto, Rests, PushInv, PushTypeOK, Busy, Places
<1>3. Grows
    BY <1>1, SameLogGrows, Zenon DEF PushInv
<1>4. cur[w].p \in Topics /\ cur[w].off + 1 \in 1..Len(log[cur[w].p]) /\ Cur(w) \in TopicRecord
    BY <1>2, RecordFacts, Zenon
<1>5. /\ pc'[w] = "reject" => Cur(w).msg \in Malformed
      /\ pc'[w] = "fanout" => Cur(w).msg \notin Malformed /\ todo'[w] = Recipients(Cur(w))
    BY Zenon DEF handle, Goto, Recipients, PushInv, PushTypeOK
<1>6. \A u \in Recipients(Cur(w)) : u \in Users
    BY <1>4, RecipientsAreUsers, Zenon DEF PushInv, Cur
<1>7. PushTypeOK'
    <2>1. pc' \in [Workers -> Places] /\ failed' \in [Workers -> BOOLEAN]
        BY Zenon DEF handle, Goto, Places, PushInv, PushTypeOK
    <2>2. todo' \in [Workers -> SUBSET Users]
        <3>1. CASE UNCHANGED todo
            BY <3>1, Zenon DEF PushInv, PushTypeOK
        <3>2. CASE todo' = [todo EXCEPT ![w] = Recipients(Cur(w))]
            BY <1>6, <3>2, Zenon DEF PushInv, PushTypeOK
        <3> QED
            BY <3>1, <3>2, Zenon DEF handle, Recipients
    <2> QED
        BY <1>1, <2>1, <2>2, Zenon DEF PushInv, PushTypeOK
<1>8. Cur(w)' = Cur(w)
    BY <1>1 DEF Cur
<1>9. FansOut(w)'
    <2>1. Recipients(Cur(w))' = Recipients(Cur(w))
        BY <1>1, <1>8, Zenon DEF Recipients
    <2> QED
        BY <1>2, <1>5, <1>8, <2>1, Zenon DEF FansOut, Fanning
<1>10. HasRecord(w)' => WorkerInv(w)'
    BY <1>2, <1>5, <1>8, <1>9, Zenon DEF WorkerInv, InHand
<1> QED
    BY <1>1, <1>2, <1>3, <1>7, <1>10, BusyStep, Zenon

\* The record is given up for now: the worker is about to rewind or has stopped.
LEMMA GiveUpStep ==
    ASSUME PushInv, PushTypeOK', Grows, UNCHANGED <<committed, position, owner>>,
           NEW w \in Workers, \A v \in Workers : v # w => Rests(v),
           pc[w] \in Busy, pc'[w] \in {"rewind", "stopped"}, cur'[w] = cur[w]
    PROVE  PushInv'
<1>1. pc'[w] \in Busy
    BY Zenon DEF Busy, Places
<1>2. HasRecord(w)' => WorkerInv(w)'
    BY Zenon DEF WorkerInv, FansOut, Fanning, InHand
<1> QED
    BY <1>1, <1>2, BusyStep, Zenon

\* The members cannot be listed.
LEMMA UnavailableStep ==
    ASSUME PushInv, NEW w \in Workers, membersUnavailable(w)
    PROVE  PushInv'
<1>1. /\ UNCHANGED <<log, dlq, committed, position, owner, cur, todo, user, failed, members>>
      /\ UNCHANGED <<delivered, offline>>
    BY Zenon DEF membersUnavailable, kafka, locals, stores
<1>2. /\ pc[w] \in Busy /\ pc'[w] = "rewind" /\ pc' \in [Workers -> Places]
      /\ \A v \in Workers : v # w => Rests(v)
    BY <1>1, Zenon DEF membersUnavailable, Goto, Rests, PushInv, PushTypeOK, Busy, Places
<1>3. Grows
    BY <1>1, SameLogGrows, Zenon DEF PushInv
<1>4. PushTypeOK'
    BY <1>1, <1>2, Zenon DEF PushInv, PushTypeOK
<1> QED
    BY <1>1, <1>2, <1>3, <1>4, GiveUpStep, Zenon

\* A malformed record goes to the dead-letter topic before it is committed.
LEMMA RejectStep ==
    ASSUME PushInv, NEW w \in Workers, reject(w)
    PROVE  PushInv'
<1>1. /\ UNCHANGED <<log, committed, position, owner, cur, todo, user, failed, members>>
      /\ UNCHANGED <<delivered, offline>> /\ dlq \subseteq dlq'
    BY Zenon DEF reject, locals, stores
<1>2. /\ pc[w] = "reject" /\ pc[w] \in Busy /\ pc' \in [Workers -> Places]
      /\ \A v \in Workers : v # w => Rests(v)
      /\ \/ pc'[w] = "commit" /\ Cur(w) \in dlq'
         \/ pc'[w] = "rewind"
    BY <1>1, Zenon DEF reject, Goto, Rests, PushInv, PushTypeOK, Busy, Places
<1>3. Grows
    BY <1>1, SameLogGrows, Zenon DEF PushInv
<1>4. PushTypeOK'
    BY <1>1, <1>2, Zenon DEF PushInv, PushTypeOK
<1>5. CASE pc'[w] = "rewind"
    BY <1>1, <1>2, <1>3, <1>4, <1>5, GiveUpStep, Zenon
<1>6. CASE pc'[w] = "commit" /\ Cur(w) \in dlq'
    <2>1. Cur(w)' = Cur(w) /\ Cur(w).msg \in Malformed
        BY <1>1, <1>2, Zenon DEF Cur, PushInv, WorkerInv
    <2>2. Through(Cur(w), CurHorizon(w))'
        BY <1>6, <2>1, Zenon DEF Through
    <2>3. HasRecord(w)' => WorkerInv(w)'
        BY <1>6, <2>2, Zenon DEF WorkerInv, FansOut, Fanning, InHand
    <2>4. pc'[w] \in Busy
        BY <1>6, Zenon DEF Busy, Places
    <2> QED
        BY <1>1, <1>2, <1>3, <1>4, <2>3, <2>4, BusyStep, Zenon
<1> QED
    BY <1>2, <1>5, <1>6, Zenon

\* All recipients are done: without a failure the record is settled.
LEMMA DispatchedStep ==
    ASSUME PushInv, NEW w \in Workers, dispatched(w)
    PROVE  PushInv'
<1>1. /\ UNCHANGED <<log, dlq, committed, position, owner, cur, todo, user, failed, members>>
      /\ UNCHANGED <<delivered, offline>>
    BY Zenon DEF dispatched, kafka, locals, stores
<1>2. /\ pc[w] = "fanout" /\ pc[w] \in Busy /\ pc' \in [Workers -> Places]
      /\ \A v \in Workers : v # w => Rests(v)
      /\ pc'[w] = IF failed[w] THEN "rewind" ELSE "commit"
    BY <1>1, Zenon DEF dispatched, Goto, Rests, PushInv, PushTypeOK, Busy, Places
<1>3. Grows
    BY <1>1, SameLogGrows, Zenon DEF PushInv
<1>4. PushTypeOK'
    BY <1>1, <1>2, Zenon DEF PushInv, PushTypeOK
<1>5. CASE failed[w]
    BY <1>1, <1>2, <1>3, <1>4, <1>5, GiveUpStep, Zenon
<1>6. CASE ~failed[w]
    <2>1. Through(Cur(w), CurHorizon(w))
        BY <1>2, <1>6, Zenon DEF Through, PushInv, WorkerInv, FansOut, Fanning, InHand, dispatched
    <2>2. Through(Cur(w), CurHorizon(w))'
        <3>1. PICK r \in TopicRecord, h \in Nat : r = Cur(w) /\ h = CurHorizon(w)
            BY <1>2, RecordInHand, Zenon DEF Fanning
        <3>2. Through(r, h)'
            BY <1>3, <1>4, <2>1, <3>1, ThroughGrows DEF PushInv
        <3>3. Cur(w)' = r /\ CurHorizon(w)' = h
            BY <1>1, <3>1, Zenon DEF Cur, CurHorizon, Horizon
        <3> QED
            BY <3>2, <3>3, Zenon
    <2>3. HasRecord(w)' => WorkerInv(w)'
        BY <1>2, <1>6, <2>2, Zenon DEF WorkerInv, FansOut, Fanning, InHand
    <2>4. pc'[w] \in Busy
        BY <1>2, <1>6, Zenon DEF Busy, Places
    <2> QED
        BY <1>1, <1>2, <1>3, <1>4, <2>3, <2>4, BusyStep, Zenon
<1> QED
    BY <1>5, <1>6, Zenon

-----------------------------------------------------------------------------
(* PushDispatcher: one recipient at a time                                  *)

\* A device took the message.
LEMMA DeliverOnlineStep ==
    ASSUME PushInv, NEW w \in Workers, deliverOnline(w)
    PROVE  PushInv'
<1>1. PICK u \in todo[w] :
          /\ todo' = [todo EXCEPT ![w] = @ \ {u}]
          /\ delivered' = delivered \cup {<<Cur(w).msg, u>>}
    BY Zenon DEF deliverOnline
<1>2. /\ UNCHANGED <<log, dlq, committed, position, owner, pc, cur, user, failed, members>>
      /\ UNCHANGED offline
    BY Zenon DEF deliverOnline, kafka
<1>3. /\ pc[w] = "fanout" /\ pc[w] \in Fanning /\ pc'[w] \in Fanning
      /\ \A v \in Workers : v # w => Rests(v)
    BY <1>1, <1>2, Zenon DEF deliverOnline, Rests, PushInv, PushTypeOK, Fanning
<1>4. Grows
    BY <1>1, <1>2, SameLogGrows, Zenon DEF PushInv
<1>5. PushTypeOK'
    BY <1>1, <1>2, Zenon DEF PushInv, PushTypeOK
<1>6. PICK r \in TopicRecord, h \in Nat : r = Cur(w) /\ h = CurHorizon(w)
    BY <1>3, RecordInHand, Zenon
<1>7. \A x \in Users : x \in todo[w] => x \in todo'[w] \/ Dealt(r.msg, x)'
    BY <1>1, <1>6, Zenon DEF Dealt, PushInv, PushTypeOK
<1> QED
    BY <1>2, <1>3, <1>4, <1>5, <1>6, <1>7, FanStep, Zenon DEF InHand

\* No device took it: the recipient is in hand.
LEMMA DeliverFailedStep ==
    ASSUME PushInv, NEW w \in Workers, deliverFailed(w)
    PROVE  PushInv'
<1>1. PICK u \in todo[w] :
          /\ todo' = [todo EXCEPT ![w] = @ \ {u}]
          /\ user' = [user EXCEPT ![w] = u]
          /\ delivered \subseteq delivered'
    BY Zenon DEF deliverFailed
<1>2. /\ UNCHANGED <<log, dlq, committed, position, owner, cur, failed, members>>
      /\ UNCHANGED offline
    BY Zenon DEF deliverFailed, kafka
<1>3. /\ pc[w] = "fanout" /\ pc[w] \in Fanning
      /\ pc'[w] = "incr" /\ pc'[w] \in Fanning /\ pc' \in [Workers -> Places]
      /\ \A v \in Workers : v # w => Rests(v)
    BY <1>1, <1>2 DEF deliverFailed, Goto, Rests, PushInv, PushTypeOK, Fanning, Places
<1>4. Grows
    BY <1>1, <1>2, SameLogGrows, Zenon DEF PushInv
<1>5. u \in Users
    BY Zenon DEF PushInv, PushTypeOK
<1>6. PushTypeOK'
    BY <1>1, <1>2, <1>3, <1>5, Zenon DEF PushInv, PushTypeOK
<1>7. PICK r \in TopicRecord, h \in Nat : r = Cur(w) /\ h = CurHorizon(w)
    BY <1>3, RecordInHand
<1>8. /\ user'[w] \in Users
      /\ \A x \in Users : x \in todo[w] => x \in todo'[w] \/ (pc'[w] \in InHand /\ x = user'[w])
    <2>1. user'[w] = u /\ todo'[w] = todo[w] \ {u}
        BY <1>1, Zenon DEF PushInv, PushTypeOK
    <2> QED
        BY <1>3, <1>5, <2>1, Zenon DEF InHand
<1> QED
    BY <1>2, <1>3, <1>4, <1>6, <1>7, <1>8, FanStep, Zenon DEF InHand

\* The message is kept offline, or the dispatch has failed.
LEMMA SaveOfflineStep ==
    ASSUME PushInv, NEW w \in Workers, saveOffline(w)
    PROVE  PushInv'
<1>1. PICK u \in todo[w] :
          /\ todo' = [todo EXCEPT ![w] = @ \ {u}]
          /\ \/ offline' = offline \cup {<<Cur(w).msg, u>>} /\ UNCHANGED failed
             \/ failed' = [failed EXCEPT ![w] = TRUE] /\ UNCHANGED offline
    BY Zenon DEF saveOffline
<1>2. /\ UNCHANGED <<log, dlq, committed, position, owner, pc, cur, user, members>>
      /\ UNCHANGED delivered
    BY Zenon DEF saveOffline, kafka
<1>3. /\ pc[w] = "fanout" /\ pc[w] \in Fanning /\ pc'[w] \in Fanning
      /\ \A v \in Workers : v # w => Rests(v)
    BY <1>1, <1>2, Zenon DEF saveOffline, Rests, PushInv, PushTypeOK, Fanning
<1>4. Grows
    BY <1>1, <1>2, SameLogGrows, Zenon DEF PushInv
<1>5. PushTypeOK'
    BY <1>1, <1>2, Zenon DEF PushInv, PushTypeOK
<1>6. PICK r \in TopicRecord, h \in Nat : r = Cur(w) /\ h = CurHorizon(w)
    BY <1>3, RecordInHand, Zenon
<1>7. /\ ~failed'[w] => ~failed[w]
      /\ ~failed'[w] => \A x \in Users : x \in todo[w] => x \in todo'[w] \/ Dealt(r.msg, x)'
    BY <1>1, <1>6, Zenon DEF Dealt, PushInv, PushTypeOK
<1> QED
    BY <1>2, <1>3, <1>4, <1>5, <1>6, <1>7, FanStep, Zenon DEF InHand

\* The failure is counted; the recipient stays in hand.
LEMMA IncreaseStep ==
    ASSUME PushInv, NEW w \in Workers, increaseRetryCount(w)
    PROVE  PushInv'
<1>1. /\ UNCHANGED <<log, dlq, committed, position, owner, cur, todo, user, failed, members>>
      /\ UNCHANGED <<delivered, offline>>
    BY Zenon DEF increaseRetryCount, kafka, locals
<1>2. /\ pc[w] = "incr" /\ pc'[w] \in {"retry", "dlq"} /\ pc' \in [Workers -> Places]
      /\ \A v \in Workers : v # w => Rests(v)
    BY <1>1, Zenon DEF increaseRetryCount, Goto, Rests, PushInv, PushTypeOK, Places
<1>3. /\ pc[w] \in Fanning /\ pc'[w] \in Fanning /\ pc[w] \in InHand /\ pc'[w] \in InHand
    BY <1>2, Zenon DEF Fanning, InHand
<1>4. Grows
    BY <1>1, SameLogGrows, Zenon DEF PushInv
<1>5. PushTypeOK'
    BY <1>1, <1>2, Zenon DEF PushInv, PushTypeOK
<1>6. PICK r \in TopicRecord, h \in Nat : r = Cur(w) /\ h = CurHorizon(w)
    BY <1>3, RecordInHand, Zenon
<1>7. user'[w] \in Users
    BY <1>1, <1>3, Zenon DEF PushInv, WorkerInv
<1> QED
    BY <1>1, <1>2, <1>3, <1>4, <1>5, <1>6, <1>7, FanStep, Zenon

\* The retry record comes after every record that is consumed, so it keeps the message.
LEMMA RetryStep ==
    ASSUME PushAssumption, PushInv, NEW w \in Workers, sendToRetryTopic(w)
    PROVE  PushInv'
<1>1. /\ UNCHANGED <<dlq, committed, position, owner, cur, todo, user, members>>
      /\ UNCHANGED <<delivered, offline>>
    BY Zenon DEF sendToRetryTopic, stores
<1>2. /\ pc[w] = "retry" /\ pc'[w] = "fanout" /\ pc' \in [Workers -> Places]
      /\ pc[w] \in Fanning /\ pc'[w] \in Fanning /\ pc[w] \in InHand
      /\ failed' \in [Workers -> BOOLEAN]
      /\ \A v \in Workers : v # w => Rests(v)
    BY <1>1, Zenon DEF sendToRetryTopic, Goto, Rests, PushInv, PushTypeOK, Fanning, InHand, Places
<1>3. PICK r \in TopicRecord, h \in Nat : r = Cur(w) /\ h = CurHorizon(w)
    BY <1>2, RecordInHand, Zenon
<1>4. Scoped(w) = [msg |-> r.msg, to |-> user[w]] /\ Scoped(w) \in TopicRecord
      /\ user[w] \in Users
    BY <1>2, <1>3, Zenon DEF Scoped, TopicRecord, PushInv, WorkerInv
<1>5. ASSUME UNCHANGED log
      PROVE  PushTypeOK' /\ Grows
    BY <1>1, <1>2, <1>5, SameLogGrows, Zenon DEF PushInv, PushTypeOK
<1>6. ASSUME log' = [log EXCEPT !["retry"] = Append(@, Scoped(w))]
      PROVE  PushTypeOK' /\ Grows /\ Ahead(r.msg, user[w], h)'
    <2>1. /\ log' \in [Topics -> Seq(TopicRecord)]
          /\ Len(log'["retry"]) = Len(log["retry"]) + 1
          /\ log'["retry"][Len(log["retry"]) + 1] = Scoped(w)
          /\ \A q \in Topics : /\ Len(log[q]) <= Len(log'[q])
                               /\ \A i \in 1..Len(log[q]) : log'[q][i] = log[q][i]
        BY <1>4, <1>6, AppendFacts, Zenon DEF PushInv, Topics
    <2>2. Grows
        BY <1>1, <2>1, Zenon DEF Grows
    <2>3. \A i \in 1..Len(log'["retry"]) : log'["retry"][i].to \in Users
        <3>1. Len(log["retry"]) \in Nat /\ Scoped(w).to \in Users
            BY <1>4 DEF PushInv, PushTypeOK, Topics
        <3>2. \A i \in 1..Len(log["retry"]) : log'["retry"][i].to \in Users
            BY <2>1, Zenon DEF PushInv, PushTypeOK, Topics
        <3> QED
            BY <2>1, <3>1, <3>2
    <2>4. \A q \in Topics : committed[q] <= Len(log'[q]) /\ position[q] <= Len(log'[q])
        <3>1. \A q \in Topics : Len(log'[q]) \in Nat
            BY <2>1
        <3> QED
            BY <2>2, <3>1, LogFacts DEF Grows, PushInv
    <2>5. PushTypeOK'
        BY <1>1, <1>2, <2>1, <2>3, <2>4, Zenon DEF PushInv, PushTypeOK
    <2>6. h <= Len(log["retry"])
        <3>1. cur[w].p # "retry" => h = 0
            BY <1>3, Zenon DEF CurHorizon, Horizon
        <3> QED
            BY <1>2, <1>3, <3>1, RecordInHand, LogFacts DEF PushInv
    <2>7. Ahead(r.msg, user[w], h)'
        <3>1. PICK n \in Nat : n = Len(log["retry"]) + 1
            BY DEF PushInv, PushTypeOK, Topics
        <3>2. n \in 1..Len(log'["retry"]) /\ n > h
            BY <2>1, <2>6, <3>1, LogFacts DEF PushInv
        <3>3. log'["retry"][n] = [msg |-> r.msg, to |-> user'[w]]
            BY <1>1, <1>4, <2>1, <3>1, Zenon
        <3> QED
            BY <3>2, <3>3, Zenon DEF Ahead
    <2> QED
        BY <2>2, <2>5, <2>7, Zenon
<1>7. PushTypeOK' /\ Grows
    BY <1>5, <1>6, Zenon DEF sendToRetryTopic
<1>8. /\ ~failed'[w] => ~failed[w]
      /\ ~failed'[w] => log' = [log EXCEPT !["retry"] = Append(@, Scoped(w))]
    BY Zenon DEF sendToRetryTopic, PushInv, PushTypeOK
<1>9. ~failed'[w] => Ahead(r.msg, user[w], h)'
    BY <1>6, <1>8, Zenon
<1>10. pc'[w] \notin InHand \cup {"save"}
    BY <1>2 DEF InHand
<1>11. ~failed'[w] => \A u \in Users :
           u \in todo[w] \/ (pc[w] \in InHand /\ u = user[w]) =>
               \/ u \in todo'[w]
               \/ pc'[w] \in InHand /\ u = user'[w]
               \/ Dealt(r.msg, u)' \/ Ahead(r.msg, u, h)'
    BY <1>1, <1>9, Zenon
<1> QED
    BY <1>1, <1>2, <1>3, <1>7, <1>8, <1>10, <1>11, FanStep, Zenon

\* The dead letter keeps the message, or the dispatch has failed.
LEMMA DeadLetterStep ==
    ASSUME PushInv, NEW w \in Workers, sendToDlqTopic(w)
    PROVE  PushInv'
<1>1. /\ UNCHANGED <<log, committed, position, owner, cur, todo, user, members>>
      /\ UNCHANGED <<delivered, offline>> /\ dlq \subseteq dlq'
    BY Zenon DEF sendToDlqTopic, stores
<1>2. /\ pc[w] = "dlq" /\ pc'[w] = "save" /\ pc' \in [Workers -> Places]
      /\ pc[w] \in Fanning /\ pc'[w] \in Fanning /\ pc[w] \in InHand
      /\ failed' \in [Workers -> BOOLEAN]
      /\ \A v \in Workers : v # w => Rests(v)
    BY <1>1, Zenon DEF sendToDlqTopic, Goto, Rests, PushInv, PushTypeOK, Fanning, InHand, Places
<1>3. PICK r \in TopicRecord, h \in Nat : r = Cur(w) /\ h = CurHorizon(w)
    BY <1>2, RecordInHand, Zenon
<1>4. user[w] \in Users
    BY <1>2, Zenon DEF PushInv, WorkerInv
<1>5. Grows
    BY <1>1, SameLogGrows, Zenon DEF PushInv
<1>6. PushTypeOK'
    BY <1>1, <1>2, Zenon DEF PushInv, PushTypeOK
<1>7. /\ ~failed'[w] => ~failed[w]
      /\ ~failed'[w] => Scoped(w) \in dlq'
    BY Zenon DEF sendToDlqTopic, PushInv, PushTypeOK
<1>8. ~failed'[w] => Dealt(r.msg, user[w])'
    BY <1>1, <1>3, <1>7, Zenon DEF Dealt, Scoped
<1> QED
    BY <1>1, <1>2, <1>3, <1>4, <1>5, <1>6, <1>7, <1>8, FanStep, Zenon DEF InHand

\* The offline copy of a dead letter changes nothing for the record.
LEMMA SaveDeadLetterStep ==
    ASSUME PushInv, NEW w \in Workers, saveDeadLetter(w)
    PROVE  PushInv'
<1>1. /\ UNCHANGED <<log, dlq, committed, position, owner, cur, todo, user, failed, members>>
      /\ UNCHANGED delivered /\ offline \subseteq offline'
    BY Zenon DEF saveDeadLetter, kafka, locals
<1>2. /\ pc[w] = "save" /\ pc'[w] = "fanout" /\ pc' \in [Workers -> Places]
      /\ pc[w] \in Fanning /\ pc'[w] \in Fanning
      /\ \A v \in Workers : v # w => Rests(v)
    BY <1>1, Zenon DEF saveDeadLetter, Goto, Rests, PushInv, PushTypeOK, Fanning, Places
<1>3. PICK r \in TopicRecord, h \in Nat : r = Cur(w) /\ h = CurHorizon(w)
    BY <1>2, RecordInHand, Zenon
<1>4. Grows
    BY <1>1, SameLogGrows, Zenon DEF PushInv
<1>5. PushTypeOK'
    BY <1>1, <1>2, Zenon DEF PushInv, PushTypeOK
<1> QED
    BY <1>1, <1>2, <1>3, <1>4, <1>5, FanStep, Zenon DEF InHand

-----------------------------------------------------------------------------
(* Offsets                                                                  *)

\* Committing the record in hand: the prefix with it is clear.
LEMMA CommitStep ==
    ASSUME PushAssumption, PushInv, NEW w \in Workers, commit(w)
    PROVE  PushInv'
<1>1. /\ UNCHANGED <<log, dlq, position, owner, cur, todo, user, failed, members>>
      /\ UNCHANGED <<delivered, offline>>
    BY Zenon DEF commit, locals, stores
<1>2. /\ pc[w] = "commit" /\ pc[w] \in Busy /\ pc' \in [Workers -> Places]
      /\ pc'[w] \in {"poll", "rewind"}
      /\ \A v \in Workers : v # w => Rests(v)
    BY <1>1, Zenon DEF commit, Goto, Rests, PushInv, PushTypeOK, Busy, Places
<1>3. PICK q \in Topics, n \in Nat : q = cur[w].p /\ n = cur[w].off
    BY Zenon DEF PushInv, PushTypeOK
<1>4. n < Len(log[q]) /\ n + 1 \in Nat /\ n + 1 <= Len(log[q])
    BY <1>2, <1>3, RecordFacts
<1>5. Clear(q, n + 1)
    <2>1. Clear(q, n) /\ Through(log[q][n + 1], Horizon(q, n + 1))
        BY <1>2, <1>3, Zenon DEF PushInv, WorkerInv, HasRecord, Cur, CurHorizon
    <2> QED
        BY <1>4, <2>1, ClearNext, Zenon DEF PushInv
<1>6. \/ committed' = committed
      \/ committed' = [committed EXCEPT ![q] = n + 1]
    BY <1>3, Zenon DEF commit
<1>7. Grows
    BY <1>1, SameLogGrows, Zenon DEF PushInv
<1>8. PushTypeOK'
    <2>1. committed' \in [Topics -> Nat] /\ \A p \in Topics : committed'[p] <= Len(log[p])
        <3>1. committed \in [Topics -> Nat] /\ \A p \in Topics : committed[p] <= Len(log[p])
            BY Zenon DEF PushInv, PushTypeOK
        <3> QED
            BY <1>4, <1>6, <3>1, Zenon
    <2> QED
        BY <1>1, <1>2, <2>1, Zenon DEF PushInv, PushTypeOK
<1>9. Clear(q, n + 1)'
    BY <1>4, <1>5, <1>7, <1>8, ClearGrows, Zenon DEF PushInv
<1>10. CommitInv'
    <2> SUFFICES ASSUME NEW p \in Topics PROVE Clear(p, committed[p])'
        BY Zenon DEF CommitInv
    <2>1. CASE committed'[p] = committed[p]
        <3>1. PICK k \in Nat : k = committed[p] /\ k <= Len(log[p])
            BY Zenon DEF PushInv, PushTypeOK
        <3>2. Clear(p, k)'
            BY <1>7, <1>8, <3>1, ClearGrows, Zenon DEF PushInv, CommitInv
        <3> QED
            BY <2>1, <3>1, <3>2, Zenon
    <2>2. CASE p = q /\ committed'[p] = n + 1
        BY <1>9, <2>2, Zenon
    <2> QED
        BY <1>6, <2>1, <2>2, Zenon DEF PushInv, PushTypeOK
<1>11. PositionInv'
    <2> SUFFICES ASSUME NEW p \in Topics, NEW v \in Workers, owner[p] = v
                 PROVE  /\ pc'[v] # "off"
                        /\ \/ Clear(p, position[p])'
                           \/ /\ pc'[v] \in Busy /\ cur[v].p = p
                              /\ cur[v].off + 1 = position[p]
        BY <1>1 DEF PositionInv
    <2>1. pc'[v] # "off"
        BY <1>2 DEF PushInv, PositionInv, Rests
    <2>2. PICK k \in Nat : k = position[p] /\ k <= Len(log[p])
        BY Zenon DEF PushInv, PushTypeOK
    <2>3. CASE Clear(p, k)
        BY <1>1, <1>7, <1>8, <2>1, <2>2, <2>3, ClearGrows, Zenon DEF PushInv
    <2>4. CASE pc[v] \in Busy /\ cur[v].p = p /\ cur[v].off + 1 = position[p]
        <3>1. CASE v = w
            BY <1>1, <1>3, <1>9, <2>1, <2>4, <3>1, Zenon
        <3>2. CASE v # w
            BY <1>2, <2>1, <2>4, <3>2, Zenon DEF Rests
        <3> QED
            BY <3>1, <3>2, Zenon
    <2> QED
        BY <2>2, <2>3, <2>4, Zenon DEF PushInv, PositionInv
<1>12. WorkerInv(w)'
    <2>1. HasRecord(w)'
        BY <1>1, <1>2, <1>7, <1>8, HasRecordKept, Zenon DEF PushInv, WorkerInv
    <2> QED
        BY <1>2, <2>1, Zenon DEF WorkerInv, FansOut, Fanning, InHand
<1>13. \A v \in Workers : WorkerInv(v)'
    BY <1>2, <1>7, <1>8, <1>12, RestingWorker, Zenon DEF PushInv
<1> QED
    BY <1>8, <1>10, <1>11, <1>13, Zenon DEF PushInv

\* Seeking back to the record in hand leaves a clear prefix; giving up keeps it.
LEMMA RewindStep ==
    ASSUME PushAssumption, PushInv, NEW w \in Workers, rewind(w)
    PROVE  PushInv'
<1>1. /\ UNCHANGED <<log, dlq, committed, owner, cur, todo, user, failed, members>>
      /\ UNCHANGED <<delivered, offline>>
    BY Zenon DEF rewind, locals, stores
<1>2. /\ pc[w] = "rewind" /\ pc[w] \in Busy /\ pc' \in [Workers -> Places]
      /\ \A v \in Workers : v # w => Rests(v)
    BY <1>1, Zenon DEF rewind, Goto, Rests, PushInv, PushTypeOK, Busy, Places
<1>3. Grows
    BY <1>1, SameLogGrows DEF PushInv
<1>4. CASE pc'[w] = "stopped" /\ UNCHANGED position
    <2>1. PushTypeOK'
        BY <1>1, <1>2, <1>4, Zenon DEF PushInv, PushTypeOK
    <2> QED
        BY <1>1, <1>2, <1>3, <1>4, <2>1, GiveUpStep, Zenon
<1>5. CASE /\ owner[cur[w].p] = w /\ pc'[w] = "poll"
           /\ position' = [position EXCEPT ![cur[w].p] = cur[w].off]
    <2>1. PICK q \in Topics, n \in Nat : q = cur[w].p /\ n = cur[w].off
        BY Zenon DEF PushInv, PushTypeOK
    <2>2. n <= Len(log[q]) /\ Clear(q, n)
        BY <1>2, <2>1, RecordFacts, Zenon
    <2>3. PushTypeOK'
        <3>1. position' \in [Topics -> Nat] /\ \A p \in Topics : position'[p] <= Len(log[p])
            BY <1>5, <2>1, <2>2, Zenon DEF PushInv, PushTypeOK
        <3> QED
            BY <1>1, <1>2, <3>1, Zenon DEF PushInv, PushTypeOK
    <2>4. WorkerInv(w)'
        BY <1>5, Zenon DEF WorkerInv, HasRecord, FansOut, Busy, Fanning, InHand
    <2>5. \A v \in Workers : WorkerInv(v)'
        BY <1>2, <1>3, <2>3, <2>4, RestingWorker, Zenon DEF PushInv
    <2>6. CommitInv'
        BY <1>1, <1>3, <2>3, CommitKept, Zenon DEF PushInv
    <2>7. PositionInv'
        <3> SUFFICES ASSUME NEW p \in Topics, NEW v \in Workers, owner[p] = v
                     PROVE  /\ pc'[v] # "off"
                            /\ \/ Clear(p, position[p])'
                               \/ /\ pc'[v] \in Busy /\ cur[v].p = p
                                  /\ cur[v].off + 1 = position'[p]
            BY <1>1 DEF PositionInv
        <3>1. pc'[v] # "off"
            BY <1>2, <1>5 DEF PushInv, PositionInv, Rests
        <3>2. CASE p = q
            <4>1. position'[p] = n
                BY <1>5, <2>1, <3>2, Zenon DEF PushInv, PushTypeOK
            <4>2. Clear(q, n)'
                BY <1>3, <2>2, <2>3, ClearGrows, Zenon DEF PushInv
            <4> QED
                BY <3>1, <3>2, <4>1, <4>2, Zenon
        <3>3. CASE p # q
            <4>1. PICK k \in Nat : k = position[p] /\ k <= Len(log[p]) /\ position'[p] = k
                BY <1>5, <2>1, <3>3, Zenon DEF PushInv, PushTypeOK
            <4>2. CASE Clear(p, k)
                <5>1. Clear(p, k)'
                    BY <1>3, <2>3, <4>1, <4>2, ClearGrows, Zenon DEF PushInv
                <5> QED
                    BY <3>1, <4>1, <5>1, Zenon
            <4>3. CASE ~Clear(p, k)
                <5>1. pc[v] \in Busy /\ cur[v].p = p /\ cur[v].off + 1 = k
                    BY <4>1, <4>3 DEF PushInv, PositionInv
                <5>2. v # w
                    BY <2>1, <3>3, <5>1, Zenon
                <5> QED
                    BY <1>2, <3>1, <4>1, <5>1, <5>2, Zenon DEF Rests
            <4> QED
                BY <4>2, <4>3, Zenon
        <3> QED
            BY <3>2, <3>3, Zenon
    <2> QED
        BY <2>3, <2>5, <2>6, <2>7, Zenon DEF PushInv
<1> QED
    BY <1>4, <1>5, Zenon DEF rewind, Goto, PushInv, PushTypeOK

\* A worker leaves run(), or takes the next record of a partition it owns: what it
\* fetched before is clear.
LEMMA PollStep ==
    ASSUME PushAssumption, PushInv, NEW w \in Workers, poll(w)
    PROVE  PushInv'
<1>1. /\ UNCHANGED <<log, dlq, committed, todo, user, failed, members>>
      /\ UNCHANGED <<delivered, offline>> /\ pc[w] = "poll"
    BY Zenon DEF poll, stores
<1>2. Grows
    BY <1>1, SameLogGrows, Zenon DEF PushInv
<1>3. CASE Goto(w, "off") /\ Release(w) /\ UNCHANGED <<position, cur>>
    <2>1. /\ owner' \in [Topics -> Workers \cup {NoWorker}]
          /\ \A p \in Topics : \A v \in Workers : owner'[p] = v => owner[p] = v /\ v # w
        BY <1>3, Zenon DEF Release, PushInv, PushTypeOK, PushAssumption
    <2>2. pc' \in [Workers -> Places] /\ pc'[w] = "off"
        BY <1>3, Zenon DEF Goto, Places, PushInv, PushTypeOK
    <2>3. \A v \in Workers : v # w => Rests(v) /\ Stays(v)
        BY <1>1, <1>3, Zenon DEF Goto, Rests, Stays, PushInv, PushTypeOK
    <2>4. PushTypeOK'
        BY <1>1, <1>3, <2>1, <2>2, Zenon DEF PushInv, PushTypeOK
    <2>5. WorkerInv(w)'
        BY <2>2, Zenon DEF WorkerInv, HasRecord, FansOut, Busy, Fanning, InHand
    <2>6. \A v \in Workers : WorkerInv(v)'
        BY <1>2, <2>3, <2>4, <2>5, RestingWorker, Zenon DEF PushInv
    <2> QED
        BY <1>1, <1>2, <1>3, <2>1, <2>3, <2>4, <2>6, QuietStep, Zenon
<1>4. ASSUME NEW q \in Topics, owner[q] = w, position[q] < Len(log[q]),
             cur' = [cur EXCEPT ![w] = [p |-> q, off |-> position[q]]],
             position' = [position EXCEPT ![q] = position[q] + 1],
             Goto(w, "handle"), UNCHANGED owner
      PROVE  PushInv'
    <2>1. PICK n \in Nat : n = position[q] /\ n < Len(log[q]) /\ n <= Len(log[q])
        BY <1>4, Zenon DEF PushInv, PushTypeOK
    <2>2. Clear(q, n)
        BY <1>1, <1>4, <2>1, Zenon DEF PushInv, PositionInv, Busy
    <2>3. /\ pc' \in [Workers -> Places] /\ pc'[w] = "handle"
          /\ cur' \in [Workers -> [p : Topics, off : Nat]]
          /\ cur'[w].p = q /\ cur'[w].off = n
        BY <1>4, <2>1, Zenon DEF Goto, Places, PushInv, PushTypeOK
    <2>4. \A v \in Workers : v # w => Rests(v)
        BY <1>1, <1>4, Zenon DEF Goto, Rests, PushInv, PushTypeOK
    <2>5. PushTypeOK'
        <3>1. position' \in [Topics -> Nat] /\ \A p \in Topics : position'[p] <= Len(log[p])
            <4>1. position \in [Topics -> Nat] /\ \A p \in Topics : position[p] <= Len(log[p])
                BY Zenon DEF PushInv, PushTypeOK
            <4>2. \A p \in Topics : position'[p] = IF p = q THEN n + 1 ELSE position[p]
                BY <1>4, <2>1, <4>1, Zenon
            <4>3. n + 1 <= Len(log[q])
                BY <2>1, LogFacts DEF PushInv
            <4> QED
                BY <1>4, <2>1, <4>1, <4>2, <4>3
        <3> QED
            BY <1>1, <1>4, <2>3, <3>1, Zenon DEF PushInv, PushTypeOK
    <2>6. Clear(q, n)'
        BY <1>2, <2>1, <2>2, <2>5, ClearGrows, Zenon DEF PushInv
    <2>7. WorkerInv(w)'
        <3>1. HasRecord(w)'
            BY <1>1, <2>1, <2>3, <2>6, Zenon DEF HasRecord
        <3> QED
            BY <2>3, <3>1, Zenon DEF WorkerInv, FansOut, Fanning, InHand
    <2>8. \A v \in Workers : WorkerInv(v)'
        BY <1>2, <2>4, <2>5, <2>7, RestingWorker, Zenon DEF PushInv
    <2>9. CommitInv'
        BY <1>1, <1>2, <2>5, CommitKept, Zenon DEF PushInv
    <2>10. PositionInv'
        <3> SUFFICES ASSUME NEW p \in Topics, NEW v \in Workers, owner[p] = v
                     PROVE  /\ pc'[v] # "off"
                            /\ \/ Clear(p, position[p])'
                               \/ /\ pc'[v] \in Busy /\ cur'[v].p = p
                                  /\ cur'[v].off + 1 = position'[p]
            BY <1>4 DEF PositionInv
        <3>1. pc'[v] # "off"
            BY <2>3, <2>4 DEF PushInv, PositionInv, Rests
        <3>2. CASE p = q
            <4>1. position'[p] = n + 1 /\ v = w
                BY <1>4, <2>1, <3>2, Zenon DEF PushInv, PushTypeOK
            <4> QED
                BY <2>3, <3>1, <3>2, <4>1, Zenon DEF Busy, Places
        <3>3. CASE p # q
            <4>1. PICK k \in Nat : k = position[p] /\ k <= Len(log[p]) /\ position'[p] = k
                BY <1>4, <3>3, Zenon DEF PushInv, PushTypeOK
            <4>2. CASE Clear(p, k)
                <5>1. Clear(p, k)'
                    BY <1>2, <2>5, <4>1, <4>2, ClearGrows, Zenon DEF PushInv
                <5> QED
                    BY <3>1, <4>1, <5>1, Zenon
            <4>3. CASE ~Clear(p, k)
                <5>1. pc[v] \in Busy /\ cur[v].p = p /\ cur[v].off + 1 = k
                    BY <4>1, <4>3 DEF PushInv, PositionInv
                <5>2. v # w
                    BY <1>1, <5>1, Zenon DEF Busy
                <5> QED
                    BY <2>4, <3>1, <4>1, <5>1, <5>2, Zenon DEF Rests
            <4> QED
                BY <4>2, <4>3, Zenon
        <3> QED
            BY <3>2, <3>3, Zenon
    <2> QED
        BY <2>5, <2>8, <2>9, <2>10, Zenon DEF PushInv
<1> QED
    BY <1>3, <1>4, Zenon DEF poll

-----------------------------------------------------------------------------
(* The theorems                                                             *)

\* Every step keeps the invariant.
LEMMA PushStep ==
    ASSUME PushAssumption, PushInv, [Next]_vars
    PROVE  PushInv'
<1>1. CASE UNCHANGED vars
    <2>1. UNCHANGED <<log, dlq, committed, position, owner, pc, cur, todo, user, failed>>
          /\ UNCHANGED <<members, delivered, offline>>
        BY <1>1, Zenon DEF vars, kafka, locals, stores
    <2>2. PushTypeOK'
        BY <2>1, Zenon DEF PushInv, PushTypeOK
    <2>3. Grows
        BY <2>1, SameLogGrows, Zenon DEF PushInv
    <2>4. \A v \in Workers : Rests(v) /\ Stays(v)
        BY <2>1, Zenon DEF Rests, Stays
    <2>5. \A v \in Workers : WorkerInv(v)'
        BY <2>2, <2>3, <2>4, RestingWorker, Zenon DEF PushInv
    <2> QED
        BY <2>1, <2>2, <2>3, <2>4, <2>5, QuietStep, Zenon
<1>2. ASSUME NEW m \in Messages, publish(m) PROVE PushInv'
    BY <1>2, PublishStep, Zenon
<1>3. CASE \/ \E u \in Users : leaveGroup(u)
           \/ \E p \in Topics : revoke(p) \/ expel(p)
    BY <1>3, LosingStep, Zenon
<1>4. ASSUME NEW p \in Topics, NEW w \in Workers, assign(p, w) PROVE PushInv'
    BY <1>4, AssignStep, Zenon
<1>5. ASSUME NEW w \in Workers, start(w) \/ stop(w) \/ crash(w) PROVE PushInv'
    BY <1>5, LifeStep
<1>6. ASSUME NEW w \in Workers, WorkerStep(w) PROVE PushInv'
    <2>1. CASE poll(w) \/ handle(w) \/ membersUnavailable(w) \/ reject(w) \/ dispatched(w)
        BY <2>1, PollStep, HandleStep, UnavailableStep, RejectStep, DispatchedStep, Zenon
    <2>2. CASE deliverOnline(w) \/ deliverFailed(w) \/ saveOffline(w) \/ increaseRetryCount(w)
        BY <2>2, DeliverOnlineStep, DeliverFailedStep, SaveOfflineStep, IncreaseStep, Zenon
    <2>3. CASE sendToRetryTopic(w) \/ sendToDlqTopic(w) \/ saveDeadLetter(w)
        BY <2>3, RetryStep, DeadLetterStep, SaveDeadLetterStep, Zenon
    <2>4. CASE commit(w) \/ rewind(w)
        BY <2>4, CommitStep, RewindStep, Zenon
    <2> QED
        BY <1>6, <2>1, <2>2, <2>3, <2>4, Zenon DEF WorkerStep
<1> QED
    BY <1>1, <1>2, <1>3, <1>4, <1>5, <1>6, Zenon DEF Next

\* The invariant holds in every reachable state.
LEMMA PushInvariance == Spec => []PushInv
<1>1. Init => PushInv
    BY PushInitially, PushAssumption, Zenon
<1>2. PushInv /\ [Next]_vars => PushInv'
    BY PushStep, PushAssumption, Zenon
<1> QED
    BY <1>1, <1>2, PTL DEF Spec

\* Committing an offset never loses a message: whatever calls fail, whichever worker
\* dies or loses its partition, each record below a committed offset reached its
\* recipients, the offline store, the dead-letter topic, or a retry record that is
\* still to be consumed (PushWorker::handleKafkaMessage, KafkaConsumer::commit).
THEOREM OffsetsLoseNothing == Spec => []CommittedIsSettled
<1>1. PushInv => CommittedIsSettled
    BY CommittedFromInv, PushAssumption, Zenon
<1> QED
    BY <1>1, PushInvariance, PTL

\* A worker never passes over a record: what the owner of a partition has fetched is
\* settled, but for the record it has in hand, so a failed seek must stop the worker
\* (PushWorker::run).
THEOREM RecordsAreHandledInOrder == Spec => []HandledInOrder
<1>1. PushInv => HandledInOrder
    BY HandledFromInv, PushAssumption, Zenon
<1> QED
    BY <1>1, PushInvariance, PTL

-----------------------------------------------------------------------------
(* Admin: what the admin service does and says is exact                     *)

AdminPlaces == {"idle", "begin", "rows", "members", "next", "online", "conn", "delOnline", "delConn",
                "srem", "answer"}
AdminCall == [op : Ops \cup {"none"}, at : AdminPlaces, dry : BOOLEAN, todo : SUBSET AdminDevices,
              device : SUBSET AdminDevices, raced : BOOLEAN, found : Nat,
              uncleaned : SUBSET AdminDevices, failed : BOOLEAN, stats : Seq(Nat), total : Nat]
AuditEvent == Nat \X Decisions

AdminTypeOK ==
    /\ IsFiniteSet(DOMAIN rows)
    /\ indexed \subseteq AdminDevices /\ onlineKeys \subseteq AdminDevices /\ connKeys \subseteq AdminDevices
    /\ audit \in Seq(AuditEvent) /\ audited \in Seq(AuditEvent) /\ adminCalls \in Nat
    /\ admin \in [Admins -> AdminCall]

\* A cleanup, and the devices it still has to look at
Cleaning(a) == admin[a].op = "RunCleanup" /\ ~ admin[a].dry
ToLookAt(a) ==
    admin[a].todo \cup (IF admin[a].at \in {"online", "conn", "delOnline", "delConn", "srem"}
                        THEN admin[a].device ELSE {})

\* A device that was stale when the cleanup began is not online until it logs in again,
\* so no answer of EXISTS makes the cleanup pass over it
CleanInv(a) ==
    /\ admin[a].at \in {"delOnline", "delConn", "srem"} => Cleaning(a)
    /\ admin[a].at \in {"rows", "members"} => admin[a].op = "RunCleanup"
    /\ admin[a].at \in {"online", "conn", "delOnline", "delConn", "srem"} =>
           \E d \in AdminDevices : admin[a].device = {d}
    /\ Cleaning(a) => admin[a].uncleaned \cap Online = {}
    /\ Cleaning(a) /\ admin[a].at \in {"next", "online", "conn", "delOnline", "delConn", "srem"} =>
           admin[a].uncleaned \cap indexed \subseteq ToLookAt(a)
    /\ Cleaning(a) /\ admin[a].at = "conn" =>
           admin[a].uncleaned \cap admin[a].device \cap connKeys = {}
    /\ admin[a].at = "delOnline" /\ ~ admin[a].raced => admin[a].device \cap Online = {}
    /\ Cleaning(a) /\ admin[a].at = "answer" /\ admin[a].found < BatchSize =>
           admin[a].uncleaned \cap indexed = {}

StatsInv(a) ==
    admin[a].stats # <<>> /\ ~ admin[a].failed =>
        admin[a].stats[1] + admin[a].stats[2] + admin[a].stats[3] + admin[a].stats[4] = admin[a].total

AdminInv ==
    /\ AdminTypeOK /\ wronged = {} /\ AuditKeepsNewest
    /\ \A a \in Admins : CleanInv(a) /\ StatsInv(a)

\* A thread without a call is in order.
LEMMA NoAdminIsACall == NoAdmin \in AdminCall
<1>1. <<>> \in Seq(Nat)
    OBVIOUS
<1> QED
    BY <1>1, Zenon DEF NoAdmin, AdminCall, AdminPlaces

\* A call that is not there has nothing to keep.
LEMMA NoAdminIsClean ==
    ASSUME NEW a \in Admins, admin[a] = NoAdmin
    PROVE  CleanInv(a) /\ StatsInv(a)
    BY DEF CleanInv, StatsInv, NoAdmin, Cleaning

\* The invariant contains what AdminIsExact says.
LEMMA AdminFromInv == AdminInv => AdminIsExact
<1> SUFFICES ASSUME AdminInv PROVE AdminIsExact
    BY Zenon
<1>1. CleanupIsThorough
    BY Zenon DEF AdminInv, CleanInv, Cleaning, CleanupIsThorough
<1>2. StatsAddUp
    BY Zenon DEF AdminInv, StatsInv, StatsAddUp
<1> QED
    BY <1>1, <1>2, Zenon DEF AdminInv, AdminIsExact, CleanupSparesTheOnline

\* One call changes; what the others rely on only shrinks.
LEMMA OtherCallsKeep ==
    ASSUME AdminInv, NEW a \in Admins, NEW r \in AdminCall, proceed(a, r),
           indexed' \subseteq indexed, onlineKeys' \subseteq onlineKeys, connKeys' \subseteq connKeys
    PROVE  /\ admin' \in [Admins -> AdminCall] /\ admin'[a] = r
           /\ \A x \in Admins : x # a => CleanInv(x)' /\ StatsInv(x)'
<1>1. admin' \in [Admins -> AdminCall] /\ admin'[a] = r /\ \A x \in Admins : x # a => admin'[x] = admin[x]
    BY Zenon DEF AdminInv, AdminTypeOK, proceed
<1>2. Online' \subseteq Online
    BY Zenon DEF Online
<1>3. ASSUME NEW x \in Admins, x # a PROVE CleanInv(x)' /\ StatsInv(x)'
    <2>1. admin'[x] = admin[x] /\ CleanInv(x) /\ StatsInv(x)
        BY <1>1, <1>3, Zenon DEF AdminInv
    <2>2. (Cleaning(x)' <=> Cleaning(x)) /\ ToLookAt(x)' = ToLookAt(x)
        BY <2>1, Zenon DEF Cleaning, ToLookAt
    <2> QED
        BY <1>2, <2>1, <2>2 DEF CleanInv, StatsInv
<1> QED
    BY <1>1, <1>3, Zenon

\* A step of one call.
LEMMA OneCallStep ==
    ASSUME AdminInv, NEW a \in Admins, NEW r \in AdminCall, proceed(a, r),
           IsFiniteSet(DOMAIN rows'), UNCHANGED <<audits, wronged>>,
           indexed' \subseteq indexed, onlineKeys' \subseteq onlineKeys, connKeys' \subseteq connKeys,
           admin'[a] = r => CleanInv(a)' /\ StatsInv(a)'
    PROVE  AdminInv'
<1>1. /\ admin' \in [Admins -> AdminCall] /\ admin'[a] = r
      /\ \A x \in Admins : x # a => CleanInv(x)' /\ StatsInv(x)'
    BY OtherCallsKeep, Zenon
<1>2. AdminTypeOK'
    BY <1>1, Zenon DEF AdminInv, AdminTypeOK, audits
<1>3. AuditKeepsNewest'
    BY Zenon DEF AdminInv, AuditKeepsNewest, audits
<1> QED
    BY <1>1, <1>2, <1>3, Zenon DEF AdminInv

\* The same when a call only moves on.
LEMMA CallMoves ==
    ASSUME AdminInv, NEW a \in Admins, NEW r \in AdminCall, proceed(a, r),
           UNCHANGED <<tables, keys, audits, wronged>>,
           admin'[a] = r => CleanInv(a)' /\ StatsInv(a)'
    PROVE  AdminInv'
<1>1. IsFiniteSet(DOMAIN rows')
    BY Zenon DEF AdminInv, AdminTypeOK, tables
<1> QED
    BY <1>1, OneCallStep, Zenon DEF keys

\* And when it ends.
LEMMA CallEnds ==
    ASSUME AdminInv, NEW a \in Admins, proceed(a, NoAdmin), UNCHANGED <<tables, keys, audits, wronged>>
    PROVE  AdminInv'
<1>1. admin'[a] = NoAdmin => CleanInv(a)' /\ StatsInv(a)'
    BY DEF CleanInv, StatsInv, NoAdmin, Cleaning
<1> QED
    BY <1>1, CallMoves, NoAdminIsACall, Zenon

\* The decision on a call is the newest event of the audit trail.
LEMMA AuditStep ==
    ASSUME audit \in Seq(AuditEvent), audited \in Seq(AuditEvent), AuditKeepsNewest,
           NEW e \in AuditEvent, appendAudit(e), audited' = Append(audited, e)
    PROVE  audit' \in Seq(AuditEvent) /\ audited' \in Seq(AuditEvent) /\ AuditKeepsNewest'
<1>1. Len(audit) \in Nat /\ Len(audited) \in Nat /\ MaxAuditEvents \in Nat \ {0}
    BY AdminAssumption
<1>2. /\ audited' \in Seq(AuditEvent) /\ Len(audited') = Len(audited) + 1
      /\ audited'[Len(audited) + 1] = e /\ \A i \in 1 .. Len(audited) : audited'[i] = audited[i]
    OBVIOUS
<1>3. /\ Len(audit) = (IF Len(audited) < MaxAuditEvents THEN Len(audited) ELSE MaxAuditEvents)
      /\ \A i \in 1 .. Len(audit) : audit[i] = audited[Len(audited) - Len(audit) + i]
    BY Zenon DEF AuditKeepsNewest
<1>4. CASE Len(audit) = MaxAuditEvents
    <2>1. audit # <<>>
        BY <1>1, <1>4, Zenon
    <2>2. Tail(audit) \in Seq(AuditEvent) /\ Len(Tail(audit)) = Len(audit) - 1
          /\ \A i \in 1 .. Len(audit) - 1 : Tail(audit)[i] = audit[i + 1]
        BY <2>1
    <2>3. audit' = Append(Tail(audit), e)
        BY <1>4, Zenon DEF appendAudit
    <2>4. /\ audit' \in Seq(AuditEvent) /\ Len(audit') = Len(audit)
          /\ \A i \in 1 .. Len(audit) - 1 : audit'[i] = audit[i + 1]
          /\ audit'[Len(audit)] = e
        BY <1>1, <2>2, <2>3
    <2>5. ASSUME NEW i \in 1 .. Len(audit') PROVE audit'[i] = audited'[Len(audited') - Len(audit') + i]
        <3>1. CASE i = Len(audit)
            BY <1>1, <1>2, <2>4, <3>1
        <3>2. CASE i \in 1 .. Len(audit) - 1
            <4>1. audit'[i] = audited[Len(audited) - Len(audit) + (i + 1)]
                <5>1. i \in Int /\ i + 1 \in 1 .. Len(audit)
                    BY <1>1, <3>2
                <5> QED
                    BY <1>3, <2>4, <3>2, <5>1, Zenon
            <4>2. Len(audited) - Len(audit) + (i + 1) \in 1 .. Len(audited)
                BY <1>1, <1>3, <3>2
            <4> QED
                BY <1>1, <1>2, <2>4, <3>2, <4>1, <4>2
        <3>3. i \in Int /\ 1 <= i /\ i <= Len(audit)
            BY <1>1, <2>4
        <3>4. i = Len(audit) \/ i \in 1 .. Len(audit) - 1
            BY <1>1, <3>3
        <3> QED
            BY <3>1, <3>2, <3>4, Zenon
    <2>6. Len(audit') = IF Len(audited') < MaxAuditEvents THEN Len(audited') ELSE MaxAuditEvents
        <3>1. PICK n \in Nat, m \in Nat : n = Len(audited) /\ m = Len(audited')
            BY <1>1, <1>2
        <3>2. m = n + 1 /\ ~ (n < MaxAuditEvents)
            <4>1. m = n + 1
                BY <1>2, <3>1, Zenon
            <4>2. MaxAuditEvents = IF n < MaxAuditEvents THEN n ELSE MaxAuditEvents
                BY <1>3, <1>4, <3>1, Zenon
            <4> QED
                BY <1>1, <4>1, <4>2
        <3>3. ~ (m < MaxAuditEvents)
            BY <1>1, <3>2
        <3> QED
            BY <1>4, <2>4, <3>1, <3>3, Zenon
    <2> QED
        BY <1>2, <2>4, <2>5, <2>6, Zenon DEF AuditKeepsNewest
<1>5. CASE Len(audit) # MaxAuditEvents
    <2>1. Len(audit) = Len(audited) /\ Len(audited) < MaxAuditEvents
        BY <1>1, <1>3, <1>5, Zenon
    <2>2. /\ audit' \in Seq(AuditEvent) /\ Len(audit') = Len(audit) + 1
          /\ audit'[Len(audit) + 1] = e /\ \A i \in 1 .. Len(audit) : audit'[i] = audit[i]
        BY <1>5 DEF appendAudit
    <2>3. \A i \in 1 .. Len(audit) : audit[i] = audited[i]
        BY <1>1, <1>3, <2>1
    <2>4. ASSUME NEW i \in 1 .. Len(audit') PROVE audit'[i] = audited'[Len(audited') - Len(audit') + i]
        <3>1. Len(audited') - Len(audit') + i = i
            BY <1>1, <1>2, <2>1, <2>2
        <3>2. CASE i \in 1 .. Len(audit)
            BY <1>2, <2>1, <2>2, <2>3, <3>1, <3>2
        <3>3. CASE i = Len(audit) + 1
            BY <1>2, <2>1, <2>2, <3>1, <3>3, Zenon
        <3>4. i \in Int /\ 1 <= i /\ i <= Len(audit) + 1
            BY <1>1, <2>2
        <3>5. i \in 1 .. Len(audit) \/ i = Len(audit) + 1
            BY <1>1, <3>4
        <3> QED
            BY <3>2, <3>3, <3>5, Zenon
    <2> QED
        BY <1>1, <1>2, <2>1, <2>2, <2>4 DEF AuditKeepsNewest
<1> QED
    BY <1>4, <1>5, Zenon

\* A cleanup begins with the devices that are not online.
LEMMA AuthorizeStep ==
    ASSUME AdminInv, NEW a \in Admins, authorize(a)
    PROVE  AdminInv'
<1>1. PICK op \in Ops, decision \in Decisions, dry \in BOOLEAN :
        /\ appendAudit(<<adminCalls, decision>>)
        /\ audited' = Append(audited, <<adminCalls, decision>>)
        /\ proceed(a, IF decision # "ALLOW" THEN NoAdmin
                      ELSE [NoAdmin EXCEPT !.op = op, !.dry = dry, !.at = "begin",
                                           !.uncleaned = IF op = "RunCleanup" /\ ~ dry
                                                         THEN indexed \ Online ELSE {}])
    BY Zenon DEF authorize
<1> DEFINE stale == IF op = "RunCleanup" /\ ~ dry THEN indexed \ Online ELSE {}
           begun == [NoAdmin EXCEPT !.op = op, !.dry = dry, !.at = "begin", !.uncleaned = stale]
           r == IF decision # "ALLOW" THEN NoAdmin ELSE begun
<1>2. AdminTypeOK /\ AuditKeepsNewest /\ <<adminCalls, decision>> \in AuditEvent /\ stale \subseteq AdminDevices
    BY Zenon DEF AdminInv, AdminTypeOK, AuditEvent
<1>3. audit' \in Seq(AuditEvent) /\ audited' \in Seq(AuditEvent) /\ AuditKeepsNewest'
    BY <1>1, <1>2, AuditStep, Zenon DEF AdminTypeOK
<1>4. UNCHANGED <<tables, keys, wronged>> /\ adminCalls' \in Nat
    BY <1>2 DEF authorize, AdminTypeOK
<1>5. begun \in AdminCall
    <2> HIDE DEF stale
    <2> QED
        BY <1>2, NoAdminIsACall, Zenon DEF AdminCall, AdminPlaces
<1>6. /\ begun.op = op /\ begun.dry = dry /\ begun.at = "begin" /\ begun.uncleaned = stale /\ begun.stats = <<>>
    BY Zenon DEF NoAdmin
<1>7. r \in AdminCall
    BY <1>5, NoAdminIsACall, Zenon
<1>8. /\ admin' \in [Admins -> AdminCall] /\ admin'[a] = r
      /\ \A x \in Admins : x # a => CleanInv(x)' /\ StatsInv(x)'
    <2>1. proceed(a, r)
        BY <1>1, Zenon
    <2> HIDE DEF r
    <2> QED
        BY <1>4, <1>7, <2>1, OtherCallsKeep, Zenon DEF keys
<1>9. CleanInv(a)' /\ StatsInv(a)'
    <2>1. CASE r = NoAdmin
        <3> HIDE DEF begun, r
        <3>1. admin'[a] = NoAdmin
            BY <1>8, <2>1, Zenon
        <3> QED
            BY <3>1 DEF CleanInv, StatsInv, NoAdmin, Cleaning
    <2>2. CASE r = begun
        <3> HIDE DEF begun, r
        <3>1. Online' = Online
            BY <1>4, Zenon DEF keys, Online
        <3>2. Cleaning(a)' => admin'[a].uncleaned \cap Online = {}
            BY <1>6, <1>8, <2>2, Zenon DEF Cleaning
        <3> QED
            BY <1>6, <1>8, <2>2, <3>1, <3>2, Zenon DEF CleanInv, StatsInv
    <2> QED
        BY <2>1, <2>2, Zenon
<1>10. AdminTypeOK'
    BY <1>2, <1>3, <1>4, <1>8, Zenon DEF AdminTypeOK, tables, keys
<1> QED
    BY <1>3, <1>4, <1>8, <1>9, <1>10, Zenon DEF AdminInv

\* Places at which a cleanup has listed no devices yet.
LEMMA RunCleanupStep ==
    ASSUME AdminInv, NEW a \in Admins, RunCleanup(a)
    PROVE  AdminInv'
<1>1. /\ admin[a] \in AdminCall /\ CleanInv(a) /\ StatsInv(a) /\ admin[a].op = "RunCleanup"
      /\ UNCHANGED <<tables, keys, audits, wronged>>
    BY Zenon DEF AdminInv, AdminTypeOK, RunCleanup
<1>2. CASE proceed(a, NoAdmin)
    BY <1>1, <1>2, CallEnds, Zenon
<1>3. CASE proceed(a, [admin[a] EXCEPT !.at = "rows"])
    <2> DEFINE r == [admin[a] EXCEPT !.at = "rows"]
    <2>1. r \in AdminCall
        BY <1>1, Zenon DEF AdminCall, AdminPlaces
    <2>2. /\ r.at = "rows" /\ r.op = admin[a].op /\ r.dry = admin[a].dry /\ r.uncleaned = admin[a].uncleaned
          /\ r.stats = admin[a].stats /\ r.failed = admin[a].failed /\ r.total = admin[a].total
        BY <1>1, Zenon DEF AdminCall
    <2>3. proceed(a, r)
        BY <1>3, Zenon
    <2> HIDE DEF r
    <2>4. admin'[a] = r => CleanInv(a)' /\ StatsInv(a)'
        BY <1>1, <2>2, Zenon DEF CleanInv, StatsInv, Cleaning, Online, keys
    <2> QED
        BY <1>1, <2>1, <2>3, <2>4, CallMoves, Zenon
<1> QED
    BY <1>2, <1>3, Zenon DEF RunCleanup

\* RunCleanup deletes rows past their retention, in batches; a dry run deletes none.
LEMMA CleanupRowsStep ==
    ASSUME AdminInv, NEW a \in Admins, cleanupRows(a)
    PROVE  AdminInv'
<1> DEFINE r == [admin[a] EXCEPT !.at = "members"]
<1>1. /\ admin[a] \in AdminCall /\ CleanInv(a) /\ StatsInv(a) /\ admin[a].at = "rows"
      /\ proceed(a, r) /\ UNCHANGED <<keys, audits, wronged>>
    BY Zenon DEF AdminInv, AdminTypeOK, cleanupRows
<1>2. IsFiniteSet(DOMAIN rows')
    <2>1. DOMAIN rows' = DOMAIN rows
        BY Zenon DEF cleanupRows
    <2> QED
        BY <2>1, Zenon DEF AdminInv, AdminTypeOK
<1>3. r \in AdminCall
    BY <1>1, Zenon DEF AdminCall, AdminPlaces
<1>4. /\ r.at = "members" /\ r.op = admin[a].op /\ r.dry = admin[a].dry /\ r.uncleaned = admin[a].uncleaned
      /\ r.stats = admin[a].stats /\ r.failed = admin[a].failed /\ r.total = admin[a].total
    BY <1>1, Zenon DEF AdminCall
<1> HIDE DEF r
<1>5. admin'[a] = r => CleanInv(a)' /\ StatsInv(a)'
    BY <1>1, <1>4, Zenon DEF CleanInv, StatsInv, Cleaning, Online, keys
<1> QED
    BY <1>1, <1>2, <1>3, <1>5, OneCallStep, Zenon DEF keys

\* All devices of the index are to be looked at.
LEMMA SmembersStep ==
    ASSUME AdminInv, NEW a \in Admins, smembers(a)
    PROVE  AdminInv'
<1> DEFINE r == [admin[a] EXCEPT !.at = "next", !.todo = indexed]
<1>1. /\ admin[a] \in AdminCall /\ CleanInv(a) /\ StatsInv(a) /\ indexed \subseteq AdminDevices
      /\ proceed(a, r) /\ UNCHANGED <<tables, keys, audits, wronged>>
    BY Zenon DEF AdminInv, AdminTypeOK, smembers
<1>2. r \in AdminCall
    BY <1>1, Zenon DEF AdminCall, AdminPlaces
<1>3. /\ r.at = "next" /\ r.op = admin[a].op /\ r.dry = admin[a].dry /\ r.uncleaned = admin[a].uncleaned
      /\ r.stats = admin[a].stats /\ r.failed = admin[a].failed /\ r.total = admin[a].total
      /\ r.todo = indexed
    BY <1>1, Zenon DEF AdminCall
<1> HIDE DEF r
<1>4. admin'[a] = r => CleanInv(a)' /\ StatsInv(a)'
    BY <1>1, <1>3, Zenon DEF CleanInv, StatsInv, Cleaning, Online, keys, ToLookAt
<1> QED
    BY <1>1, <1>2, <1>4, CallMoves, Zenon

\* The next device, or none: then nothing is left to look at, or the batch is full.
LEMMA NextDeviceStep ==
    ASSUME AdminInv, NEW a \in Admins, nextDevice(a)
    PROVE  AdminInv'
<1>1. /\ admin[a] \in AdminCall /\ CleanInv(a) /\ StatsInv(a) /\ admin[a].at = "next"
      /\ UNCHANGED <<tables, keys, audits, wronged>>
    BY Zenon DEF AdminInv, AdminTypeOK, nextDevice
<1>2. CASE /\ admin[a].todo = {} \/ (admin[a].op = "RunCleanup" /\ admin[a].found >= BatchSize)
           /\ proceed(a, [admin[a] EXCEPT !.at = "answer", !.todo = {}, !.device = {}])
    <2> DEFINE r == [admin[a] EXCEPT !.at = "answer", !.todo = {}, !.device = {}]
    <2>1. r \in AdminCall
        BY <1>1, Zenon DEF AdminCall, AdminPlaces
    <2>2. /\ r.at = "answer" /\ r.op = admin[a].op /\ r.dry = admin[a].dry /\ r.uncleaned = admin[a].uncleaned
          /\ r.stats = admin[a].stats /\ r.failed = admin[a].failed /\ r.total = admin[a].total
          /\ r.found = admin[a].found
        BY <1>1, Zenon DEF AdminCall
    <2>3. proceed(a, r)
        BY <1>2, Zenon
    <2> HIDE DEF r
    <2>4. Cleaning(a) /\ admin[a].found < BatchSize => admin[a].uncleaned \cap indexed = {}
        <3>1. admin[a].found \in Nat /\ BatchSize \in Nat
            BY <1>1, AdminAssumption, Zenon DEF AdminCall
        <3>2. Cleaning(a) /\ admin[a].found < BatchSize => admin[a].todo = {}
            BY <1>2, <3>1
        <3> QED
            BY <1>1, <3>2, Zenon DEF CleanInv, ToLookAt
    <2>5. admin'[a] = r => CleanInv(a)' /\ StatsInv(a)'
        BY <1>1, <2>2, <2>4, Zenon DEF CleanInv, StatsInv, Cleaning, Online, keys
    <2> QED
        BY <1>1, <2>1, <2>3, <2>5, CallMoves, Zenon
<1>3. ASSUME NEW d \in admin[a].todo,
             proceed(a, [admin[a] EXCEPT !.at = "online", !.todo = @ \ {d}, !.device = {d}, !.raced = FALSE])
      PROVE  AdminInv'
    <2> DEFINE r == [admin[a] EXCEPT !.at = "online", !.todo = @ \ {d}, !.device = {d}, !.raced = FALSE]
    <2>1. d \in AdminDevices
        BY <1>1, Zenon DEF AdminCall
    <2>2. r \in AdminCall
        BY <1>1, <2>1, Zenon DEF AdminCall, AdminPlaces
    <2>3. /\ r.at = "online" /\ r.op = admin[a].op /\ r.dry = admin[a].dry /\ r.uncleaned = admin[a].uncleaned
          /\ r.stats = admin[a].stats /\ r.failed = admin[a].failed /\ r.total = admin[a].total
          /\ r.todo = admin[a].todo \ {d} /\ r.device = {d}
        BY <1>1, Zenon DEF AdminCall
    <2>4. proceed(a, r)
        BY <1>3, Zenon
    <2> HIDE DEF r
    <2>5. admin'[a] = r => CleanInv(a)' /\ StatsInv(a)'
        BY <1>1, <2>1, <2>3, Zenon DEF CleanInv, StatsInv, Cleaning, Online, keys, ToLookAt
    <2> QED
        BY <1>1, <2>2, <2>4, <2>5, CallMoves, Zenon
<1> QED
    BY <1>2, <1>3, Zenon DEF nextDevice

\* A device found without one of its keys: it is pruned, or only counted.
LEMMA CountStaleStep ==
    ASSUME AdminInv, NEW a \in Admins, admin[a].at \in {"online", "conn"}, proceed(a, countStale(a)),
           admin[a].device \cap Online = {}, UNCHANGED <<tables, keys, audits, wronged>>
    PROVE  AdminInv'
<1> DEFINE r == countStale(a)
<1>1. admin[a] \in AdminCall /\ CleanInv(a) /\ StatsInv(a)
    BY Zenon DEF AdminInv, AdminTypeOK
<1>2. r \in AdminCall
    <2>1. admin[a].found + 1 \in Nat
        BY <1>1 DEF AdminCall
    <2> QED
        BY <1>1, <2>1, Zenon DEF AdminCall, AdminPlaces, countStale
<1>3. /\ r.at = (IF Cleaning(a) THEN "delOnline" ELSE "next")
      /\ r.op = admin[a].op /\ r.dry = admin[a].dry /\ r.uncleaned = admin[a].uncleaned
      /\ r.stats = admin[a].stats /\ r.failed = admin[a].failed /\ r.total = admin[a].total
      /\ r.todo = admin[a].todo /\ r.device = admin[a].device
    BY <1>1, Zenon DEF AdminCall, countStale, Cleaning
<1> HIDE DEF r
<1>4. ASSUME admin'[a] = r PROVE CleanInv(a)' /\ StatsInv(a)'
    <2>1. CASE Cleaning(a)
        BY <1>1, <1>3, <1>4, <2>1, Zenon DEF CleanInv, StatsInv, Cleaning, Online, keys, ToLookAt
    <2>2. CASE ~ Cleaning(a)
        BY <1>1, <1>3, <1>4, <2>2, Zenon DEF CleanInv, StatsInv, Cleaning
    <2> QED
        BY <2>1, <2>2, Zenon
<1> QED
    BY <1>2, <1>4, CallMoves, Zenon DEF r

\* EXISTS of the online key: a device that is online is passed over.
LEMMA ExistsOnlineStep ==
    ASSUME AdminInv, NEW a \in Admins, existsOnline(a)
    PROVE  AdminInv'
<1>1. /\ admin[a] \in AdminCall /\ CleanInv(a) /\ StatsInv(a) /\ admin[a].at = "online"
      /\ UNCHANGED <<tables, keys, audits, wronged>>
    BY Zenon DEF AdminInv, AdminTypeOK, existsOnline
<1>2. CASE ~ (admin[a].device \subseteq onlineKeys)
    <2>1. admin[a].device \cap Online = {}
        BY <1>1, <1>2, Zenon DEF CleanInv, Online
    <2> QED
        BY <1>1, <1>2, <2>1, CountStaleStep, Zenon DEF existsOnline
<1>3. CASE admin[a].device \subseteq onlineKeys
    <2> DEFINE r == [admin[a] EXCEPT !.at = "conn"]
    <2>1. r \in AdminCall
        BY <1>1, Zenon DEF AdminCall, AdminPlaces
    <2>2. /\ r.at = "conn" /\ r.op = admin[a].op /\ r.dry = admin[a].dry /\ r.uncleaned = admin[a].uncleaned
          /\ r.stats = admin[a].stats /\ r.failed = admin[a].failed /\ r.total = admin[a].total
          /\ r.todo = admin[a].todo /\ r.device = admin[a].device
        BY <1>1, Zenon DEF AdminCall
    <2>3. proceed(a, r)
        BY <1>3, Zenon DEF existsOnline
    <2> HIDE DEF r
    <2>4. Cleaning(a) => admin[a].uncleaned \cap admin[a].device \cap connKeys = {}
        BY <1>1, <1>3, Zenon DEF CleanInv, Online
    <2>5. admin'[a] = r => CleanInv(a)' /\ StatsInv(a)'
        BY <1>1, <2>2, <2>4, Zenon DEF CleanInv, StatsInv, Cleaning, Online, keys, ToLookAt
    <2> QED
        BY <1>1, <2>1, <2>3, <2>5, CallMoves, Zenon
<1> QED
    BY <1>2, <1>3, Zenon

\* EXISTS of the connection key: only a device with neither key is stale.
LEMMA ExistsConnStep ==
    ASSUME AdminInv, NEW a \in Admins, existsConn(a)
    PROVE  AdminInv'
<1>1. /\ admin[a] \in AdminCall /\ CleanInv(a) /\ StatsInv(a) /\ admin[a].at = "conn"
      /\ UNCHANGED <<tables, keys, audits, wronged>>
    BY Zenon DEF AdminInv, AdminTypeOK, existsConn
<1>2. CASE ~ (admin[a].device \subseteq connKeys)
    <2>1. admin[a].device \cap Online = {}
        BY <1>1, <1>2, Zenon DEF CleanInv, Online
    <2> QED
        BY <1>1, <1>2, <2>1, CountStaleStep, Zenon DEF existsConn
<1>3. CASE admin[a].device \subseteq connKeys
    <2> DEFINE r == countLive(a)
    <2>1. r \in AdminCall
        <3>1. admin[a].found + (IF admin[a].op = "RunCleanup" THEN 0 ELSE 1) \in Nat
            BY <1>1 DEF AdminCall
        <3> QED
            BY <1>1, <3>1, Zenon DEF AdminCall, AdminPlaces, countLive
    <2>2. /\ r.at = "next" /\ r.op = admin[a].op /\ r.dry = admin[a].dry /\ r.uncleaned = admin[a].uncleaned
          /\ r.stats = admin[a].stats /\ r.failed = admin[a].failed /\ r.total = admin[a].total
          /\ r.todo = admin[a].todo
        BY <1>1, Zenon DEF AdminCall, countLive
    <2>3. proceed(a, r)
        BY <1>3, Zenon DEF existsConn
    <2> HIDE DEF r
    <2>4. Cleaning(a) => admin[a].uncleaned \cap indexed \subseteq admin[a].todo
        BY <1>1, <1>3, Zenon DEF CleanInv, ToLookAt
    <2>5. admin'[a] = r => CleanInv(a)' /\ StatsInv(a)'
        BY <1>1, <2>2, <2>4, Zenon DEF CleanInv, StatsInv, Cleaning, Online, keys, ToLookAt
    <2> QED
        BY <1>1, <2>1, <2>3, <2>5, CallMoves, Zenon
<1> QED
    BY <1>2, <1>3, Zenon

\* The keys a cleanup deletes are of a device that is not online, or that logged in after
\* EXISTS found it stale.
LEMMA DelOnlineStep ==
    ASSUME AdminInv, NEW a \in Admins, delOnline(a)
    PROVE  AdminInv'
<1> DEFINE r == [admin[a] EXCEPT !.at = "delConn"]
<1>1. /\ admin[a] \in AdminCall /\ CleanInv(a) /\ StatsInv(a) /\ admin[a].at = "delOnline"
      /\ UNCHANGED <<tables, indexed, connKeys, audits>> /\ onlineKeys' \subseteq onlineKeys
      /\ proceed(a, r) /\ IsFiniteSet(DOMAIN rows')
    BY Zenon DEF AdminInv, AdminTypeOK, delOnline, tables
<1>2. UNCHANGED wronged
    BY <1>1, Zenon DEF delOnline, CleanInv
<1>3. r \in AdminCall
    BY <1>1, Zenon DEF AdminCall, AdminPlaces
<1>4. /\ r.at = "delConn" /\ r.op = admin[a].op /\ r.dry = admin[a].dry /\ r.uncleaned = admin[a].uncleaned
      /\ r.stats = admin[a].stats /\ r.failed = admin[a].failed /\ r.total = admin[a].total
      /\ r.todo = admin[a].todo /\ r.device = admin[a].device
    BY <1>1, Zenon DEF AdminCall
<1> HIDE DEF r
<1>5. admin'[a] = r => CleanInv(a)' /\ StatsInv(a)'
    BY <1>1, <1>4, Zenon DEF CleanInv, StatsInv, Cleaning, Online, ToLookAt
<1> QED
    BY <1>1, <1>2, <1>3, <1>5, OneCallStep, Zenon

\* The connection key of a stale device is deleted.
LEMMA DelConnStep ==
    ASSUME AdminInv, NEW a \in Admins, delConn(a)
    PROVE  AdminInv'
<1> DEFINE r == [admin[a] EXCEPT !.at = "srem"]
<1>1. /\ admin[a] \in AdminCall /\ CleanInv(a) /\ StatsInv(a) /\ admin[a].at = "delConn"
      /\ UNCHANGED <<tables, indexed, onlineKeys, audits, wronged>> /\ connKeys' \subseteq connKeys
      /\ proceed(a, r) /\ IsFiniteSet(DOMAIN rows')
    BY Zenon DEF AdminInv, AdminTypeOK, delConn, tables
<1>2. r \in AdminCall
    BY <1>1, Zenon DEF AdminCall, AdminPlaces
<1>3. /\ r.at = "srem" /\ r.op = admin[a].op /\ r.dry = admin[a].dry /\ r.uncleaned = admin[a].uncleaned
      /\ r.stats = admin[a].stats /\ r.failed = admin[a].failed /\ r.total = admin[a].total
      /\ r.todo = admin[a].todo /\ r.device = admin[a].device
    BY <1>1, Zenon DEF AdminCall
<1> HIDE DEF r
<1>4. admin'[a] = r => CleanInv(a)' /\ StatsInv(a)'
    BY <1>1, <1>3, Zenon DEF CleanInv, StatsInv, Cleaning, Online, ToLookAt
<1> QED
    BY <1>1, <1>2, <1>4, OneCallStep, Zenon

\* A stale device leaves the device set, the last of the three commands.
LEMMA SremStep ==
    ASSUME AdminInv, NEW a \in Admins, srem(a)
    PROVE  AdminInv'
<1> DEFINE r == [admin[a] EXCEPT !.at = "next", !.device = {}, !.raced = FALSE]
<1>1. /\ admin[a] \in AdminCall /\ CleanInv(a) /\ StatsInv(a) /\ admin[a].at = "srem"
      /\ UNCHANGED <<tables, onlineKeys, connKeys, audits, wronged>> /\ indexed' = indexed \ admin[a].device
      /\ proceed(a, r) /\ IsFiniteSet(DOMAIN rows')
    BY Zenon DEF AdminInv, AdminTypeOK, srem, tables
<1>2. r \in AdminCall
    BY <1>1, Zenon DEF AdminCall, AdminPlaces
<1>3. /\ r.at = "next" /\ r.op = admin[a].op /\ r.dry = admin[a].dry /\ r.uncleaned = admin[a].uncleaned
      /\ r.stats = admin[a].stats /\ r.failed = admin[a].failed /\ r.total = admin[a].total
      /\ r.todo = admin[a].todo
    BY <1>1, Zenon DEF AdminCall
<1> HIDE DEF r
<1>4. admin'[a] = r => CleanInv(a)' /\ StatsInv(a)'
    BY <1>1, <1>3, Zenon DEF CleanInv, StatsInv, Cleaning, Online, ToLookAt
<1>5. indexed' \subseteq indexed
    BY <1>1, Zenon
<1> QED
    BY <1>1, <1>2, <1>4, <1>5, OneCallStep, Zenon

\* A device that logs in is no longer stale, and races with the cleanup that is at it.
LEMMA DeviceOnlineStep ==
    ASSUME AdminInv, NEW d \in AdminDevices, deviceOnline(d)
    PROVE  AdminInv'
<1>1. /\ indexed' = indexed \cup {d} /\ onlineKeys' = onlineKeys \cup {d} /\ connKeys' = connKeys \cup {d}
      /\ UNCHANGED <<tables, audits, wronged>>
    BY Zenon DEF deviceOnline
<1>2. \A a \in Admins : admin[a] \in AdminCall /\ CleanInv(a) /\ StatsInv(a)
    BY Zenon DEF AdminInv, AdminTypeOK
<1> DEFINE Logged(a) == [admin[a] EXCEPT !.uncleaned = @ \ {d},
                                         !.raced = @ \/ (admin[a].op = "RunCleanup" /\ admin[a].device = {d})]
<1>3. ASSUME NEW a \in Admins PROVE Logged(a) \in AdminCall
    BY <1>2, Zenon DEF AdminCall
<1>f. ASSUME NEW a \in Admins
      PROVE  /\ Logged(a).at = admin[a].at /\ Logged(a).op = admin[a].op /\ Logged(a).dry = admin[a].dry
             /\ Logged(a).stats = admin[a].stats /\ Logged(a).failed = admin[a].failed
             /\ Logged(a).total = admin[a].total /\ Logged(a).todo = admin[a].todo
             /\ Logged(a).device = admin[a].device /\ Logged(a).found = admin[a].found
             /\ Logged(a).uncleaned = admin[a].uncleaned \ {d}
             /\ Logged(a).raced = (admin[a].raced \/ (admin[a].op = "RunCleanup" /\ admin[a].device = {d}))
    <2>1. PICK call \in AdminCall : call = admin[a]
        BY <1>2, Zenon
    <2> QED
        BY <2>1, Zenon DEF AdminCall
<1>4. admin' \in [Admins -> AdminCall] /\ \A a \in Admins : admin'[a] = Logged(a)
    <2>1. admin' = [a \in Admins |-> Logged(a)]
        BY Zenon DEF deviceOnline
    <2> HIDE DEF Logged
    <2> QED
        BY <1>3, <2>1, Zenon
<1>5. ASSUME NEW a \in Admins PROVE CleanInv(a)' /\ StatsInv(a)'
    <2>1. /\ admin'[a].at = admin[a].at /\ admin'[a].op = admin[a].op /\ admin'[a].dry = admin[a].dry
          /\ admin'[a].stats = admin[a].stats /\ admin'[a].failed = admin[a].failed
          /\ admin'[a].total = admin[a].total /\ admin'[a].todo = admin[a].todo
          /\ admin'[a].device = admin[a].device /\ admin'[a].found = admin[a].found
          /\ admin'[a].uncleaned = admin[a].uncleaned \ {d}
          /\ admin'[a].raced = (admin[a].raced \/ (admin[a].op = "RunCleanup" /\ admin[a].device = {d}))
        <3> HIDE DEF Logged
        <3> QED
            BY <1>f, <1>4, ZenonT(40)
    <2>2. CleanInv(a) /\ StatsInv(a)
        BY <1>2, Zenon
    <2>3. (Cleaning(a)' <=> Cleaning(a)) /\ ToLookAt(a)' = ToLookAt(a)
        BY <2>1, Zenon DEF Cleaning, ToLookAt
    <2>4. Online' = Online \cup {d}
        BY <1>1, Zenon DEF Online
    <2>5. admin[a].at = "delOnline" /\ ~ admin'[a].raced => admin[a].device \cap Online' = {}
        <3> SUFFICES ASSUME admin[a].at = "delOnline", ~ admin'[a].raced
                     PROVE  admin[a].device \cap Online' = {}
            BY Zenon
        <3>1. ~ admin[a].raced /\ admin[a].op = "RunCleanup" /\ admin[a].device # {d}
            BY <2>1, <2>2, Zenon DEF CleanInv, Cleaning
        <3>2. PICK x \in AdminDevices : admin[a].device = {x}
            BY <2>2, Zenon DEF CleanInv
        <3>3. admin[a].device \cap Online = {}
            BY <2>2, <3>1, Zenon DEF CleanInv
        <3> QED
            BY <2>4, <3>1, <3>2, <3>3, Zenon
    <2>6. Cleaning(a) => admin'[a].uncleaned \cap Online' = {}
        BY <2>1, <2>2, <2>4, Zenon DEF CleanInv
    <2>7. admin'[a].uncleaned \cap indexed' \subseteq admin[a].uncleaned \cap indexed
        BY <1>1, <2>1, Zenon
    <2>8. admin'[a].uncleaned \cap admin[a].device \cap connKeys'
          \subseteq admin[a].uncleaned \cap admin[a].device \cap connKeys
        BY <1>1, <2>1, Zenon
    <2>9. StatsInv(a)'
        BY <2>1, <2>2, Zenon DEF StatsInv
    <2>10. CleanInv(a)'
        <3>1. /\ admin'[a].at \in {"delOnline", "delConn", "srem"} => Cleaning(a)'
              /\ admin'[a].at \in {"rows", "members"} => admin'[a].op = "RunCleanup"
              /\ admin'[a].at \in {"online", "conn", "delOnline", "delConn", "srem"} =>
                     \E x \in AdminDevices : admin'[a].device = {x}
            BY <2>1, <2>2, <2>3, Zenon DEF CleanInv
        <3>2. Cleaning(a)' => admin'[a].uncleaned \cap Online' = {}
            BY <2>3, <2>6, Zenon
        <3>3. Cleaning(a)' /\ admin'[a].at \in {"next", "online", "conn", "delOnline", "delConn", "srem"} =>
                  admin'[a].uncleaned \cap indexed' \subseteq ToLookAt(a)'
            BY <2>1, <2>2, <2>3, <2>7, Zenon DEF CleanInv
        <3>4. Cleaning(a)' /\ admin'[a].at = "conn" =>
                  admin'[a].uncleaned \cap admin'[a].device \cap connKeys' = {}
            BY <2>1, <2>2, <2>3, <2>8, Zenon DEF CleanInv
        <3>5. admin'[a].at = "delOnline" /\ ~ admin'[a].raced => admin'[a].device \cap Online' = {}
            BY <2>1, <2>5, Zenon
        <3>6. Cleaning(a)' /\ admin'[a].at = "answer" /\ admin'[a].found < BatchSize =>
                  admin'[a].uncleaned \cap indexed' = {}
            BY <2>1, <2>2, <2>3, <2>7, Zenon DEF CleanInv
        <3> QED
            BY <3>1, <3>2, <3>3, <3>4, <3>5, <3>6, Zenon DEF CleanInv
    <2> QED
        BY <2>9, <2>10, Zenon
<1>6. AdminTypeOK'
    BY <1>1, <1>4, Zenon DEF AdminInv, AdminTypeOK, tables, audits
<1>7. AuditKeepsNewest'
    BY <1>1, Zenon DEF AdminInv, AuditKeepsNewest, audits
<1> QED
    BY <1>1, <1>5, <1>6, <1>7, Zenon DEF AdminInv

\* Keys that expire and rows that change are none of the calls' doing.
LEMMA OutsideStep ==
    ASSUME AdminInv, UNCHANGED <<indexed, audits, admin, wronged>>, IsFiniteSet(DOMAIN rows'),
           onlineKeys' \subseteq onlineKeys, connKeys' \subseteq connKeys
    PROVE  AdminInv'
<1>1. AdminTypeOK' /\ Online' \subseteq Online
    BY Zenon DEF AdminInv, AdminTypeOK, audits, Online
<1>2. AuditKeepsNewest'
    BY Zenon DEF AdminInv, AuditKeepsNewest, audits
<1>3. ASSUME NEW a \in Admins PROVE CleanInv(a)' /\ StatsInv(a)'
    <2>1. CleanInv(a) /\ StatsInv(a)
        BY Zenon DEF AdminInv
    <2>2. (Cleaning(a)' <=> Cleaning(a)) /\ ToLookAt(a)' = ToLookAt(a)
        BY Zenon DEF Cleaning, ToLookAt
    <2> QED
        BY <1>1, <2>1, <2>2, Zenon DEF CleanInv, StatsInv
<1> QED
    BY <1>1, <1>2, <1>3, Zenon DEF AdminInv

Sizes == INSTANCE FiniteSetTheorems

\* Finite sets and their sizes are those that FiniteSetTheorems speaks of.
LEMMA SizesAgree == \A S : /\ Sizes!IsFiniteSet(S) <=> IsFiniteSet(S)
                           /\ Sizes!Cardinality(S) = Cardinality(S)
BY Zenon DEF IsFiniteSet, Cardinality, Sizes!IsFiniteSet, Sizes!Cardinality

\* The tables have some rows, and nobody has called yet.
LEMMA AdminInitially == AdminInit => AdminInv
<1> SUFFICES ASSUME AdminInit PROVE AdminInv
    BY Zenon
<1>1. IsFiniteSet(DOMAIN rows)
    <2>1. IsFiniteSet({<<Tables[1], 1>>, <<Tables[1], 2>>, <<Tables[2], 1>>})
        <3>1. IsFiniteSet({}) /\ IsFiniteSet({<<Tables[1], 1>>})
            BY SizesAgree, Sizes!FS_EmptySet, Sizes!FS_Singleton, Zenon
        <3>2. IsFiniteSet({<<Tables[1], 1>>} \cup {<<Tables[1], 2>>})
            BY <3>1, SizesAgree, Sizes!FS_AddElement, Zenon
        <3>3. IsFiniteSet({<<Tables[1], 1>>} \cup {<<Tables[1], 2>>} \cup {<<Tables[2], 1>>})
            BY <3>2, SizesAgree, Sizes!FS_AddElement, Zenon
        <3>4. {<<Tables[1], 1>>} \cup {<<Tables[1], 2>>} \cup {<<Tables[2], 1>>}
              = {<<Tables[1], 1>>, <<Tables[1], 2>>, <<Tables[2], 1>>}
            BY Zenon
        <3> QED
            BY <3>3, <3>4, Zenon
    <2> QED
        BY <2>1, Zenon DEF AdminInit
<1>2. AdminTypeOK
    <2>1. audit \in Seq(AuditEvent) /\ audited \in Seq(AuditEvent) /\ adminCalls \in Nat
        BY DEF AdminInit
    <2>2. admin \in [Admins -> AdminCall]
        BY NoAdminIsACall, Zenon DEF AdminInit
    <2> QED
        BY <1>1, <2>1, <2>2, Zenon DEF AdminTypeOK, AdminInit
<1>3. AuditKeepsNewest
    BY AdminAssumption DEF AdminInit, AuditKeepsNewest
<1>4. \A a \in Admins : admin[a] = NoAdmin
    BY Zenon DEF AdminInit
<1> QED
    BY <1>2, <1>3, <1>4, NoAdminIsClean, Zenon DEF AdminInv, AdminInit

\* The four statuses GetOutboxStats adds up are all there are, and are counted once.
LEMMA CountsAddUp ==
    ASSUME IsFiniteSet(DOMAIN rows)
    PROVE  /\ \A status \in SUBSET Nat : Count(status) \in Nat
           /\ Count({0, 4}) + Count({1}) + Count({2}) + Count({3}) = Count(0 .. 4)
<1> DEFINE C(status) == {r \in DOMAIN rows : r[1] = Tables[1] /\ rows[r] \in status}
<1>1. \A status \in SUBSET Nat : IsFiniteSet(C(status))
    BY SizesAgree, Sizes!FS_Subset, Zenon
<1>2. \A status \in SUBSET Nat : Count(status) = Cardinality(C(status)) /\ Count(status) \in Nat
    BY <1>1, SizesAgree, Sizes!FS_CardinalityType, Zenon DEF Count
<1>3. ASSUME NEW s \in SUBSET Nat, NEW t \in SUBSET Nat, s \cap t = {}
      PROVE  Count(s \cup t) = Count(s) + Count(t)
    <2>1. C(s \cup t) = C(s) \cup C(t) /\ C(s) \cap C(t) = {}
        BY <1>3, Zenon
    <2>2. IsFiniteSet(C(s)) /\ IsFiniteSet(C(t)) /\ Cardinality({}) = 0
        BY <1>1, SizesAgree, Sizes!FS_EmptySet, Zenon
    <2>3. Cardinality(C(s) \cup C(t)) = Cardinality(C(s)) + Cardinality(C(t)) - Cardinality(C(s) \cap C(t))
        BY <2>2, SizesAgree, Sizes!FS_Union, Zenon
    <2>4. s \cup t \in SUBSET Nat
        BY Zenon
    <2>5. /\ Count(s) = Cardinality(C(s)) /\ Count(t) = Cardinality(C(t)) /\ Count(s) \in Nat
          /\ Count(t) \in Nat /\ Count(s \cup t) = Cardinality(C(s \cup t))
        BY <1>2, <2>4, Zenon
    <2> HIDE DEF C
    <2>6. Cardinality(C(s \cup t)) = Cardinality(C(s) \cup C(t)) /\ Cardinality(C(s) \cap C(t)) = 0
        BY <2>1, <2>2, Zenon
    <2> QED
        BY <2>3, <2>5, <2>6
<1>4. Count({0, 4} \cup {1}) = Count({0, 4}) + Count({1})
    BY <1>3
<1>5. Count({0, 4} \cup {1} \cup {2}) = Count({0, 4} \cup {1}) + Count({2})
    BY <1>3
<1>6. Count({0, 4} \cup {1} \cup {2} \cup {3}) = Count({0, 4} \cup {1} \cup {2}) + Count({3})
    BY <1>3
<1>7. {0, 4} \cup {1} \cup {2} \cup {3} = 0 .. 4
    OBVIOUS
<1> QED
    BY <1>2, <1>4, <1>5, <1>6, <1>7, Zenon

\* GetOutboxStats counts each row under one status.
LEMMA GetOutboxStatsStep ==
    ASSUME AdminInv, NEW a \in Admins, GetOutboxStats(a)
    PROVE  AdminInv'
<1>1. /\ AdminTypeOK /\ admin[a] \in AdminCall /\ admin[a].op = "GetOutboxStats"
      /\ UNCHANGED <<tables, keys, audits, wronged>>
    BY Zenon DEF AdminInv, AdminTypeOK, GetOutboxStats
<1>2. ASSUME NEW r \in AdminCall, proceed(a, r), r.op = "GetOutboxStats", r.at = "answer",
             r.stats # <<>> /\ ~ r.failed => r.stats[1] + r.stats[2] + r.stats[3] + r.stats[4] = r.total
      PROVE  AdminInv'
    <2>1. admin'[a] = r => CleanInv(a)' /\ StatsInv(a)'
        BY <1>2, Zenon DEF CleanInv, StatsInv, Cleaning
    <2> QED
        BY <1>1, <1>2, <2>1, CallMoves, Zenon
<1>3. CASE proceed(a, [admin[a] EXCEPT !.at = "answer", !.failed = TRUE, !.stats = <<0, 0, 0, 0>>])
    <2> DEFINE r == [admin[a] EXCEPT !.at = "answer", !.failed = TRUE, !.stats = <<0, 0, 0, 0>>]
    <2>0. <<0, 0, 0, 0>> \in Seq(Nat)
        OBVIOUS
    <2>1. r \in AdminCall
        BY <1>1, <2>0, Zenon DEF AdminCall, AdminPlaces
    <2>2. r.op = "GetOutboxStats" /\ r.at = "answer" /\ r.failed
        BY <1>1, Zenon DEF AdminCall
    <2>3. proceed(a, r)
        BY <1>3, Zenon
    <2> HIDE DEF r
    <2> QED
        BY <1>2, <2>1, <2>2, <2>3, Zenon
<1>4. CASE proceed(a, [admin[a] EXCEPT !.at = "answer", !.total = Count(0 .. 4),
                           !.stats = <<Count({0, 4}), Count({1}), Count({2}), Count({3})>>])
    <2>1. PICK n0 \in Nat, n1 \in Nat, n2 \in Nat, n3 \in Nat, n \in Nat :
              /\ n0 = Count({0, 4}) /\ n1 = Count({1}) /\ n2 = Count({2}) /\ n3 = Count({3})
              /\ n = Count(0 .. 4) /\ n0 + n1 + n2 + n3 = n
        <3>1. {0, 4} \in SUBSET Nat /\ {1} \in SUBSET Nat /\ {2} \in SUBSET Nat /\ {3} \in SUBSET Nat
              /\ 0 .. 4 \in SUBSET Nat
            OBVIOUS
        <3> QED
            BY <1>1, <3>1, CountsAddUp, Zenon DEF AdminTypeOK
    <2> DEFINE r == [admin[a] EXCEPT !.at = "answer", !.total = n, !.stats = <<n0, n1, n2, n3>>]
    <2>0. <<n0, n1, n2, n3>> \in Seq(Nat)
        OBVIOUS
    <2>2. r \in AdminCall
        BY <1>1, <2>0, Zenon DEF AdminCall, AdminPlaces
    <2>3. r.op = "GetOutboxStats" /\ r.at = "answer" /\ r.stats = <<n0, n1, n2, n3>> /\ r.total = n
        BY <1>1, Zenon DEF AdminCall
    <2>4. proceed(a, r)
        BY <1>4, <2>1, Zenon
    <2> HIDE DEF r
    <2>5. r.stats[1] + r.stats[2] + r.stats[3] + r.stats[4] = r.total
        BY <2>1, <2>3
    <2> QED
        BY <1>2, <2>2, <2>3, <2>4, <2>5, Zenon
<1> QED
    BY <1>3, <1>4, Zenon DEF GetOutboxStats

\* Every step of the calls, and of what goes on beside them, keeps the invariant.
LEMMA AdminStep ==
    ASSUME AdminInv, [AdminNext]_adminVars
    PROVE  AdminInv'
<1>1. IsFiniteSet(DOMAIN rows)
    BY Zenon DEF AdminInv, AdminTypeOK
<1>2. CASE UNCHANGED adminVars
    BY <1>1, <1>2, OutsideStep, Zenon DEF adminVars, audits
<1>3. ASSUME NEW a \in Admins, readOnly(a) \/ reported(a) PROVE AdminInv'
    BY <1>3, CallEnds, Zenon DEF readOnly, reported
<1>4. ASSUME NEW d \in AdminDevices, keyExpires(d) PROVE AdminInv'
    BY <1>1, <1>4, OutsideStep, Zenon DEF keyExpires, tables
<1>5. ASSUME NEW r \in DOMAIN rows, rowChanges(r) PROVE AdminInv'
    <2>1. DOMAIN rows' = DOMAIN rows /\ UNCHANGED <<keys, audits, admin, wronged>>
        BY <1>5, Zenon DEF rowChanges
    <2> QED
        BY <1>1, <2>1, OutsideStep, Zenon DEF keys
<1> QED
    BY Zenon, <1>2, <1>3, <1>4, <1>5, AuthorizeStep, GetOutboxStatsStep, RunCleanupStep, CleanupRowsStep,
       SmembersStep, NextDeviceStep, ExistsOnlineStep, ExistsConnStep, DelOnlineStep, DelConnStep,
       SremStep, DeviceOnlineStep DEF AdminNext

\* For every number of concurrent calls and devices: a cleanup that prunes less than a
\* batch leaves no device that was stale when it began, no cleanup takes the keys of a
\* device that is online, except of one that logged in after the EXISTS that found it
\* stale, the four counts of GetOutboxStats add up to the rows of the outbox, and the
\* audit trail has the newest decisions without a hole.
THEOREM AdminHolds == AdminSpec => []AdminIsExact
<1>1. AdminInit => AdminInv
    BY AdminInitially, Zenon
<1>2. AdminInv /\ [AdminNext]_adminVars => AdminInv'
    BY AdminStep, Zenon
<1>3. AdminInv => AdminIsExact
    BY AdminFromInv, Zenon
<1> QED
    BY <1>1, <1>2, <1>3, PTL DEF AdminSpec
=============================================================================
