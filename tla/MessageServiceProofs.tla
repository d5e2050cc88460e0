------------------------ MODULE MessageServiceProofs ------------------------
(***************************************************************************)
(* The steps of MessageService that need facts about finite sets (the order*)
(* of a group's members, the unread counts), every step together, and the  *)
(* properties that follow from the invariant.                              *)
(***************************************************************************)
EXTENDS MessageRequestProofs, FiniteSetTheorems

-----------------------------------------------------------------------------
(* SendMessage                                                              *)

\* The audience of a send to a pair of users is the pair; a group's are users.
LEMMA AudienceFacts ==
    ASSUME NEW u \in Users, NEW c \in Convs, NEW listed \in SUBSET Users,
           NEW d \in Audience(u, c, listed), u \in c \/ c = Group
    PROVE  /\ d \in Seq(Users)
           /\ c # Group => /\ \A w \in c : \E i \in 1 .. Len(d) : d[i] = w
                           /\ \A i \in 1 .. Len(d) : d[i] \in c
<1>1. CASE c = Group
    <2>1. d \in [1 .. Cardinality(listed) -> listed]
        BY <1>1, Zenon DEF Audience
    <2>2. Cardinality(listed) \in Nat
        BY MessageServiceAssumption, FS_Subset, FS_CardinalityType, Zenon
    <2> QED
        BY <1>1, <2>1, <2>2
<1>2. CASE c # Group
    <2>1. PICK v \in c \ {u} : d = <<u, v>>
        BY <1>2, Zenon DEF Audience
    <2>2. c \in SUBSET Users /\ Cardinality(c) = 2 /\ IsFiniteSet(c)
        BY <1>2, MessageServiceAssumption, FS_Subset, Zenon
    <2>3. c \ {u, v} = {}
        <3>1. IsFiniteSet(c \ {u}) /\ Cardinality(c \ {u}) = 1
            BY <1>2, <2>2, FS_RemoveElement
        <3>2. IsFiniteSet((c \ {u}) \ {v}) /\ Cardinality((c \ {u}) \ {v}) = 0
            BY <2>1, <3>1, FS_RemoveElement
        <3>3. (c \ {u}) \ {v} = {}
            BY <3>2, FS_EmptySet
        <3> QED
            BY <3>3
    <2>4. Len(d) = 2 /\ d[1] = u /\ d[2] = v /\ d \in Seq(Users)
        BY <2>1, <2>2
    <2> QED
        BY <1>2, <2>1, <2>3, <2>4
<1> QED
    BY <1>1, <1>2, Zenon

\* A send that is not answered at once takes the next id.
LEMMA NewSendStep ==
    ASSUME MessageInv, NEW t \in Threads, NEW c \in Convs,
           NEW r \in Request, r.op = "send", r.id = calls + 1, r.conv = c,
           Accept(t, r, "insert"), NEW d \in Seq(Users), todo' = [todo EXCEPT ![t] = d],
           c # Group => /\ \A w \in c : \E i \in 1 .. Len(d) : d[i] = w
                        /\ \A i \in 1 .. Len(d) : d[i] \in c,
           UNCHANGED <<members, replies, tx>>, TablesStay
    PROVE  MessageInv'
<1>1. /\ ThreadsInv' /\ OthersStay(t)
      /\ pc'[t] = "insert" /\ req'[t] = r /\ todo'[t] = d /\ tx'[t] = tx[t]
      /\ DOMAIN tx[t].rows = {} /\ tx[t].read = {}
      /\ calls' = calls + 1
    <2>1. "insert" \in Places
        BY Zenon DEF Places
    <2> QED
        BY <2>1, AcceptFacts, Zenon
<1>2. AloneAt(t)'
    <2>1. calls \in Nat /\ DOMAIN messages \subseteq 1 .. calls
        BY ThreadFacts, Zenon DEF StoredInv, TablesInv
    <2>2. Sending(pc[t], req[t], todo[t])'
        BY <1>1, <2>1 DEF Sending, TablesStay
    <2>3. Addressed(pc[t], req[t], todo[t], tx[t])'
        BY <1>1 DEF Addressed
    <2> QED
        BY <1>1, <2>2, <2>3, Zenon DEF AloneAt, Alone, Place, Upserted, Naming, Counting, HasCounted
<1>3. ApartFrom(t)'
    <2> SUFFICES ASSUME NEW v \in Threads \ {t}
                 PROVE  /\ Apart("insert", r, tx[t], pc[v], req[v], tx[v])
                        /\ Apart(pc[v], req[v], tx[v], "insert", r, tx[t])
        BY <1>1 DEF ApartFrom, OthersStay, Stays
    <2>1. req[v].op = "send" => req[v].id # r.id
        BY ThreadFacts DEF AloneAt, Alone, Sending
    <2> QED
        BY <1>1, <2>1, Zenon DEF Apart, HasWritten, HasCounted
<1>4. members' \subseteq Users /\ calls' \in Nat /\ calls' >= calls /\ RepliesInv'
    BY <1>1, ThreadFacts, NoReply, SMTT(20) DEF TablesStay
<1> QED
    BY <1>1, <1>2, <1>3, <1>4, LocalStep, Zenon

\* SendMessage: an answer at once names a stored message of the request.
LEMMA SendStep ==
    ASSUME MessageInv, NEW t \in Threads, NEW u \in Users, NEW c \in Convs, NEW q \in Seqs,
           SendMessage(t, u, c, q)
    PROVE  MessageInv'
<1> DEFINE r == [op |-> "send", user |-> u, conv |-> c, seq |-> q, id |-> calls + 1]
<1>1. q \in Nat /\ (u \in c \/ c = Group) /\ UNCHANGED <<members, tx>> /\ TablesStay
    BY MessageServiceAssumption, Zenon DEF SendMessage, tables, TablesStay
<1>2. CASE \E existing : /\ Confirmed(existing, u, q) \/ existing = getMessageByClientSequence(u, q)
                         /\ existing # NoId /\ ReplyOk(r, existing)
                         /\ calls' = calls + 1 /\ UNCHANGED <<pc, req, todo>>
    <2>1. PICK existing : /\ Confirmed(existing, u, q) \/ existing = getMessageByClientSequence(u, q)
                          /\ existing # NoId /\ ReplyOk(r, existing)
                          /\ calls' = calls + 1 /\ UNCHANGED <<pc, req, todo>>
        BY <1>2, Zenon
    <2>2. /\ existing \in DOMAIN messages
          /\ messages[existing].from = u /\ messages[existing].seq = q
        BY <2>1, ThreadFacts, LookupFacts DEF Confirmed
    <2>3. RepliesInv'
        BY <1>1, <2>1, <2>2, ThreadFacts, ReplyStep, Zenon DEF TablesStay
    <2>4. members' \subseteq Users /\ calls' \in Nat /\ calls' >= calls
        BY <1>1, <2>1, ThreadFacts
    <2> QED
        BY <1>1, <2>1, <2>3, <2>4, StillStep, Zenon
<1>3. CASE \E listed \in SUBSET Users : \E d \in Audience(u, c, listed) :
              Accept(t, r, "insert") /\ todo' = [todo EXCEPT ![t] = d] /\ UNCHANGED replies
    <2>3. PICK listed \in SUBSET Users : \E d \in Audience(u, c, listed) :
              Accept(t, r, "insert") /\ todo' = [todo EXCEPT ![t] = d] /\ UNCHANGED replies
        BY <1>3, Zenon
    <2>1. PICK d \in Audience(u, c, listed) :
              Accept(t, r, "insert") /\ todo' = [todo EXCEPT ![t] = d] /\ UNCHANGED replies
        BY <2>3, Zenon
    <2>2. /\ d \in Seq(Users)
          /\ c # Group => /\ \A w \in c : \E i \in 1 .. Len(d) : d[i] = w
                          /\ \A i \in 1 .. Len(d) : d[i] \in c
        BY <1>1, AudienceFacts, Zenon
    <2>4. r \in Request /\ r.op = "send" /\ r.id = calls + 1 /\ r.conv = c
        BY <1>1, ThreadFacts DEF Request, Ops
    <2> HIDE DEF r
    <2> QED
        BY <1>1, <2>1, <2>2, <2>4, NewSendStep, Zenon
<1>4. PICK cached \in {dedup[<<u, q>>], NoId}, healthy \in BOOLEAN,
           listed \in IF c = Group THEN {members, {}} ELSE {members} :
        LET existing == IF q # 0 /\ Confirmed(cached, u, q) THEN cached
                        ELSE IF healthy THEN getMessageByClientSequence(u, q)
                        ELSE NoId
        IN  \/ /\ existing # NoId
               /\ calls' = calls + 1
               /\ ReplyOk(r, existing)
               /\ UNCHANGED <<pc, req, todo>>
            \/ /\ Accept(t, r, "insert")
               /\ \E owners \in Audience(u, c, listed) : todo' = [todo EXCEPT ![t] = owners]
               /\ UNCHANGED replies
    BY DEF SendMessage
<1>5. listed \in SUBSET Users
    BY ThreadFacts
<1> HIDE DEF r
<1> QED
    BY <1>2, <1>3, <1>4, <1>5

-----------------------------------------------------------------------------
(* The counts                                                               *)

\* There are finitely many messages to count.
LEMMA FiniteMessages ==
    ASSUME StoredInv, NEW S \in SUBSET DOMAIN messages
    PROVE  IsFiniteSet(S) /\ Cardinality(S) \in Nat
<1>1. calls \in Nat /\ S \in SUBSET (1 .. calls)
    BY Zenon DEF StoredInv, TablesInv
<1>2. IsFiniteSet(1 .. calls)
    BY <1>1, FS_Interval
<1> QED
    BY <1>1, <1>2, FS_Subset, FS_CardinalityType

\* recalculateUnread: the rows are counted, and what was counted is locked.
LEMMA RecountStep ==
    ASSUME MessageInv, NEW t \in Threads, recalculateUnread(t) PROVE MessageInv'
<1> DEFINE c == req[t].conv
           owners == {u \in Recounted(t) : <<c, u>> \in DOMAIN conversations}
           old(u) == conversations[<<c, u>>]
           R == [u \in owners |->
                   [old(u) EXCEPT
                       !.unread = Cardinality(UnreadSeenBy(t, c, u)),
                       !.hidden = @ \/ (req[t].op = "recall" /\ old(u).last = req[t].id)]]
<1>1. /\ pc[t] = "recount" /\ CanExecute(t) /\ TablesStay
      /\ UNCHANGED <<members, replies, calls, req, todo>>
      /\ tx' = [tx EXCEPT ![t].rows = R] /\ pc' = [pc EXCEPT ![t] = "commit"]
    BY Zenon DEF recalculateUnread, tables, TablesStay
<1>2. members' \subseteq Users /\ calls' \in Nat /\ calls' >= calls /\ RepliesInv'
    <2>1. UNCHANGED <<members, replies, calls, messages>>
        BY Zenon DEF recalculateUnread, tables
    <2> QED
        BY <2>1, ThreadFacts, NoReply
<1>3. /\ req[t].op \in {"recall", "readMessage", "readConversation"} /\ req[t].user \in Users
      /\ Place(pc[t], req[t], tx[t]) /\ Naming(pc[t], req[t], tx[t])
    BY <1>1, ThreadFacts, Zenon DEF AloneAt, Alone, Place, Request
<1>4. DOMAIN R \subseteq Users /\ DOMAIN R \subseteq Recounted(t) /\ DOMAIN R = owners
    BY <1>3, Zenon DEF Recounted
<1>5. ASSUME NEW u \in DOMAIN R
      PROVE  /\ R[u] \in Row /\ R[u].last = old(u).last
             /\ R[u].hidden <=> \/ old(u).hidden
                                \/ req[t].op = "recall" /\ R[u].last = req[t].id
             /\ R[u].unread = Cardinality(Seen(req[t], tx[t], c, u))
    <2>1. old(u) \in Row
        BY ThreadFacts, Zenon DEF StoredInv, TablesInv
    <2>2. UnreadSeenBy(t, c, u) = Seen(req[t], tx[t], c, u)
        BY Zenon DEF UnreadSeenBy, Seen
    <2>3. Cardinality(Seen(req[t], tx[t], c, u)) \in Nat
        BY FiniteMessages, ThreadFacts, Zenon DEF Seen
    <2> HIDE DEF old
    <2> QED
        BY <2>1, <2>2, <2>3, Zenon DEF Row
<1> HIDE DEF R
<1>6. R \in Rows
    <2>1. R \in [DOMAIN R -> Row]
        <3>1. R = [u \in DOMAIN R |-> R[u]]
            BY Zenon DEF R
        <3> QED
            BY <1>5, <3>1, Zenon
    <2> QED
        BY <1>4, <2>1, RowsType, Zenon
<1>7. /\ ThreadsInv' /\ OthersStay(t)
      /\ pc'[t] = "commit" /\ req'[t] = req[t] /\ todo'[t] = todo[t]
      /\ tx'[t].rows = R /\ tx'[t].read = tx[t].read
    <2>1. "commit" \in Places /\ ThreadsInv
        BY ThreadFacts, Zenon DEF Places
    <2> QED
        BY <1>1, <1>6, <2>1, Zenon DEF ThreadsInv, OthersStay, Stays
<1>8. AloneAt(t)'
    <2>1. Place(pc[t], req[t], tx[t])'
        BY <1>1, <1>3, <1>7, Zenon DEF Place
    <2>2. Naming(pc[t], req[t], tx[t])'
        BY <1>1, <1>3, <1>7, Zenon DEF Naming, TablesStay
    <2>3. Counting(pc[t], req[t], tx[t])'
        <3>1. \A u \in Users : u \in DOMAIN R <=>
                  <<c, u>> \in DOMAIN conversations /\ (req[t].op = "recall" \/ u = req[t].user)
            BY <1>4, Zenon DEF Recounted
        <3>2. \A u : Seen(req[t], tx[t], c, u)' = Seen(req[t], tx[t], c, u)
            BY <1>1, <1>7 DEF Seen, TablesStay
        <3> QED
            BY <1>1, <1>5, <1>7, <3>1, <3>2 DEF Counting, TablesStay
    <2>4. /\ Sending(pc[t], req[t], todo[t])' /\ Upserted(req[t], tx[t])'
          /\ Addressed(pc[t], req[t], todo[t], tx[t])'
        BY <1>3, <1>7, Zenon DEF Sending, Upserted, Addressed
    <2> QED
        BY <2>1, <2>2, <2>3, <2>4, Zenon DEF AloneAt, Alone
<1>9. ApartFrom(t)'
    <2> SUFFICES ASSUME NEW v \in Threads \ {t}
                 PROVE  /\ Apart("commit", req[t], tx'[t], pc[v], req[v], tx[v])
                        /\ Apart(pc[v], req[v], tx[v], "commit", req[t], tx'[t])
        BY <1>7, Zenon DEF ApartFrom, OthersStay, Stays
    <2>1. /\ Apart(pc[t], req[t], tx[t], pc[v], req[v], tx[v])
          /\ Apart(pc[v], req[v], tx[v], pc[t], req[t], tx[t])
        BY ThreadFacts, Zenon DEF ApartFrom
    <2>2. req[v].conv = c => ~ Wrote(v) /\ Recounted(t) \cap DOMAIN tx[v].rows = {}
        BY <1>1, Zenon DEF CanExecute, Blocks
    <2>3. req[v].conv = c => DOMAIN R \cap DOMAIN tx[v].rows = {}
        BY <1>4, <2>2, Zenon
    <2> QED
        BY <1>1, <1>3, <1>7, <2>1, <2>2, <2>3, SMTT(20) DEF Apart, HasWritten, HasCounted, Wrote
<1> QED
    BY <1>1, <1>2, <1>7, <1>8, <1>9, LocalStep, Zenon

\* A send adds one message to count for everybody but the sender.
LEMMA SendCounts ==
    ASSUME MessageInv, NEW t \in Threads, pc[t] = "commit", req[t].op = "send", Apply(t)
    PROVE  UnreadIsExact'
<1>a. PICK c, id, w : c = req[t].conv /\ id = req[t].id /\ w = req[t].user
    BY Zenon
<1> DEFINE rows == tx[t].rows
<1>1. /\ id \notin DOMAIN messages /\ c \in Convs
      /\ DOMAIN messages' = DOMAIN messages \cup {id}
      /\ messages'[id] = [from |-> w, seq |-> req[t].seq, conv |-> c, recalled |-> FALSE]
      /\ \A m \in DOMAIN messages : messages'[m] = messages[m]
      /\ receipts' = receipts
    BY <1>a, SendApplied, Zenon
<1>2. messages'[id].from = w /\ messages'[id].conv = c /\ ~ messages'[id].recalled
    BY <1>1
<1>3. /\ \A k : k \in DOMAIN conversations' <=>
                  k \in DOMAIN conversations \/ \E u \in DOMAIN rows : k = <<c, u>>
      /\ \A u \in DOMAIN rows : conversations'[<<c, u>>] = rows[u]
      /\ \A k \in DOMAIN conversations :
            k[1] # c \/ k[2] \notin DOMAIN rows => conversations'[k] = conversations[k]
      /\ DOMAIN conversations' \subseteq Convs \X Users
    BY <1>a, <1>1, RowsApplied
<1>4. /\ UnreadIsExact /\ PairsInv /\ TablesInv /\ StoredInv
      /\ Upserted(req[t], tx[t]) /\ Addressed(pc[t], req[t], todo[t], tx[t])
    BY ThreadFacts, Zenon DEF StoredInv, AloneAt, Alone
<1>5. /\ \A u \in DOMAIN rows : rows[u].unread = Base(c, u) + (IF u = w THEN 0 ELSE 1)
      /\ c # Group => \A u \in c : u \in DOMAIN rows
      /\ c # Group => \A u \in DOMAIN rows : u \in c
    <2>1. Len(todo[t]) = 0
        BY ThreadFacts DEF AloneAt, Alone, Sending
    <2> QED
        BY <1>a, <1>4, <2>1 DEF Upserted, Addressed
<1> HIDE DEF rows
<1>6. \A u : <<id, u>> \notin receipts
    BY <1>1, <1>4 DEF TablesInv
<1>7. ASSUME NEW a, NEW u, a # c \/ u = w PROVE Unread(a, u)' = Unread(a, u)
    BY <1>1, <1>2, <1>7, Zenon DEF Unread
<1>8. ASSUME NEW u, u # w
      PROVE  Unread(c, u)' = Unread(c, u) \cup {id} /\ id \notin Unread(c, u)
    <2>1. id \notin Unread(c, u)
        BY <1>1, Zenon DEF Unread
    <2>2. id \in Unread(c, u)'
        BY <1>1, <1>2, <1>6, <1>8, Zenon DEF Unread
    <2>3. ASSUME NEW m, m # id PROVE m \in Unread(c, u)' <=> m \in Unread(c, u)
        BY <1>1, <2>3, Zenon DEF Unread
    <2> QED
        BY <2>1, <2>2, <2>3, Zenon
<1>9. \A a, u : IsFiniteSet(Unread(a, u)) /\ Cardinality(Unread(a, u)) \in Nat
    BY <1>4, FiniteMessages, Zenon DEF Unread
<1>10. ASSUME NEW u
       PROVE  Cardinality(Unread(c, u)') = Cardinality(Unread(c, u)) + (IF u = w THEN 0 ELSE 1)
    <2>1. CASE u = w
        BY <1>7, <1>9, <2>1
    <2>2. CASE u # w
        BY <1>8, <1>9, <2>2, FS_AddElement, Zenon
    <2> QED
        BY <2>1, <2>2, Zenon
<1>11. ASSUME NEW u \in DOMAIN rows
       PROVE  /\ Base(c, u) \in Nat
              /\ Base(c, u) <= Cardinality(Unread(c, u))
              /\ c # Group => Base(c, u) = Cardinality(Unread(c, u))
    <2>1. CASE <<c, u>> \in DOMAIN conversations
        <3>1. Base(c, u) = conversations[<<c, u>>].unread /\ Base(c, u) \in Nat
            BY <1>4, <2>1, Zenon DEF Base, TablesInv, Row
        <3> QED
            BY <1>4, <2>1, <3>1, Zenon DEF UnreadIsExact
    <2>2. CASE <<c, u>> \notin DOMAIN conversations
        <3>1. Base(c, u) = 0
            BY <2>2, Zenon DEF Base
        <3>2. ASSUME c # Group PROVE Unread(c, u) = {}
            BY <1>4, <1>5, <2>2, <3>2, Zenon DEF Unread, PairsInv
        <3> QED
            BY <1>9, <3>1, <3>2, FS_EmptySet
    <2> QED
        BY <2>1, <2>2
<1> SUFFICES ASSUME NEW k \in DOMAIN conversations'
             PROVE  /\ conversations'[k].unread <= Cardinality(Unread(k[1], k[2])')
                    /\ k[1] # Group => conversations'[k].unread = Cardinality(Unread(k[1], k[2])')
    BY Zenon DEF UnreadIsExact
<1>12. k = <<k[1], k[2]>>
    BY <1>3
<1>13. CASE k[1] = c /\ k[2] \in DOMAIN rows
    <2>1. conversations'[k].unread = Base(c, k[2]) + (IF k[2] = w THEN 0 ELSE 1)
        BY <1>3, <1>5, <1>12, <1>13
    <2> QED
        BY <1>9, <1>10, <1>11, <1>13, <2>1
<1>14. CASE k[1] # c
    BY <1>3, <1>4, <1>7, <1>12, <1>14 DEF UnreadIsExact
<1>15. CASE k[1] = c /\ k[2] \notin DOMAIN rows
    <2>1. k \in DOMAIN conversations /\ conversations'[k] = conversations[k]
        BY <1>3, <1>12, <1>15
    <2>2. conversations[k].unread \in Nat /\ conversations[k].unread <= Cardinality(Unread(c, k[2]))
        BY <1>4, <1>15, <2>1, Zenon DEF UnreadIsExact, TablesInv, Row
    <2>3. c = Group
        BY <1>4, <1>5, <1>15, <2>1, Zenon DEF PairsInv
    <2> QED
        BY <1>9, <1>10, <1>15, <2>1, <2>2, <2>3
<1> QED
    BY <1>13, <1>14, <1>15, Zenon

\* The tables stay well formed, a recalled message is announced, and the previews and
\* the unread counts are right again.
LEMMA CountKeeps ==
    ASSUME MessageInv, NEW t \in Threads, pc[t] = "commit", req[t].op # "send", Apply(t),
           UNCHANGED <<members, calls, replies>>
    PROVE  StoredInv' /\ RepliesInv'
<1>a. PICK c, id, w : c = req[t].conv /\ id = req[t].id /\ w = req[t].user
    BY Zenon
<1> DEFINE recall == req[t].op = "recall"
           read == tx[t].read
<1>1. /\ id \in DOMAIN messages /\ messages[id].conv = c /\ c \in Convs
      /\ recall => ~ messages[id].recalled
      /\ DOMAIN messages' = DOMAIN messages /\ messages' \in [DOMAIN messages -> Message]
      /\ \A m \in DOMAIN messages :
            /\ messages'[m].from = messages[m].from /\ messages'[m].seq = messages[m].seq
            /\ messages'[m].conv = messages[m].conv
            /\ messages'[m].recalled <=> messages[m].recalled \/ (recall /\ m = id)
      /\ \A m, u : <<m, u>> \in receipts' <=> <<m, u>> \in receipts \/ (u = w /\ m \in read)
      /\ \A m \in read : m \in DOMAIN messages /\ messages[m].conv = c
      /\ outbox' = IF recall THEN Append(outbox, [kind |-> "recall", id |-> id]) ELSE outbox
    BY <1>a, CountApplied
<1>2. /\ DOMAIN conversations' = DOMAIN conversations
      /\ conversations' \in [DOMAIN conversations -> Row]
      /\ \A k \in DOMAIN conversations :
            /\ conversations'[k].last = conversations[k].last
            /\ \/ /\ k[1] # c \/ (~ recall /\ k[2] # w)
                  /\ conversations'[k] = conversations[k]
               \/ /\ k[1] = c
                  /\ conversations'[k].hidden <=>
                       \/ conversations[k].hidden
                       \/ recall /\ conversations[k].last = id
                  /\ conversations'[k].unread = Cardinality(Seen(req[t], tx[t], k[1], k[2]))
    BY <1>a, CountedRows
<1>3. /\ TablesInv /\ KeyInv /\ LastInv /\ PairsInv /\ RepliesInv
      /\ RecalledPreviewIsHidden /\ OutboxMatchesMessages /\ UnreadIsExact
    BY ThreadFacts, Zenon DEF StoredInv
<1>4. \A a, u : Seen(req[t], tx[t], a, u) =
         {m \in DOMAIN messages :
             /\ messages[m].conv = a /\ messages[m].from # u /\ ~ messages[m].recalled
             /\ ~ (recall /\ m = id) /\ <<m, u>> \notin receipts /\ ~ (u = w /\ m \in read)}
    BY <1>a DEF Seen
<1> HIDE DEF recall, read
<1>5. TablesInv'
    <2>1. outbox' \in Seq(Event)
        <3>1. [kind |-> "recall", id |-> id] \in Event
            BY <1>1, <1>3 DEF TablesInv, Event
        <3> QED
            BY <1>1, <1>3, <3>1 DEF TablesInv
    <2>2. \A m, u : <<m, u>> \in receipts' => m \in DOMAIN messages'
        BY <1>1, <1>3, Zenon DEF TablesInv
    <2> QED
        BY <1>1, <1>2, <1>3, <2>1, <2>2, Zenon DEF TablesInv
<1>6. KeyInv' /\ RepliesInv'
    BY <1>1, <1>3 DEF KeyInv, RepliesInv
<1>7. LastInv' /\ PairsInv'
    BY <1>1, <1>2, <1>3 DEF LastInv, PairsInv
<1>8. RecalledPreviewIsHidden'
    <2> SUFFICES ASSUME NEW k \in DOMAIN conversations
                 PROVE  conversations'[k].hidden <=> messages'[conversations'[k].last].recalled
        BY <1>2 DEF RecalledPreviewIsHidden
    <2>1. /\ conversations[k].last \in DOMAIN messages
          /\ messages[conversations[k].last].conv = k[1]
          /\ conversations[k].hidden <=> messages[conversations[k].last].recalled
        BY <1>3, Zenon DEF LastInv, RecalledPreviewIsHidden
    <2> QED
        BY <1>1, <1>2, <2>1
<1>9. OutboxMatchesMessages'
    <2>1. outbox \in Seq(Event) /\ outbox' \in Seq(Event)
        BY <1>3, <1>5, Zenon DEF TablesInv
    <2>2. Announced(outbox, messages)
        BY <1>3, <2>1, OutboxMeaning, Zenon DEF OutboxMatchesMessages
    <2>3. Announced(outbox', messages')
        <3>1. CASE recall
            <4>1. id \in Nat
                BY <1>1, <1>3 DEF TablesInv
            <4>2. /\ ~ messages[id].recalled /\ messages'[id].recalled
                  /\ \A m \in DOMAIN messages :
                        m # id => (messages'[m].recalled <=> messages[m].recalled)
                BY <1>1, <3>1, Zenon
            <4>3. Announced(Append(outbox, [kind |-> "recall", id |-> id]), messages')
                BY <1>1, <2>1, <2>2, <4>1, <4>2, AnnounceRecall
            <4> QED
                BY <1>1, <3>1, <4>3
        <3>2. CASE ~ recall
            BY <1>1, <2>2, <3>2, Zenon DEF Announced
        <3> QED
            BY <3>1, <3>2, Zenon
    <2> QED
        BY <2>1, <2>3, OutboxMeaning, Zenon DEF OutboxMatchesMessages
<1>10. UnreadIsExact'
    <2> SUFFICES ASSUME NEW k \in DOMAIN conversations
                 PROVE  /\ conversations'[k].unread <= Cardinality(Unread(k[1], k[2])')
                        /\ k[1] # Group =>
                             conversations'[k].unread = Cardinality(Unread(k[1], k[2])')
        BY <1>2, Zenon DEF UnreadIsExact
    <2>1. CASE /\ k[1] # c \/ (~ recall /\ k[2] # w)
               /\ conversations'[k] = conversations[k]
        <3>1. Unread(k[1], k[2])' = Unread(k[1], k[2])
            BY <1>1, <2>1 DEF Unread
        <3> QED
            BY <1>3, <2>1, <3>1 DEF UnreadIsExact
    <2>2. CASE conversations'[k].unread = Cardinality(Seen(req[t], tx[t], k[1], k[2]))
        <3>1. Unread(k[1], k[2])' = Seen(req[t], tx[t], k[1], k[2])
            BY <1>1, <1>4 DEF Unread
        <3>2. conversations'[k].unread \in Nat
            BY <1>2 DEF Row
        <3> QED
            BY <2>2, <3>1, <3>2
    <2> QED
        BY <1>2, <2>1, <2>2, Zenon
<1> QED
    BY <1>3, <1>5, <1>6, <1>7, <1>8, <1>9, <1>10, Zenon DEF StoredInv

-----------------------------------------------------------------------------
(* Commits                                                                  *)

\* What COMMIT makes visible keeps the tables and the other requests in order.
LEMMA Applied ==
    ASSUME MessageInv, NEW t \in Threads, pc[t] = "commit", Apply(t), OthersStay(t),
           UNCHANGED <<members, calls, replies>>
    PROVE  StoredInv' /\ RepliesInv' /\ \A v \in Threads \ {t} : AloneAt(v)'
<1>1. CASE req[t].op = "send"
    BY <1>1, SendKeeps, SendCounts, SendOthers, Zenon DEF StoredInv, OthersStay
<1>2. CASE req[t].op # "send"
    BY <1>2, CountKeeps, CountOthers, Zenon DEF OthersStay
<1> QED
    BY <1>1, <1>2, Zenon

\* commit: a send goes on to mark its key, the others return.
LEMMA CommitStep ==
    ASSUME MessageInv, NEW t \in Threads, commit(t) PROVE MessageInv'
<1>1. pc[t] = "commit" /\ Apply(t) /\ UNCHANGED <<members, calls, replies>>
    BY Zenon DEF commit
<1>2. CASE req[t].op = "send"
    <2>1. /\ pc' = [pc EXCEPT ![t] = "mark"] /\ tx' = [tx EXCEPT ![t] = EmptyTx]
          /\ UNCHANGED <<req, todo>>
        BY <1>2, Zenon DEF commit
    <2>2. EmptyTx \in [rows : Rows, read : SUBSET Nat]
        BY RowsType, Zenon DEF EmptyTx
    <2>3. /\ ThreadsInv' /\ OthersStay(t)
          /\ pc'[t] = "mark" /\ tx'[t] = EmptyTx /\ req'[t] = req[t] /\ todo'[t] = todo[t]
        BY <2>1, <2>2, ThreadFacts, Zenon DEF ThreadsInv, Places, OthersStay, Stays
    <2>4. Sending("mark", req[t], todo[t])'
        <3>1. /\ req[t].id \in 1 .. calls /\ req[t].conv \in Convs
              /\ DOMAIN messages' = DOMAIN messages \cup {req[t].id}
              /\ messages'[req[t].id] = [from |-> req[t].user, seq |-> req[t].seq,
                                         conv |-> req[t].conv, recalled |-> FALSE]
            BY <1>1, <1>2, SendApplied, Zenon
        <3>2. /\ req[t].id \in DOMAIN messages'
              /\ messages'[req[t].id].from = req[t].user /\ messages'[req[t].id].seq = req[t].seq
            BY <3>1
        <3> QED
            BY <1>1, <2>3, <3>1, <3>2, Zenon DEF Sending
    <2>5. AloneAt(t)'
        <3>a. DOMAIN EmptyTx.rows = {} /\ EmptyTx.read = {}
            BY DEF EmptyTx
        <3>b. Place("mark", req[t], EmptyTx)'
            BY <1>2, <2>3, <3>a, Zenon DEF Place
        <3>1. Upserted(req[t], EmptyTx)'
            BY <2>3, <3>a, Zenon DEF Upserted
        <3>2. Addressed("mark", req[t], todo[t], EmptyTx)' /\ Naming("mark", req[t], EmptyTx)'
            BY <1>2, <2>3, Zenon DEF Addressed, Naming
        <3>3. Counting("mark", req[t], EmptyTx)'
            BY <1>2, <2>3, Zenon DEF Counting, HasCounted
        <3> QED
            BY <2>3, <2>4, <3>b, <3>1, <3>2, <3>3, Zenon DEF AloneAt, Alone
    <2>6. ApartFrom(t)'
        <3> SUFFICES ASSUME NEW v \in Threads \ {t}
                     PROVE  /\ Apart("mark", req[t], EmptyTx, pc[v], req[v], tx[v])
                            /\ Apart(pc[v], req[v], tx[v], "mark", req[t], EmptyTx)
            BY <2>3, Zenon DEF ApartFrom, OthersStay, Stays
        <3>1. /\ Apart(pc[t], req[t], tx[t], pc[v], req[v], tx[v])
              /\ Apart(pc[v], req[v], tx[v], pc[t], req[t], tx[t])
            BY ThreadFacts, Zenon DEF ApartFrom
        <3>2. /\ ~ HasWritten("mark", req[t]) /\ ~ HasCounted("mark", req[t])
              /\ DOMAIN EmptyTx.rows = {}
            BY DEF HasWritten, HasCounted, EmptyTx
        <3> QED
            BY <3>1, <3>2, Zenon DEF Apart
    <2> QED
        BY <1>1, <2>3, <2>5, <2>6, Applied, Assemble, Zenon
<1>3. CASE req[t].op # "send"
    <2>1. ThreadsInv' /\ OthersStay(t) /\ AloneAt(t)' /\ ApartFrom(t)'
        BY <1>3, ThreadFacts, ReturnFacts, Zenon DEF commit
    <2> QED
        BY <1>1, <2>1, Applied, Assemble, Zenon
<1> QED
    BY <1>2, <1>3, Zenon

\* commitFails: the writes are visible or not, and the request ends.
LEMMA CommitFailsStep ==
    ASSUME MessageInv, NEW t \in Threads, commitFails(t) PROVE MessageInv'
<1>1. pc[t] = "commit" /\ Return(t) /\ UNCHANGED <<members, calls, replies>>
    BY Zenon DEF commitFails
<1>2. ThreadsInv' /\ OthersStay(t) /\ AloneAt(t)' /\ ApartFrom(t)'
    BY <1>1, ThreadFacts, ReturnFacts, Zenon
<1>3. CASE Apply(t)
    BY <1>1, <1>2, <1>3, Applied, Assemble, Zenon
<1>4. CASE UNCHANGED tables
    <2>1. TablesStay
        BY <1>4, Zenon DEF tables, TablesStay
    <2>2. RepliesInv'
        BY <1>1, <2>1, ThreadFacts, NoReply, Zenon DEF TablesStay
    <2> QED
        BY <1>1, <2>1, <2>2, ReturnStep, Zenon
<1> QED
    BY <1>3, <1>4, Zenon DEF commitFails

-----------------------------------------------------------------------------
(* The theorems                                                             *)

\* Every step of the service and of its neighbours keeps the invariant.
LEMMA MessageStep == MessageInv /\ [Next]_vars => MessageInv'
<1> SUFFICES ASSUME MessageInv, [Next]_vars PROVE MessageInv'
    BY Zenon
<1>0. members \subseteq Users
    BY Zenon DEF MessageInv, StoredInv, TablesInv
<1>1. CASE UNCHANGED vars
    BY <1>0, <1>1, AsideStep, Zenon DEF vars
<1>2. CASE \E t \in Threads, u \in Users : \E c \in Convs, q \in Seqs : SendMessage(t, u, c, q)
    BY <1>2, SendStep
<1>3. CASE \E t \in Threads, u \in Users : \E m \in Ids : RecallMessage(t, u, m)
    BY <1>3, RecallStep, Zenon
<1>4. CASE \E t \in Threads, u \in Users : \E m \in Ids :
              MarkMessageRead(t, u, m) \/ MarkConversationRead(t, u, m)
    BY <1>4, ReadStep, Zenon
<1>5. CASE \E t \in Threads : insertMessage(t) \/ replayAfterConflict(t) \/ upsertOne(t)
                                \/ markMessage(t)
    BY <1>5, InsertStep, ReplayStep, UpsertStep, MarkStep, Zenon
<1>6. CASE \E t \in Threads : recallRow(t) \/ markRead(t) \/ recalculateUnread(t)
    BY <1>6, RecallRowStep, MarkReadStep, RecountStep, Zenon
<1>7. CASE \E t \in Threads : commit(t) \/ commitFails(t) \/ statementFails(t)
    BY <1>7, CommitStep, CommitFailsStep, FailStep, Zenon
<1>8. CASE crash
    BY <1>8, CrashStep, Zenon
<1>9. CASE \E u \in Users : \E q \in Seqs : expireDedup(u, q)
    BY <1>0, <1>9, AsideStep, Zenon DEF expireDedup
<1>10. CASE \E u \in Users : \E c \in Convs : DeleteConversation(u, c)
    BY <1>10, DeleteStep, Zenon
<1>11. CASE \E u \in Users : JoinGroup(u) \/ LeaveGroup(u)
    BY <1>0, <1>11, AsideStep, Zenon DEF JoinGroup, LeaveGroup
<1> QED
    BY <1>1, <1>2, <1>3, <1>4, <1>5, <1>6, <1>7, <1>8, <1>9, <1>10, <1>11, Zenon DEF Next

\* The invariant holds throughout.
LEMMA Invariance == Spec => []MessageInv
<1>1. MessageInv /\ [Next]_vars => MessageInv'
    BY MessageStep, Zenon
<1> QED
    BY InitInv, <1>1, PTL DEF Spec

\* However sends and their retries race with each other, with failed queries and
\* statements, lost Redis keys, unknown commits and crashes, all the OK replies for
\* one client sequence carry the id of one stored message of that request.
THEOREM RetriesGetOneMessage == Spec => []SendIsIdempotent
<1>1. MessageInv => SendIsIdempotent
    <2> SUFFICES ASSUME MessageInv PROVE SendIsIdempotent
        OBVIOUS
    <2>1. RepliesInv /\ KeyInv
        BY Zenon DEF MessageInv, StoredInv
    <2> QED
        BY <2>1 DEF RepliesInv, KeyInv, SendIsIdempotent
<1> QED
    BY Invariance, <1>1, PTL

\* The transaction of a send or a recall and its outbox row stand and fall together:
\* every stored message is announced once, every recalled one once more and later,
\* and nothing else is.
THEOREM OutboxIsExact == Spec => []OutboxMatchesMessages
<1>1. MessageInv => OutboxMatchesMessages
    BY Zenon DEF MessageInv, StoredInv
<1> QED
    BY Invariance, <1>1, PTL

\* The increments of sends and the recalculations of reads and recalls, under the
\* locks their transactions hold, count the unread messages of a single conversation
\* exactly, and never count a message of a group that is not there.
THEOREM UnreadCountsAreExact == Spec => []UnreadIsExact
<1>1. MessageInv => UnreadIsExact
    BY Zenon DEF MessageInv, StoredInv
<1> QED
    BY Invariance, <1>1, PTL

\* A conversation row shows the recall marker exactly when the message it shows is
\* recalled, whichever of a send and a recall commits first.
THEOREM PreviewsFollowRecalls == Spec => []RecalledPreviewIsHidden
<1>1. MessageInv => RecalledPreviewIsHidden
    BY Zenon DEF MessageInv, StoredInv
<1> QED
    BY Invariance, <1>1, PTL
=============================================================================
