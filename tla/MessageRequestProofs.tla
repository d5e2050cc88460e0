------------------------ MODULE MessageRequestProofs ------------------------
(***************************************************************************)
(* The inductive invariant of MessageService and the steps of a request up *)
(* to its COMMIT, for any threads, users, conversations and numbers of     *)
(* requests and faults.                                                    *)
(*                                                                         *)
(* None of the properties is inductive: what a transaction will write was  *)
(* computed from the tables some steps before it commits. MessageInv       *)
(* therefore says of every thread that what it has read or written so far  *)
(* still fits the tables (Alone), and of every two threads that the locks  *)
(* keep their writes apart (Apart).                                        *)
(*                                                                         *)
(* At COMMIT, what the invariant says of the committing thread becomes     *)
(* true of the new tables, and what it says of every two threads shows     *)
(* that the commit does not disturb what the others have computed.         *)
(***************************************************************************)
EXTENDS MessageService, TLAPS

Message == [from : Users, seq : Nat, conv : Convs, recalled : BOOLEAN]
Row == [unread : Nat, last : Nat, hidden : BOOLEAN, deleted : BOOLEAN]
Rows == UNION {[D -> Row] : D \in SUBSET Users}
Ops == {"none", "send", "recall", "readMessage", "readConversation"}
Request == [op : Ops, user : Users, conv : Convs \cup {Group}, seq : Nat, id : Nat]
Places == {"idle", "insert", "replay", "upsert", "mark", "recall", "receipts", "recount", "commit"}
Event == [kind : {"send", "recall"}, id : Nat]

-----------------------------------------------------------------------------
(* The tables                                                               *)

TablesInv ==
    /\ calls \in Nat
    /\ members \subseteq Users
    /\ DOMAIN messages \subseteq 1 .. calls
    /\ messages \in [DOMAIN messages -> Message]
    /\ DOMAIN conversations \subseteq Convs \X Users
    /\ conversations \in [DOMAIN conversations -> Row]
    /\ \A m, u : <<m, u>> \in receipts => m \in DOMAIN messages
    /\ outbox \in Seq(Event)

\* uk_message_sender_sequence
KeyInv ==
    \A m, n \in DOMAIN messages :
        /\ messages[m].seq # 0
        /\ messages[m].seq = messages[n].seq
        /\ messages[m].from = messages[n].from
        => m = n

RepliesInv ==
    \A r \in replies :
        /\ r.seq # 0
        /\ r.id \in DOMAIN messages
        /\ messages[r.id].from = r.from
        /\ messages[r.id].seq = r.seq

\* A row shows a message of its conversation
LastInv ==
    \A k \in DOMAIN conversations :
        conversations[k].last \in DOMAIN messages /\ messages[conversations[k].last].conv = k[1]

\* A single conversation has its two rows as soon as it has a message
PairsInv ==
    /\ \A m \in DOMAIN messages :
          messages[m].conv # Group =>
              \A u \in messages[m].conv : <<messages[m].conv, u>> \in DOMAIN conversations
    /\ \A k \in DOMAIN conversations : k[1] # Group => k[2] \in k[1]

StoredInv ==
    /\ TablesInv /\ KeyInv /\ LastInv /\ PairsInv
    /\ OutboxMatchesMessages /\ UnreadIsExact /\ RecalledPreviewIsHidden

-----------------------------------------------------------------------------
(* A thread that is at p with request r, owners d to upsert and writes x    *)

HasWritten(p, r) ==
    \/ r.op = "send" /\ p \in {"upsert", "commit"}
    \/ r.op = "recall" /\ p \in {"recount", "commit"}
HasCounted(p, r) == r.op # "send" /\ p = "commit"

Place(p, r, x) ==
    /\ p = "idle" => r.op = "none"
    /\ p \in {"insert", "replay", "upsert", "mark"} => r.op = "send"
    /\ p = "recall" => r.op = "recall"
    /\ p = "receipts" => r.op \in {"readMessage", "readConversation"}
    /\ p = "recount" => r.op \in {"recall", "readMessage", "readConversation"}
    /\ p = "commit" => r.op # "none"
    /\ p \notin {"upsert", "commit"} => DOMAIN x.rows = {}
    /\ r.op \in {"none", "send", "recall"} => x.read = {}

\* The message of a send is new until it is committed, and so is its key
Sending(p, r, d) ==
    r.op = "send" =>
        /\ r.id \in 1 .. calls /\ r.conv \in Convs
        /\ p # "mark" => r.id \notin DOMAIN messages
        /\ p = "mark" => /\ r.id \in DOMAIN messages
                         /\ messages[r.id].from = r.user /\ messages[r.id].seq = r.seq
        /\ p = "upsert" => d # << >>
        /\ p = "commit" => d = << >>
        /\ p \in {"upsert", "commit"} /\ r.seq # 0 =>
              \A m \in DOMAIN messages : ~ (messages[m].from = r.user /\ messages[m].seq = r.seq)

Base(c, u) == IF <<c, u>> \in DOMAIN conversations THEN conversations[<<c, u>>].unread ELSE 0

\* What a send has upserted, and whom it still has to
Upserted(r, x) ==
    r.op = "send" =>
        \A u \in DOMAIN x.rows :
            /\ x.rows[u].last = r.id /\ ~ x.rows[u].hidden
            /\ x.rows[u].unread = Base(r.conv, u) + (IF u = r.user THEN 0 ELSE 1)
Addressed(p, r, d, x) ==
    r.op = "send" /\ r.conv # Group /\ p # "mark" =>
        /\ \A u \in r.conv : u \in DOMAIN x.rows \/ \E i \in 1 .. Len(d) : d[i] = u
        /\ DOMAIN x.rows \subseteq r.conv
        /\ \A i \in 1 .. Len(d) : d[i] \in r.conv

\* A recall or a read marker is about a stored message
Naming(p, r, x) ==
    r.op \in {"recall", "readMessage", "readConversation"} =>
        /\ r.id \in DOMAIN messages /\ messages[r.id].conv = r.conv
        /\ \A m \in x.read : m \in DOMAIN messages /\ messages[m].conv = r.conv
        /\ r.op = "recall" /\ p \in {"recount", "commit"} => ~ messages[r.id].recalled

\* UnreadSeenBy for request r with the writes x
Seen(r, x, c, u) ==
    {m \in DOMAIN messages :
        /\ messages[m].conv = c
        /\ messages[m].from # u
        /\ ~ messages[m].recalled
        /\ ~ (r.op = "recall" /\ m = r.id)
        /\ <<m, u>> \notin receipts
        /\ ~ (u = r.user /\ m \in x.read)}

\* What a recalculation has found stays true until it is committed
Counting(p, r, x) ==
    HasCounted(p, r) =>
        /\ \A u \in Users :
              u \in DOMAIN x.rows <=>
                  <<r.conv, u>> \in DOMAIN conversations /\ (r.op = "recall" \/ u = r.user)
        /\ \A u \in DOMAIN x.rows :
              /\ x.rows[u].last = conversations[<<r.conv, u>>].last
              /\ x.rows[u].hidden <=> \/ conversations[<<r.conv, u>>].hidden
                                      \/ r.op = "recall" /\ x.rows[u].last = r.id
              /\ x.rows[u].unread = Cardinality(Seen(r, x, r.conv, u))

Alone(p, r, d, x) ==
    /\ Place(p, r, x) /\ Sending(p, r, d) /\ Upserted(r, x) /\ Addressed(p, r, d, x)
    /\ Naming(p, r, x) /\ Counting(p, r, x)

-----------------------------------------------------------------------------
(* Two threads                                                              *)

\* The locks: no two transactions write the same row or the same key, and none
\* writes a message of a conversation that another one has counted
Apart(p, r, x, q, s, y) ==
    /\ r.op = "send" /\ s.op = "send" => r.id # s.id
    /\ r.conv = s.conv => DOMAIN x.rows \cap DOMAIN y.rows = {}
    /\ r.conv = s.conv /\ HasCounted(p, r) => ~ HasWritten(q, s)
    /\ r.op = s.op /\ HasWritten(p, r) /\ HasWritten(q, s) =>
          /\ r.op = "send" /\ r.seq # 0 /\ r.user = s.user => r.seq # s.seq
          /\ r.op = "recall" => r.id # s.id

ThreadsInv ==
    /\ pc \in [Threads -> Places] /\ req \in [Threads -> Request]
    /\ todo \in [Threads -> Seq(Users)]
    /\ tx \in [Threads -> [rows : Rows, read : SUBSET Nat]]

AloneInv == \A t \in Threads : Alone(pc[t], req[t], todo[t], tx[t])
ApartInv ==
    \A t, v \in Threads : t # v => Apart(pc[t], req[t], tx[t], pc[v], req[v], tx[v])

MessageInv == StoredInv /\ RepliesInv /\ ThreadsInv /\ AloneInv /\ ApartInv

-----------------------------------------------------------------------------
(* Helpers                                                                  *)

\* The rows of a transaction are a function on some of the users.
LEMMA RowsType ==
    /\ \A x \in Rows : DOMAIN x \subseteq Users /\ x \in [DOMAIN x -> Row]
    /\ \A D \in SUBSET Users : \A x \in [D -> Row] : x \in Rows
    /\ << >> \in Rows
<1>1. \A x \in Rows : DOMAIN x \subseteq Users /\ x \in [DOMAIN x -> Row]
    BY Zenon DEF Rows
<1>2. \A D \in SUBSET Users : \A x \in [D -> Row] : x \in Rows
    BY Zenon DEF Rows
<1>3. << >> \in [{} -> Row]
    OBVIOUS
<1> QED
    BY <1>1, <1>2, <1>3, Zenon

\* A table with one more row.
LEMMA PutFacts ==
    ASSUME NEW f, NEW k, NEW row
    PROVE  /\ DOMAIN Put(f, k, row) = DOMAIN f \cup {k}
           /\ Put(f, k, row)[k] = row
           /\ \A j \in DOMAIN f : j # k => Put(f, k, row)[j] = f[j]
BY Zenon DEF Put

\* What the deduplication lookup finds is the message of the request; a message
\* that it does not find is not there.
LEMMA LookupFacts ==
    ASSUME StoredInv, NEW u, NEW q
    PROVE  /\ getMessageByClientSequence(u, q) # NoId =>
                /\ q # 0
                /\ getMessageByClientSequence(u, q) \in DOMAIN messages
                /\ messages[getMessageByClientSequence(u, q)].from = u
                /\ messages[getMessageByClientSequence(u, q)].seq = q
           /\ getMessageByClientSequence(u, q) = NoId /\ q # 0 =>
                \A m \in DOMAIN messages : ~ (messages[m].from = u /\ messages[m].seq = q)
<1> DEFINE found == {m \in DOMAIN messages : messages[m].from = u /\ messages[m].seq = q}
<1>1. CASE q = 0 \/ found = {}
    <2>1. getMessageByClientSequence(u, q) = NoId
        BY <1>1, Zenon DEF getMessageByClientSequence
    <2> QED
        BY <1>1, <2>1, Zenon
<1>2. CASE q # 0 /\ found # {}
    <2>1. getMessageByClientSequence(u, q) = CHOOSE m \in found : TRUE
        BY <1>2, Zenon DEF getMessageByClientSequence
    <2>2. getMessageByClientSequence(u, q) \in found
        BY <1>2, <2>1, Zenon
    <2>3. 0 \notin DOMAIN messages
        BY DEF StoredInv, TablesInv
    <2> QED
        BY <1>2, <2>2, <2>3, Zenon DEF NoId
<1> QED
    BY <1>1, <1>2, Zenon

-----------------------------------------------------------------------------
(* Steps                                                                    *)

AloneAt(t) == Alone(pc[t], req[t], todo[t], tx[t])
ApartFrom(t) ==
    \A v \in Threads \ {t} : /\ Apart(pc[t], req[t], tx[t], pc[v], req[v], tx[v])
                             /\ Apart(pc[v], req[v], tx[v], pc[t], req[t], tx[t])
Stays(t) == pc'[t] = pc[t] /\ req'[t] = req[t] /\ todo'[t] = todo[t] /\ tx'[t] = tx[t]
OthersStay(t) == \A v \in Threads \ {t} : Stays(v)
TablesStay == UNCHANGED <<messages, conversations, receipts, outbox>>

\* When one thread moves, the invariant has to be shown for it and for the tables.
LEMMA Assemble ==
    ASSUME MessageInv, NEW t \in Threads, OthersStay(t),
           StoredInv', RepliesInv', ThreadsInv',
           \A v \in Threads \ {t} : AloneAt(v)',
           AloneAt(t)', ApartFrom(t)'
    PROVE  MessageInv'
<1>1. AloneInv'
    BY Zenon DEF AloneInv, AloneAt
<1>2. ApartInv'
    <2> SUFFICES ASSUME NEW a \in Threads, NEW b \in Threads, a # b
                 PROVE  Apart(pc'[a], req'[a], tx'[a], pc'[b], req'[b], tx'[b])
        BY Zenon DEF ApartInv
    <2>1. CASE a = t \/ b = t
        BY <2>1, Zenon DEF ApartFrom
    <2>2. CASE a # t /\ b # t
        <3>1. Apart(pc[a], req[a], tx[a], pc[b], req[b], tx[b])
            BY Zenon DEF MessageInv, ApartInv
        <3> QED
            BY <2>2, <3>1 DEF OthersStay, Stays
    <2> QED
        BY <2>1, <2>2, Zenon
<1> QED
    BY <1>1, <1>2, Zenon DEF MessageInv

\* A step that leaves the tables alone keeps what is true of them, and of the
\* threads that stay.
LEMMA SameTables ==
    ASSUME MessageInv, TablesStay, members' \subseteq Users, calls' \in Nat, calls' >= calls
    PROVE  StoredInv' /\ \A v \in Threads : Stays(v) => AloneAt(v)'
<1> USE DEF TablesStay
<1>1. StoredInv'
    <2>1. TablesInv' /\ KeyInv' /\ LastInv' /\ PairsInv'
        BY DEF MessageInv, StoredInv, TablesInv, KeyInv, LastInv, PairsInv
    <2>2. OutboxMatchesMessages' /\ RecalledPreviewIsHidden'
        BY Zenon DEF MessageInv, StoredInv, OutboxMatchesMessages, RecalledPreviewIsHidden
    <2>3. UnreadIsExact'
        BY DEF MessageInv, StoredInv, UnreadIsExact, Unread
    <2> QED
        BY <2>1, <2>2, <2>3 DEF StoredInv
<1>2. ASSUME NEW v \in Threads, Stays(v) PROVE AloneAt(v)'
    <2> DEFINE p == pc[v]
               r == req[v]
               d == todo[v]
               x == tx[v]
    <2>1. p' = p /\ r' = r /\ d' = d /\ x' = x
        BY <1>2, Zenon DEF Stays
    <2>2. Alone(p, r, d, x)
        BY DEF MessageInv, AloneInv
    <2> HIDE DEF p, r, d, x
    <2>3. Place(p, r, x)' /\ Upserted(r, x)' /\ Addressed(p, r, d, x)' /\ Naming(p, r, x)'
        BY <2>1, <2>2 DEF Alone, Place, Upserted, Addressed, Naming, Base
    <2>4. Sending(p, r, d)'
        BY <2>1, <2>2 DEF Alone, Sending, MessageInv, StoredInv, TablesInv
    <2>5. Counting(p, r, x)'
        BY <2>1, <2>2 DEF Alone, Counting, Seen, HasCounted
    <2>6. Alone(p, r, d, x)'
        BY <2>3, <2>4, <2>5, Zenon DEF Alone
    <2> QED
        BY <2>6 DEF AloneAt, p, r, d, x
<1> QED
    BY <1>1, <1>2, Zenon

\* A step of one thread that leaves the tables alone has to be looked at for that
\* thread only.
LEMMA LocalStep ==
    ASSUME MessageInv, NEW t \in Threads, OthersStay(t), TablesStay,
           members' \subseteq Users, calls' \in Nat, calls' >= calls,
           RepliesInv', ThreadsInv', AloneAt(t)', ApartFrom(t)'
    PROVE  MessageInv'
BY SameTables, Assemble, Zenon DEF OthersStay

\* A step in which no thread moves and the tables stay.
LEMMA StillStep ==
    ASSUME MessageInv, UNCHANGED <<pc, req, todo, tx>>, TablesStay,
           members' \subseteq Users, calls' \in Nat, calls' >= calls, RepliesInv'
    PROVE  MessageInv'
<1>1. \A v \in Threads : Stays(v)
    BY Zenon DEF Stays
<1>2. StoredInv' /\ AloneInv'
    BY <1>1, SameTables, Zenon DEF AloneInv, AloneAt
<1>3. ThreadsInv' /\ ApartInv'
    BY Zenon DEF MessageInv, ThreadsInv, ApartInv
<1> QED
    BY <1>2, <1>3, Zenon DEF MessageInv

\* A thread that has returned wants nothing and holds nothing.
LEMMA IdleThread ==
    ASSUME NEW t \in Threads, pc'[t] = "idle", req'[t] = NoReq, tx'[t] = EmptyTx
    PROVE  AloneAt(t)' /\ ApartFrom(t)'
BY DEF AloneAt, ApartFrom, Alone, Place, Sending, Upserted, Addressed, Naming, Counting, Apart,
       HasCounted, HasWritten, NoReq, EmptyTx

\* Return ends a request.
LEMMA ReturnFacts ==
    ASSUME ThreadsInv, NEW t \in Threads, Return(t)
    PROVE  ThreadsInv' /\ OthersStay(t) /\ AloneAt(t)' /\ ApartFrom(t)'
<1>1. NoReq \in Request /\ EmptyTx \in [rows : Rows, read : SUBSET Nat]
    BY MessageServiceAssumption, RowsType, Zenon DEF NoReq, Request, Ops, EmptyTx, NoId
<1>2. ThreadsInv'
    BY <1>1 DEF ThreadsInv, Return, Places
<1>3. OthersStay(t)
    BY Zenon DEF ThreadsInv, Return, OthersStay, Stays
<1>4. pc'[t] = "idle" /\ req'[t] = NoReq /\ tx'[t] = EmptyTx
    BY DEF ThreadsInv, Return
<1> QED
    BY <1>2, <1>3, <1>4, IdleThread, Zenon

\* A request that ends without a commit leaves the invariant as it is.
LEMMA ReturnStep ==
    ASSUME MessageInv, NEW t \in Threads, Return(t), TablesStay, UNCHANGED <<members, calls>>,
           RepliesInv'
    PROVE  MessageInv'
<1>1. members' \subseteq Users /\ calls' \in Nat /\ calls' >= calls
    BY DEF MessageInv, StoredInv, TablesInv
<1> QED
    BY <1>1, ReturnFacts, LocalStep DEF MessageInv

\* A reply that names the stored message of its request.
LEMMA ReplyStep ==
    ASSUME RepliesInv, NEW r, NEW id, ReplyOk(r, id), UNCHANGED messages,
           r.seq # 0 => /\ id \in DOMAIN messages
                        /\ messages[id].from = r.user /\ messages[id].seq = r.seq
    PROVE  RepliesInv'
BY DEF RepliesInv, ReplyOk

\* The same, when nobody replies.
LEMMA NoReply == ASSUME RepliesInv, UNCHANGED <<replies, messages>> PROVE RepliesInv'
BY Zenon DEF RepliesInv

\* A thread that goes on to place p with what it has.
LEMMA GoFacts ==
    ASSUME ThreadsInv, NEW t \in Threads, NEW p \in Places, pc' = [pc EXCEPT ![t] = p],
           UNCHANGED <<req, todo, tx>>
    PROVE  /\ ThreadsInv' /\ OthersStay(t)
           /\ pc'[t] = p /\ req'[t] = req[t] /\ todo'[t] = todo[t] /\ tx'[t] = tx[t]
BY Zenon DEF ThreadsInv, OthersStay, Stays

\* The parts of the invariant that are about thread t, and what does not change in a
\* step inside a request.
LEMMA ThreadFacts ==
    ASSUME MessageInv, NEW t \in Threads
    PROVE  /\ ThreadsInv /\ RepliesInv /\ StoredInv /\ AloneAt(t) /\ ApartFrom(t)
           /\ pc[t] \in Places /\ req[t] \in Request
           /\ todo[t] \in Seq(Users) /\ tx[t].rows \in Rows /\ tx[t].read \in SUBSET Nat
           /\ calls \in Nat /\ members \subseteq Users
BY Zenon DEF MessageInv, ThreadsInv, StoredInv, TablesInv, AloneInv, ApartInv, AloneAt, ApartFrom

-----------------------------------------------------------------------------
\* A send that has tried its INSERT looks for the winner, or holds the key from now on.
LEMMA AfterInsert ==
    ASSUME MessageInv, NEW t \in Threads, NEW p \in {"replay", "commit", "upsert"},
           pc[t] = "insert", pc' = [pc EXCEPT ![t] = p],
           UNCHANGED <<req, todo, tx, members, replies, calls>>, TablesStay,
           p # "replay" => CanExecute(t),
           p # "replay" /\ req[t].seq # 0 =>
              \A m \in DOMAIN messages :
                 ~ (messages[m].from = req[t].user /\ messages[m].seq = req[t].seq),
           p = "upsert" => todo[t] # << >>,
           p = "commit" => todo[t] = << >>
    PROVE  MessageInv'
<1>1. /\ ThreadsInv' /\ OthersStay(t)
      /\ pc'[t] = p /\ req'[t] = req[t] /\ todo'[t] = todo[t] /\ tx'[t] = tx[t]
    BY ThreadFacts, GoFacts, Zenon DEF Places
<1>2. AloneAt(t)'
    <2>1. Place(pc[t], req[t], tx[t]) /\ Sending(pc[t], req[t], todo[t])
        BY ThreadFacts, Zenon DEF AloneAt, Alone
    <2>2. req[t].op = "send" /\ DOMAIN tx[t].rows = {} /\ tx[t].read = {}
        BY <2>1, Zenon DEF Place
    <2>3. Place(p, req[t], tx[t]) /\ Upserted(req[t], tx[t])' /\ Naming(p, req[t], tx[t])'
        BY <2>2, Zenon DEF Place, Upserted, Naming, TablesStay
    <2>4. Sending(p, req[t], todo[t])
        BY <2>1, <2>2, Zenon DEF Sending
    <2>5. Addressed(p, req[t], todo[t], tx[t])
        BY ThreadFacts, Zenon DEF AloneAt, Alone, Addressed
    <2>6. Counting(p, req[t], tx[t])
        BY <2>2, Zenon DEF Counting, HasCounted
    <2> QED
        BY <1>1, <2>2, <2>3, <2>4, <2>5, <2>6, Zenon
        DEF TablesStay, AloneAt, Alone, Place, Sending, Upserted, Naming, Addressed, Counting, HasCounted
<1>3. ApartFrom(t)'
    <2> SUFFICES ASSUME NEW v \in Threads \ {t}
                 PROVE  /\ Apart(p, req[t], tx[t], pc[v], req[v], tx[v])
                        /\ Apart(pc[v], req[v], tx[v], p, req[t], tx[t])
        BY <1>1, Zenon DEF ApartFrom, OthersStay, Stays
    <2>1. /\ Apart(pc[t], req[t], tx[t], pc[v], req[v], tx[v])
          /\ Apart(pc[v], req[v], tx[v], pc[t], req[t], tx[t])
        BY ThreadFacts, Zenon DEF ApartFrom
    <2>2. p # "replay" => ~ Blocks(v, t)
        BY Zenon DEF CanExecute
    <2>3. req[t].op = "send"
        BY ThreadFacts, Zenon DEF AloneAt, Alone, Place
    <2> QED
        BY <2>1, <2>2, <2>3, Zenon DEF Apart, Blocks, HasWritten, HasCounted, Wrote, Counted
<1>4. members' \subseteq Users /\ calls' \in Nat /\ calls' >= calls /\ RepliesInv'
    BY ThreadFacts, NoReply DEF TablesStay
<1> QED
    BY <1>1, <1>2, <1>3, <1>4, LocalStep, Zenon

\* insertMessage: the unique key lets it pass, or not.
LEMMA InsertStep ==
    ASSUME MessageInv, NEW t \in Threads, insertMessage(t) PROVE MessageInv'
<1> DEFINE p == IF getMessageByClientSequence(req[t].user, req[t].seq) # NoId THEN "replay"
                ELSE IF todo[t] = << >> THEN "commit" ELSE "upsert"
<1>1. pc[t] = "insert" /\ CanExecute(t) /\ pc' = [pc EXCEPT ![t] = p]
    BY Zenon DEF insertMessage
<1>2. UNCHANGED <<req, todo, tx, members, replies, calls>> /\ TablesStay
    BY Zenon DEF insertMessage, tables, TablesStay
<1>3. p \in {"replay", "commit", "upsert"}
    BY Zenon
<1>4. p # "replay" /\ req[t].seq # 0 =>
         \A m \in DOMAIN messages :
            ~ (messages[m].from = req[t].user /\ messages[m].seq = req[t].seq)
    BY LookupFacts, ThreadFacts
<1>5. (p = "upsert" => todo[t] # << >>) /\ (p = "commit" => todo[t] = << >>)
    BY Zenon
<1> HIDE DEF p
<1> QED
    BY <1>1, <1>2, <1>3, <1>4, <1>5, AfterInsert, Zenon

\* replayAfterConflict: a reply names the winner's message.
LEMMA ReplayStep ==
    ASSUME MessageInv, NEW t \in Threads, replayAfterConflict(t) PROVE MessageInv'
<1>1. Return(t) /\ TablesStay /\ UNCHANGED <<members, calls>>
    BY DEF replayAfterConflict, tables, TablesStay
<1>2. RepliesInv'
    <2> DEFINE existing == getMessageByClientSequence(req[t].user, req[t].seq)
    <2>1. CASE UNCHANGED replies
        BY <1>1, <2>1, ThreadFacts, NoReply DEF TablesStay
    <2>2. CASE existing # NoId /\ ReplyOk(req[t], existing)
        <3>1. /\ existing \in DOMAIN messages
              /\ messages[existing].from = req[t].user /\ messages[existing].seq = req[t].seq
            BY <2>2, ThreadFacts, LookupFacts
        <3> QED
            BY <1>1, <2>2, <3>1, ThreadFacts, ReplyStep, Zenon DEF TablesStay
    <2> QED
        BY <2>1, <2>2, Zenon DEF replayAfterConflict
<1> QED
    BY <1>1, <1>2, ReturnStep, Zenon

\* markMessage: a reply names the message that was committed.
LEMMA MarkStep ==
    ASSUME MessageInv, NEW t \in Threads, markMessage(t) PROVE MessageInv'
<1>1. Return(t) /\ TablesStay /\ UNCHANGED <<members, calls>> /\ ReplyOk(req[t], req[t].id)
    BY DEF markMessage, tables, TablesStay
<1>2. /\ req[t].id \in DOMAIN messages
      /\ messages[req[t].id].from = req[t].user /\ messages[req[t].id].seq = req[t].seq
    BY ThreadFacts, Zenon DEF markMessage, AloneAt, Alone, Place, Sending
<1>3. RepliesInv'
    BY <1>1, <1>2, ThreadFacts, ReplyStep, Zenon DEF TablesStay
<1> QED
    BY <1>1, <1>3, ReturnStep, Zenon

\* statementFails: a failed INSERT goes on to look for the winner; after any other
\* failed statement nothing is left of the transaction.
LEMMA FailStep ==
    ASSUME MessageInv, NEW t \in Threads, statementFails(t) PROVE MessageInv'
<1>1. TablesStay /\ UNCHANGED <<members, calls, replies>>
    BY Zenon DEF statementFails, tables, TablesStay
<1>2. CASE pc[t] = "insert" /\ pc' = [pc EXCEPT ![t] = "replay"] /\ UNCHANGED <<req, todo, tx>>
    BY <1>1, <1>2, AfterInsert, Zenon
<1>3. CASE Return(t)
    BY <1>1, <1>3, ThreadFacts, NoReply, ReturnStep, Zenon DEF TablesStay
<1> QED
    BY <1>2, <1>3 DEF statementFails

\* crash: every request is forgotten and every open transaction rolled back.
LEMMA CrashStep == ASSUME MessageInv, crash PROVE MessageInv'
<1>1. TablesStay /\ UNCHANGED <<members, calls, replies>>
    BY Zenon DEF crash, tables, TablesStay
<1>2. calls' \in Nat /\ calls' >= calls /\ members' \subseteq Users /\ RepliesInv'
    BY <1>1, NoReply DEF MessageInv, StoredInv, TablesInv, TablesStay
<1>3. ASSUME NEW t \in Threads PROVE AloneAt(t)' /\ ApartFrom(t)'
    BY IdleThread, Zenon DEF crash
<1>4. AloneInv' /\ ApartInv'
    BY <1>3, Zenon DEF AloneInv, ApartInv, AloneAt, ApartFrom
<1>5. ThreadsInv'
    <2>1. NoReq \in Request /\ EmptyTx \in [rows : Rows, read : SUBSET Nat]
        BY MessageServiceAssumption, RowsType, Zenon DEF NoReq, Request, Ops, EmptyTx, NoId
    <2> QED
        BY <2>1 DEF ThreadsInv, crash, Places
<1> QED
    BY <1>1, <1>2, <1>4, <1>5, SameTables DEF MessageInv

-----------------------------------------------------------------------------
\* What it means for an idle thread to take a request.
LEMMA AcceptFacts ==
    ASSUME MessageInv, NEW t \in Threads, NEW r \in Request, NEW p \in Places, Accept(t, r, p),
           NEW d \in Seq(Users), todo' = [todo EXCEPT ![t] = d], UNCHANGED tx
    PROVE  /\ ThreadsInv' /\ OthersStay(t)
           /\ pc'[t] = p /\ req'[t] = r /\ todo'[t] = d /\ tx'[t] = tx[t]
           /\ DOMAIN tx[t].rows = {} /\ tx[t].read = {}
           /\ calls' = calls + 1
<1>1. ThreadsInv /\ pc[t] = "idle" /\ Place(pc[t], req[t], tx[t])
    BY ThreadFacts, Zenon DEF Accept, AloneAt, Alone
<1>2. DOMAIN tx[t].rows = {} /\ tx[t].read = {}
    BY <1>1, Zenon DEF Place
<1> QED
    BY <1>1, <1>2, Zenon DEF ThreadsInv, Accept, OthersStay, Stays

\* A request about a stored message.
LEMMA AcceptStep ==
    ASSUME MessageInv, NEW t \in Threads, NEW r \in Request, NEW p \in {"recall", "receipts"},
           Accept(t, r, p), UNCHANGED <<members, replies, todo, tx>>, TablesStay,
           p = "recall" => r.op = "recall",
           p = "receipts" => r.op \in {"readMessage", "readConversation"},
           r.id \in DOMAIN messages, messages[r.id].conv = r.conv
    PROVE  MessageInv'
<1>1. todo[t] \in Seq(Users) /\ todo' = [todo EXCEPT ![t] = todo[t]]
    BY ThreadFacts, Zenon DEF ThreadsInv
<1>2. p \in Places
    BY Zenon DEF Places
<1>3. /\ ThreadsInv' /\ OthersStay(t)
      /\ pc'[t] = p /\ req'[t] = r /\ todo'[t] = todo[t] /\ tx'[t] = tx[t]
      /\ DOMAIN tx[t].rows = {} /\ tx[t].read = {}
      /\ calls' = calls + 1
    BY <1>1, <1>2, AcceptFacts, Zenon
<1>4. AloneAt(t)'
    BY <1>3, Zenon DEF AloneAt, Alone, Place, Sending, Upserted, Addressed, Naming, Counting, HasCounted,
                TablesStay
<1>5. ApartFrom(t)'
    BY <1>3, Zenon DEF ApartFrom, Apart, HasWritten, HasCounted
<1>6. members' \subseteq Users /\ calls' \in Nat /\ calls' >= calls
    BY <1>3, ThreadFacts
<1>7. RepliesInv'
    BY <1>3, ThreadFacts, NoReply, Zenon DEF TablesStay
<1> QED
    BY <1>3, <1>4, <1>5, <1>6, <1>7, LocalStep, Zenon

\* A stored message names a request that may be accepted.
LEMMA NamedRequest ==
    ASSUME StoredInv, NEW op \in Ops, NEW u \in Users, NEW m \in DOMAIN messages
    PROVE  [op |-> op, user |-> u, conv |-> messages[m].conv, seq |-> 0, id |-> m] \in Request
<1>1. messages[m].conv \in Convs /\ m \in Nat
    BY DEF StoredInv, TablesInv, Message
<1> QED
    BY <1>1 DEF Request

\* RecallMessage, MarkMessageRead and MarkConversationRead up to their transactions.
LEMMA RecallStep ==
    ASSUME MessageInv, NEW t \in Threads, NEW u \in Users, NEW m, RecallMessage(t, u, m)
    PROVE  MessageInv'
<1> DEFINE r == [op |-> "recall", user |-> u, conv |-> messages[m].conv, seq |-> 0, id |-> m]
<1>1. m \in DOMAIN messages /\ Accept(t, r, "recall")
      /\ UNCHANGED <<members, replies, todo, tx>> /\ TablesStay
    BY Zenon DEF RecallMessage, tables, TablesStay
<1>2. r \in Request
    BY <1>1, ThreadFacts, NamedRequest, Zenon DEF Ops
<1>3. r.op = "recall" /\ r.id = m /\ r.conv = messages[m].conv
    OBVIOUS
<1> HIDE DEF r
<1> QED
    BY <1>1, <1>2, <1>3, AcceptStep, Zenon

\* The read markers begin for a user who may receive the message; nothing is written yet.
LEMMA ReadStep ==
    ASSUME MessageInv, NEW t \in Threads, NEW u \in Users, NEW m,
           MarkMessageRead(t, u, m) \/ MarkConversationRead(t, u, m)
    PROVE  MessageInv'
<1>1. ASSUME NEW op \in {"readMessage", "readConversation"}, m \in DOMAIN messages,
             Accept(t, [op |-> op, user |-> u, conv |-> messages[m].conv, seq |-> 0, id |-> m],
                    "receipts"),
             UNCHANGED <<members, replies, todo, tx>>, TablesStay
      PROVE  MessageInv'
    <2> DEFINE r == [op |-> op, user |-> u, conv |-> messages[m].conv, seq |-> 0, id |-> m]
    <2>1. r \in Request
        BY <1>1, ThreadFacts, NamedRequest, Zenon DEF Ops
    <2>2. r.op = op /\ r.id = m /\ r.conv = messages[m].conv /\ Accept(t, r, "receipts")
        BY <1>1, Zenon
    <2> HIDE DEF r
    <2> QED
        BY <1>1, <2>1, <2>2, AcceptStep
<1>2. UNCHANGED <<members, replies, todo, tx>> /\ TablesStay /\ m \in DOMAIN messages
    BY DEF MarkMessageRead, MarkConversationRead, tables, TablesStay
<1> QED
    BY <1>1, <1>2, Zenon DEF MarkMessageRead, MarkConversationRead

-----------------------------------------------------------------------------
\* recallRow: the row is locked and not recalled, or the request is over.
LEMMA RecallRowStep ==
    ASSUME MessageInv, NEW t \in Threads, recallRow(t) PROVE MessageInv'
<1>1. pc[t] = "recall" /\ CanExecute(t) /\ TablesStay /\ UNCHANGED <<members, replies, calls>>
    BY Zenon DEF recallRow, tables, TablesStay
<1>2. members' \subseteq Users /\ calls' \in Nat /\ calls' >= calls /\ RepliesInv'
    BY <1>1, ThreadFacts, NoReply DEF TablesStay
<1>3. CASE Return(t)
    BY <1>1, <1>2, <1>3, ReturnStep, Zenon
<1>4. CASE /\ ~ messages[req[t].id].recalled
           /\ pc' = [pc EXCEPT ![t] = "recount"] /\ UNCHANGED <<req, todo, tx>>
    <2>1. /\ ThreadsInv' /\ OthersStay(t)
          /\ pc'[t] = "recount" /\ req'[t] = req[t] /\ todo'[t] = todo[t] /\ tx'[t] = tx[t]
        BY <1>4, ThreadFacts, GoFacts, Zenon DEF Places
    <2>2. req[t].op = "recall" /\ Place(pc[t], req[t], tx[t]) /\ Naming(pc[t], req[t], tx[t])
        BY <1>1, ThreadFacts, Zenon DEF AloneAt, Alone, Place
    <2>3. AloneAt(t)'
        <3>1. Place("recount", req[t], tx[t])
            BY <1>1, <2>2 DEF Place
        <3>2. Naming(pc[t], req[t], tx[t])'
            BY <1>1, <1>4, <2>1, <2>2, Zenon DEF Naming, TablesStay
        <3>3. /\ Sending(pc[t], req[t], todo[t])' /\ Upserted(req[t], tx[t])'
              /\ Addressed(pc[t], req[t], todo[t], tx[t])' /\ Counting(pc[t], req[t], tx[t])'
            BY <2>1, <2>2, Zenon DEF Sending, Upserted, Addressed, Counting, HasCounted
        <3> QED
            BY <2>1, <3>1, <3>2, <3>3 DEF AloneAt, Alone
    <2>4. ApartFrom(t)'
        <3> SUFFICES ASSUME NEW v \in Threads \ {t}
                     PROVE  /\ Apart("recount", req[t], tx[t], pc[v], req[v], tx[v])
                            /\ Apart(pc[v], req[v], tx[v], "recount", req[t], tx[t])
            BY <2>1, Zenon DEF ApartFrom, OthersStay, Stays
        <3>1. /\ Apart(pc[t], req[t], tx[t], pc[v], req[v], tx[v])
              /\ Apart(pc[v], req[v], tx[v], pc[t], req[t], tx[t])
            BY ThreadFacts, Zenon DEF ApartFrom
        <3>2. ~ Blocks(v, t)
            BY <1>1, Zenon DEF CanExecute
        <3> QED
            BY <1>1, <2>2, <3>1, <3>2, Zenon DEF Apart, Blocks, HasWritten, HasCounted, Wrote, Counted
    <2> QED
        BY <1>1, <1>2, <2>1, <2>3, <2>4, LocalStep, Zenon
<1> QED
    BY <1>3, <1>4, Zenon DEF recallRow

\* markRead: the receipts are of messages of the conversation.
LEMMA MarkReadStep ==
    ASSUME MessageInv, NEW t \in Threads, markRead(t) PROVE MessageInv'
<1> DEFINE S == IF req[t].op = "readMessage" THEN {req[t].id}
                ELSE {m \in DOMAIN messages : /\ messages[m].conv = req[t].conv
                                              /\ m <= req[t].id
                                              /\ messages[m].from # req[t].user
                                              /\ ~ messages[m].recalled}
<1>1. /\ pc[t] = "receipts" /\ TablesStay /\ UNCHANGED <<members, replies, calls, req, todo>>
      /\ tx' = [tx EXCEPT ![t].read = S] /\ pc' = [pc EXCEPT ![t] = "recount"]
    BY Zenon DEF markRead, tables, TablesStay
<1>2. members' \subseteq Users /\ calls' \in Nat /\ calls' >= calls /\ RepliesInv'
    BY <1>1, ThreadFacts, NoReply DEF TablesStay
<1>3. /\ req[t].op \in {"readMessage", "readConversation"} /\ DOMAIN tx[t].rows = {}
      /\ req[t].id \in DOMAIN messages /\ messages[req[t].id].conv = req[t].conv
    BY <1>1, ThreadFacts, Zenon DEF AloneAt, Alone, Place, Naming
<1>4. \A m \in S : m \in DOMAIN messages /\ messages[m].conv = req[t].conv
    BY <1>3
<1> HIDE DEF S
<1>5. S \in SUBSET Nat
    BY <1>4, ThreadFacts DEF StoredInv, TablesInv
<1>6. /\ ThreadsInv' /\ OthersStay(t)
      /\ pc'[t] = "recount" /\ req'[t] = req[t] /\ todo'[t] = todo[t]
      /\ tx'[t].rows = tx[t].rows /\ tx'[t].read = S
    <2>1. "recount" \in Places /\ ThreadsInv
        BY ThreadFacts, Zenon DEF Places
    <2> QED
        BY <1>1, <1>5, <2>1, Zenon DEF ThreadsInv, OthersStay, Stays
<1>7. AloneAt(t)'
    <2>1. Place(pc[t], req[t], tx[t])'
        BY <1>3, <1>6, Zenon DEF Place
    <2>2. Naming(pc[t], req[t], tx[t])'
        BY <1>1, <1>3, <1>4, <1>6, Zenon DEF Naming, TablesStay
    <2>3. /\ Sending(pc[t], req[t], todo[t])' /\ Upserted(req[t], tx[t])'
          /\ Addressed(pc[t], req[t], todo[t], tx[t])' /\ Counting(pc[t], req[t], tx[t])'
        BY <1>3, <1>6, Zenon DEF Sending, Upserted, Addressed, Counting, HasCounted
    <2> QED
        BY <2>1, <2>2, <2>3, Zenon DEF AloneAt, Alone
<1>8. ApartFrom(t)'
    <2> SUFFICES ASSUME NEW v \in Threads \ {t}
                 PROVE  /\ Apart("recount", req[t], tx'[t], pc[v], req[v], tx[v])
                        /\ Apart(pc[v], req[v], tx[v], "recount", req[t], tx'[t])
        BY <1>6 DEF ApartFrom, OthersStay, Stays
    <2> QED
        BY <1>3, <1>6, Zenon DEF Apart, HasWritten, HasCounted
<1> QED
    BY <1>1, <1>2, <1>6, <1>7, <1>8, LocalStep, Zenon

\* The owners that are still to be upserted, after the first of them was.
LEMMA TailFacts ==
    ASSUME NEW d \in Seq(Users), d # << >>
    PROVE  /\ Head(d) \in Users /\ Tail(d) \in Seq(Users) /\ Head(d) = d[1]
           /\ Len(d) \in Nat /\ Len(d) > 0 /\ Len(Tail(d)) = Len(d) - 1
           /\ \A i \in 1 .. Len(d) : i = 1 \/ Tail(d)[i - 1] = d[i]
           /\ \A i \in 1 .. Len(Tail(d)) : Tail(d)[i] = d[i + 1]
           /\ Tail(d) = << >> <=> Len(d) = 1
<1>1. Len(d) \in Nat /\ Len(d) > 0 /\ Head(d) = d[1] /\ d[1] \in Users
    OBVIOUS
<1>2. Tail(d) \in Seq(Users) /\ Len(Tail(d)) = Len(d) - 1
    BY <1>1
<1>3. \A i \in 1 .. Len(Tail(d)) : Tail(d)[i] = d[i + 1]
    BY <1>1, <1>2
<1>4. \A i \in 1 .. Len(d) : i = 1 \/ Tail(d)[i - 1] = d[i]
    <2> SUFFICES ASSUME NEW i \in 1 .. Len(d), i # 1 PROVE Tail(d)[i - 1] = d[i]
        BY Zenon
    <2>1. i - 1 \in 1 .. Len(Tail(d)) /\ (i - 1) + 1 = i
        BY <1>1, <1>2
    <2> QED
        BY <1>3, <2>1
<1>5. Tail(d) = << >> <=> Len(d) = 1
    BY <1>1, <1>2
<1> QED
    BY <1>1, <1>2, <1>3, <1>4, <1>5

\* upsertOne: the row is the transaction's own from now on.
LEMMA UpsertStep ==
    ASSUME MessageInv, NEW t \in Threads, upsertOne(t) PROVE MessageInv'
<1> DEFINE u == Head(todo[t])
           c == req[t].conv
           key == <<c, u>>
           row == [unread |-> (IF key \in DOMAIN conversations THEN conversations[key].unread ELSE 0)
                                + (IF u = req[t].user THEN 0 ELSE 1),
                   last |-> req[t].id, hidden |-> FALSE, deleted |-> FALSE]
           R == Put(tx[t].rows, u, row)
           d == Tail(todo[t])
           p == IF Len(todo[t]) = 1 THEN "commit" ELSE "upsert"
<1>1. /\ pc[t] = "upsert" /\ CanExecute(t) /\ TablesStay
      /\ UNCHANGED <<members, replies, calls, req>>
      /\ tx' = [tx EXCEPT ![t].rows = R]
      /\ todo' = [todo EXCEPT ![t] = d] /\ pc' = [pc EXCEPT ![t] = p]
    BY DEF upsertOne, tables, TablesStay
<1>2. members' \subseteq Users /\ calls' \in Nat /\ calls' >= calls /\ RepliesInv'
    BY <1>1, ThreadFacts, NoReply DEF TablesStay
<1>3. /\ req[t].op = "send" /\ tx[t].read = {} /\ todo[t] # << >> /\ todo[t] \in Seq(Users)
      /\ Sending(pc[t], req[t], todo[t]) /\ Upserted(req[t], tx[t])
      /\ Addressed(pc[t], req[t], todo[t], tx[t])
    BY <1>1, ThreadFacts, Zenon DEF AloneAt, Alone, Place, Sending
<1>4. /\ row \in Row /\ row.last = req[t].id /\ ~ row.hidden
      /\ row.unread = Base(c, u) + (IF u = req[t].user THEN 0 ELSE 1)
    <2>1. Base(c, u) \in Nat
        BY ThreadFacts, Zenon DEF Base, StoredInv, TablesInv, Row
    <2> QED
        BY <2>1, ThreadFacts DEF Base, Row, Request
<1>5. /\ u \in Users /\ d \in Seq(Users) /\ u = todo[t][1]
      /\ \A i \in 1 .. Len(todo[t]) : i = 1 \/ (i - 1 \in 1 .. Len(d) /\ d[i - 1] = todo[t][i])
      /\ \A i \in 1 .. Len(d) : i + 1 \in 1 .. Len(todo[t]) /\ d[i] = todo[t][i + 1]
      /\ (p = "commit" => d = << >>) /\ (p = "upsert" => d # << >>)
      /\ p \in {"upsert", "commit"} /\ p \in Places
    BY <1>3, TailFacts DEF Places
<1> HIDE DEF row, R, d, p, u
<1>6. /\ DOMAIN R = DOMAIN tx[t].rows \cup {u} /\ R[u] = row
      /\ \A w \in DOMAIN tx[t].rows : w # u => R[w] = tx[t].rows[w]
    BY DEF R, Put
<1>7. R \in Rows
    <2>1. DOMAIN tx[t].rows \subseteq Users /\ tx[t].rows \in [DOMAIN tx[t].rows -> Row]
        BY ThreadFacts, RowsType, Zenon
    <2>2. R \in [DOMAIN tx[t].rows \cup {u} -> Row]
        BY <1>4, <2>1 DEF R, Put
    <2> QED
        BY <1>5, <2>1, <2>2, RowsType, SMTT(20)
<1>8. /\ ThreadsInv' /\ OthersStay(t)
      /\ pc'[t] = p /\ req'[t] = req[t] /\ todo'[t] = d
      /\ tx'[t].rows = R /\ tx'[t].read = tx[t].read
    BY <1>1, <1>5, <1>7, ThreadFacts, Zenon DEF ThreadsInv, OthersStay, Stays
<1>9. AloneAt(t)'
    <2>1. Place(pc[t], req[t], tx[t])'
        BY <1>3, <1>5, <1>8, Zenon DEF Place
    <2>2. Sending(pc[t], req[t], todo[t])'
        BY <1>1, <1>3, <1>5, <1>8, Zenon DEF Sending, TablesStay
    <2>3. Upserted(req[t], tx[t])'
        BY <1>1, <1>3, <1>4, <1>6, <1>8, SMTT(20) DEF Upserted, Base, TablesStay
    <2>4. Addressed(pc[t], req[t], todo[t], tx[t])'
        BY <1>1, <1>3, <1>5, <1>6, <1>8 DEF Addressed
    <2>5. Naming(pc[t], req[t], tx[t])' /\ Counting(pc[t], req[t], tx[t])'
        BY <1>3, <1>8, Zenon DEF Naming, Counting, HasCounted
    <2> QED
        BY <2>1, <2>2, <2>3, <2>4, <2>5 DEF AloneAt, Alone
<1>10. ApartFrom(t)'
    <2> SUFFICES ASSUME NEW v \in Threads \ {t}
                 PROVE  /\ Apart(p, req[t], tx'[t], pc[v], req[v], tx[v])
                        /\ Apart(pc[v], req[v], tx[v], p, req[t], tx'[t])
        BY <1>8, Zenon DEF ApartFrom, OthersStay, Stays
    <2>1. /\ Apart(pc[t], req[t], tx[t], pc[v], req[v], tx[v])
          /\ Apart(pc[v], req[v], tx[v], pc[t], req[t], tx[t])
        BY ThreadFacts, Zenon DEF ApartFrom
    <2>2. req[v].conv = c => u \notin DOMAIN tx[v].rows
        BY <1>1 DEF CanExecute, Blocks, u
    <2> QED
        BY <1>1, <1>3, <1>5, <1>6, <1>8, <2>1, <2>2, SMTT(20) DEF Apart, HasWritten, HasCounted
<1> QED
    BY <1>1, <1>2, <1>8, <1>9, <1>10, LocalStep

-----------------------------------------------------------------------------
(* Steps outside the requests, and the beginning                             *)

\* DeleteConversation hides a row and keeps its count and its last message.
LEMMA DeleteStep ==
    ASSUME MessageInv, NEW u \in Users, NEW c \in Convs, DeleteConversation(u, c)
    PROVE  MessageInv'
<1>1. /\ <<c, u>> \in DOMAIN conversations
      /\ conversations' = [conversations EXCEPT ![<<c, u>>].deleted = TRUE]
      /\ UNCHANGED <<messages, receipts, outbox, members, replies, pc, req, todo, tx, calls>>
    BY Zenon DEF DeleteConversation, isOwner
<1>2. /\ StoredInv /\ RepliesInv /\ ThreadsInv /\ AloneInv /\ ApartInv
      /\ conversations \in [DOMAIN conversations -> Row]
    BY DEF MessageInv, StoredInv, TablesInv
<1>3. /\ DOMAIN conversations' = DOMAIN conversations
      /\ conversations' \in [DOMAIN conversations -> Row]
      /\ \A k \in DOMAIN conversations :
            /\ conversations'[k].unread = conversations[k].unread
            /\ conversations'[k].last = conversations[k].last
            /\ conversations'[k].hidden <=> conversations[k].hidden
    BY <1>1, <1>2, Zenon DEF Row
<1>4. TablesInv' /\ KeyInv' /\ LastInv' /\ PairsInv'
    <2>1. TablesInv'
        BY <1>1, <1>2, <1>3, Zenon DEF StoredInv, TablesInv
    <2>2. KeyInv' /\ LastInv'
        BY <1>1, <1>2, <1>3 DEF StoredInv, KeyInv, LastInv
    <2>3. PairsInv'
        BY <1>1, <1>2, <1>3 DEF StoredInv, PairsInv
    <2> QED
        BY <2>1, <2>2, <2>3
<1>5. OutboxMatchesMessages' /\ RecalledPreviewIsHidden'
    BY <1>1, <1>2, <1>3, Zenon DEF StoredInv, OutboxMatchesMessages, RecalledPreviewIsHidden
<1>6. UnreadIsExact'
    BY <1>1, <1>2, <1>3 DEF StoredInv, UnreadIsExact, Unread
<1>7. RepliesInv' /\ ThreadsInv' /\ ApartInv'
    BY <1>1, <1>2, Zenon DEF RepliesInv, ThreadsInv, ApartInv
<1>8. ASSUME NEW v \in Threads PROVE AloneAt(v)'
    <2> DEFINE p == pc[v]
               r == req[v]
               d == todo[v]
               x == tx[v]
    <2>1. p' = p /\ r' = r /\ d' = d /\ x' = x
        BY <1>1, Zenon
    <2>2. Alone(p, r, d, x) /\ DOMAIN x.rows \subseteq Users
        BY ThreadFacts, RowsType DEF AloneAt
    <2> HIDE DEF p, r, d, x
    <2>3. Place(p, r, x)' /\ Addressed(p, r, d, x)' /\ Naming(p, r, x)' /\ Sending(p, r, d)'
        BY <1>1, <2>1, <2>2 DEF Alone, Place, Addressed, Naming, Sending
    <2>4. Upserted(r, x)'
        <3>1. \A w : Base(r.conv, w)' = Base(r.conv, w)
            BY <1>3, <2>1, Zenon DEF Base
        <3> QED
            BY <2>1, <2>2, <3>1, Zenon DEF Alone, Upserted
    <2>5. Counting(p, r, x)'
        <3> SUFFICES ASSUME HasCounted(p, r) PROVE Counting(p, r, x)'
            BY <2>1, Zenon DEF Counting
        <3>1. \A w : Seen(r, x, r.conv, w)' = Seen(r, x, r.conv, w)
            BY <1>1, <2>1 DEF Seen
        <3> QED
            BY <1>3, <2>1, <2>2, <3>1, Zenon DEF Alone, Counting
    <2>6. Alone(p, r, d, x)'
        BY <2>3, <2>4, <2>5, Zenon DEF Alone
    <2> QED
        BY <2>6 DEF AloneAt, p, r, d, x
<1> QED
    BY <1>4, <1>5, <1>6, <1>7, <1>8, Zenon DEF MessageInv, StoredInv, AloneInv, AloneAt

\* An empty database and idle threads.
LEMMA InitInv == Init => MessageInv
<1> SUFFICES ASSUME Init PROVE MessageInv
    BY Zenon
<1>1. TablesInv /\ KeyInv /\ LastInv /\ PairsInv
    BY MessageServiceAssumption DEF Init, TablesInv, KeyInv, LastInv, PairsInv
<1>2. UnreadIsExact /\ RecalledPreviewIsHidden
    BY DEF Init, UnreadIsExact, RecalledPreviewIsHidden
<1>3. OutboxMatchesMessages
    BY DEF Init, OutboxMatchesMessages, IsInjective, Range
<1>4. NoReq \in Request /\ EmptyTx \in [rows : Rows, read : SUBSET Nat] /\ << >> \in Seq(Users)
    BY MessageServiceAssumption, RowsType DEF NoReq, Request, Ops, EmptyTx, NoId
<1>5. ThreadsInv
    BY <1>4 DEF Init, ThreadsInv, Places
<1>6. RepliesInv
    BY Zenon DEF Init, RepliesInv
<1>7. \A t \in Threads : pc[t] = "idle" /\ req[t] = NoReq /\ tx[t] = EmptyTx
    BY Zenon DEF Init
<1>8. AloneInv
    <2> SUFFICES ASSUME NEW t \in Threads PROVE Alone("idle", NoReq, todo[t], EmptyTx)
        BY <1>7, Zenon DEF AloneInv
    <2>1. Place("idle", NoReq, EmptyTx) /\ Counting("idle", NoReq, EmptyTx)
        BY DEF Place, Counting, HasCounted, NoReq, EmptyTx
    <2>2. Sending("idle", NoReq, todo[t]) /\ Upserted(NoReq, EmptyTx)
        BY Zenon DEF Sending, Upserted, NoReq
    <2>3. Addressed("idle", NoReq, todo[t], EmptyTx) /\ Naming("idle", NoReq, EmptyTx)
        BY DEF Addressed, Naming, NoReq
    <2> QED
        BY <2>1, <2>2, <2>3, Zenon DEF Alone
<1>9. ApartInv
    BY <1>7 DEF ApartInv, Apart, HasCounted, HasWritten, NoReq, EmptyTx
<1> QED
    BY <1>1, <1>2, <1>3, <1>5, <1>6, <1>8, <1>9 DEF MessageInv, StoredInv

\* Redis and the group's members are nothing the invariant depends on.
LEMMA AsideStep ==
    ASSUME MessageInv, UNCHANGED <<tables, replies, pc, req, todo, tx, calls>>,
           members' \subseteq Users
    PROVE  MessageInv'
<1>1. calls \in Nat /\ RepliesInv
    BY DEF MessageInv, StoredInv, TablesInv
<1>2. TablesStay
    BY DEF tables, TablesStay
<1>3. RepliesInv'
    BY <1>1, <1>2, NoReply, Zenon DEF TablesStay
<1>4. calls' \in Nat /\ calls' >= calls
    BY <1>1
<1> QED
    BY <1>2, <1>3, <1>4, StillStep, Zenon

-----------------------------------------------------------------------------
(* Commits: the outbox                                                      *)

\* OutboxMatchesMessages for outbox o and messages ms, index by index
Announced(o, ms) ==
    /\ \A i, j \in 1 .. Len(o) : o[i] = o[j] => i = j
    /\ \A i \in 1 .. Len(o) : o[i].id \in DOMAIN ms /\ (o[i].kind = "recall" => ms[o[i].id].recalled)
    /\ \A m \in DOMAIN ms : \E i \in 1 .. Len(o) : o[i] = [kind |-> "send", id |-> m]
    /\ \A m \in DOMAIN ms : ms[m].recalled =>
          \E i \in 1 .. Len(o) : o[i] = [kind |-> "recall", id |-> m]
    /\ \A i, j \in 1 .. Len(o) : o[i].id = o[j].id /\ o[i].kind = "send" => i <= j

\* The two ways to say it are the same.
LEMMA OutboxMeaning ==
    ASSUME NEW o \in Seq(Event), NEW ms
    PROVE  Announced(o, ms) <=>
             /\ IsInjective(o)
             /\ Range(o) = {[kind |-> "send", id |-> m] : m \in DOMAIN ms} \cup
                  {[kind |-> "recall", id |-> m] : m \in {n \in DOMAIN ms : ms[n].recalled}}
             /\ \A i, j \in DOMAIN o : o[i].id = o[j].id /\ o[i].kind = "send" => i <= j
<1>1. DOMAIN o = 1 .. Len(o) /\ \A i \in 1 .. Len(o) : o[i] \in Event
    OBVIOUS
<1> DEFINE A == {[kind |-> "send", id |-> m] : m \in DOMAIN ms} \cup
                  {[kind |-> "recall", id |-> m] : m \in {n \in DOMAIN ms : ms[n].recalled}}
<1>2. ASSUME Announced(o, ms) PROVE Range(o) = A
    <2>1. ASSUME NEW i \in 1 .. Len(o) PROVE o[i] \in A
        <3>1. o[i].id \in DOMAIN ms /\ (o[i].kind = "recall" => ms[o[i].id].recalled)
            BY <1>2, Zenon DEF Announced
        <3>2. o[i] = [kind |-> o[i].kind, id |-> o[i].id] /\ o[i].kind \in {"send", "recall"}
            BY <1>1, Zenon DEF Event
        <3> QED
            BY <3>1, <3>2, Zenon
    <2>2. ASSUME NEW e \in A PROVE \E i \in 1 .. Len(o) : o[i] = e
        BY <1>2 DEF Announced
    <2> QED
        BY <1>1, <2>1, <2>2, Zenon DEF Range
<1>3. ASSUME Range(o) = A
      PROVE  /\ \A i \in 1 .. Len(o) :
                   o[i].id \in DOMAIN ms /\ (o[i].kind = "recall" => ms[o[i].id].recalled)
             /\ \A m \in DOMAIN ms : \E i \in 1 .. Len(o) : o[i] = [kind |-> "send", id |-> m]
             /\ \A m \in DOMAIN ms : ms[m].recalled =>
                   \E i \in 1 .. Len(o) : o[i] = [kind |-> "recall", id |-> m]
    BY <1>1, <1>3 DEF Range
<1> QED
    BY <1>1, <1>2, <1>3, Zenon DEF Announced, IsInjective

\* A new message is announced.
LEMMA AnnounceSend ==
    ASSUME NEW o \in Seq(Event), NEW ms, NEW ns, Announced(o, ms),
           NEW id \in Nat, id \notin DOMAIN ms, DOMAIN ns = DOMAIN ms \cup {id},
           \A m \in DOMAIN ms : ns[m] = ms[m], ~ ns[id].recalled
    PROVE  Announced(Append(o, [kind |-> "send", id |-> id]), ns)
<1> DEFINE e == [kind |-> "send", id |-> id]
           n == Len(o)
           w == Append(o, e)
<1>1. n \in Nat /\ Len(w) = n + 1 /\ w[n + 1] = e /\ \A i \in 1 .. n : w[i] = o[i]
    OBVIOUS
<1>2. e.kind = "send" /\ e.id = id
    OBVIOUS
<1>3. \A i \in 1 .. n : o[i].id # id /\ o[i].id \in DOMAIN ms
    BY DEF Announced
<1>4. \A i \in 1 .. n + 1 : i \in 1 .. n \/ i = n + 1
    BY <1>1
<1>5. \A i \in 1 .. n : i \in 1 .. n + 1 /\ i <= n + 1
    BY <1>1
<1>6. n + 1 \in 1 .. n + 1
    BY <1>1
<1> HIDE DEF w, n
<1> USE <1>1, <1>2, <1>3, <1>4, <1>5, <1>6
<1>7. \A i, j \in 1 .. Len(w) : w[i] = w[j] => i = j
    BY DEF Announced, n
<1>8. \A i \in 1 .. Len(w) : w[i].id \in DOMAIN ns /\ (w[i].kind = "recall" => ns[w[i].id].recalled)
    BY DEF Announced, n
<1>9. ASSUME NEW m \in DOMAIN ns PROVE \E i \in 1 .. Len(w) : w[i] = [kind |-> "send", id |-> m]
    <2>1. CASE m = id
        BY <2>1, Zenon
    <2>2. CASE m \in DOMAIN ms
        <3>1. PICK i \in 1 .. n : o[i] = [kind |-> "send", id |-> m]
            BY <2>2, Zenon DEF Announced, n
        <3> QED
            BY <3>1, Zenon
    <2> QED
        BY <2>1, <2>2
<1>10. ASSUME NEW m \in DOMAIN ns, ns[m].recalled
       PROVE  \E i \in 1 .. Len(w) : w[i] = [kind |-> "recall", id |-> m]
    <2>1. m \in DOMAIN ms /\ ms[m].recalled
        BY <1>10, Zenon
    <2>2. PICK i \in 1 .. n : o[i] = [kind |-> "recall", id |-> m]
        BY <2>1, Zenon DEF Announced, n
    <2> QED
        BY <2>2
<1>11. \A i, j \in 1 .. Len(w) : w[i].id = w[j].id /\ w[i].kind = "send" => i <= j
    <2> SUFFICES ASSUME NEW i \in 1 .. n + 1, NEW j \in 1 .. n + 1, w[i].id = w[j].id,
                        w[i].kind = "send"
                 PROVE  i <= j
        BY Zenon
    <2>1. CASE i \in 1 .. n /\ j \in 1 .. n
        BY <2>1, Zenon DEF Announced, n
    <2>2. CASE j = n + 1
        BY <2>2
    <2>3. CASE i = n + 1 /\ j \in 1 .. n
        BY <2>3
    <2> QED
        BY <2>1, <2>2, <2>3, Zenon
<1> QED
    BY <1>7, <1>8, <1>9, <1>10, <1>11, Zenon DEF Announced, w, e

\* So is a recall, after the message.
LEMMA AnnounceRecall ==
    ASSUME NEW o \in Seq(Event), NEW ms, NEW ns, Announced(o, ms),
           NEW id \in DOMAIN ms, id \in Nat, ~ ms[id].recalled, DOMAIN ns = DOMAIN ms,
           \A m \in DOMAIN ms : m # id => (ns[m].recalled <=> ms[m].recalled), ns[id].recalled
    PROVE  Announced(Append(o, [kind |-> "recall", id |-> id]), ns)
<1> DEFINE e == [kind |-> "recall", id |-> id]
           n == Len(o)
           w == Append(o, e)
<1>1. n \in Nat /\ Len(w) = n + 1 /\ w[n + 1] = e /\ \A i \in 1 .. n : w[i] = o[i]
    BY DEF Event
<1>2. e.kind = "recall" /\ e.id = id
    BY Zenon
<1>3. \A i \in 1 .. n : o[i].id \in DOMAIN ms /\ (o[i].kind = "recall" => o[i].id # id)
    BY Zenon DEF Announced
<1>4. \A i \in 1 .. n + 1 : i \in 1 .. n \/ i = n + 1
    BY <1>1
<1>5. \A i \in 1 .. n : i \in 1 .. n + 1 /\ i <= n + 1
    BY <1>1
<1>6. n + 1 \in 1 .. n + 1
    BY <1>1
<1> HIDE DEF w, n
<1> USE <1>1, <1>2, <1>3, <1>4, <1>5, <1>6
<1>7. \A i, j \in 1 .. Len(w) : w[i] = w[j] => i = j
    BY DEF Announced, n
<1>8. \A i \in 1 .. Len(w) : w[i].id \in DOMAIN ns /\ (w[i].kind = "recall" => ns[w[i].id].recalled)
    BY DEF Announced, n
<1>9. ASSUME NEW m \in DOMAIN ns PROVE \E i \in 1 .. Len(w) : w[i] = [kind |-> "send", id |-> m]
    <2>1. PICK i \in 1 .. n : o[i] = [kind |-> "send", id |-> m]
        BY Zenon DEF Announced, n
    <2> QED
        BY <2>1, Zenon
<1>10. ASSUME NEW m \in DOMAIN ns, ns[m].recalled
       PROVE  \E i \in 1 .. Len(w) : w[i] = [kind |-> "recall", id |-> m]
    <2>1. CASE m = id
        BY <2>1
    <2>2. CASE m # id
        <3>1. PICK i \in 1 .. n : o[i] = [kind |-> "recall", id |-> m]
            BY <1>10, <2>2, Zenon DEF Announced, n
        <3> QED
            BY <3>1, Zenon
    <2> QED
        BY <2>1, <2>2, Zenon
<1>11. \A i, j \in 1 .. Len(w) : w[i].id = w[j].id /\ w[i].kind = "send" => i <= j
    <2> SUFFICES ASSUME NEW i \in 1 .. n + 1, NEW j \in 1 .. n + 1, w[i].id = w[j].id,
                        w[i].kind = "send"
                 PROVE  i <= j
        BY Zenon
    <2>1. CASE i \in 1 .. n /\ j \in 1 .. n
        BY <2>1 DEF Announced, n
    <2>2. CASE j = n + 1
        BY <2>2, Zenon
    <2>3. i # n + 1
        BY Zenon
    <2> QED
        BY <2>1, <2>2, <2>3, Zenon
<1> QED
    BY <1>7, <1>8, <1>9, <1>10, <1>11, Zenon DEF Announced, w, e

-----------------------------------------------------------------------------
(* Commits: the conversations                                               *)

\* The rows of the transaction replace those of their owners, and no others.
LEMMA RowsApplied ==
    ASSUME MessageInv, NEW t \in Threads, Apply(t), req[t].conv \in Convs
    PROVE  /\ \A k : k \in DOMAIN conversations' <=>
                       \/ k \in DOMAIN conversations
                       \/ \E u \in DOMAIN tx[t].rows : k = <<req[t].conv, u>>
           /\ \A u \in DOMAIN tx[t].rows : conversations'[<<req[t].conv, u>>] = tx[t].rows[u]
           /\ \A k \in DOMAIN conversations :
                 k[1] # req[t].conv \/ k[2] \notin DOMAIN tx[t].rows =>
                    conversations'[k] = conversations[k]
           /\ DOMAIN conversations' \subseteq Convs \X Users
           /\ conversations' \in [DOMAIN conversations' -> Row]
<1> DEFINE c == req[t].conv
           rows == tx[t].rows
           D == {<<c, u>> : u \in DOMAIN rows} \cup DOMAIN conversations
           f == [k \in D |-> IF k[1] = c /\ k[2] \in DOMAIN rows THEN rows[k[2]] ELSE conversations[k]]
<1>1. conversations' = f
    BY Zenon DEF Apply
<1>2. /\ DOMAIN rows \subseteq Users /\ rows \in [DOMAIN rows -> Row]
      /\ DOMAIN conversations \subseteq Convs \X Users
      /\ conversations \in [DOMAIN conversations -> Row]
    BY ThreadFacts, RowsType, Zenon DEF StoredInv, TablesInv
<1> HIDE DEF c, rows
<1>3. \A k \in D : f[k] \in Row
    <2> SUFFICES ASSUME NEW k \in D PROVE f[k] \in Row
        BY Zenon
    <2>1. CASE k[1] = c /\ k[2] \in DOMAIN rows
        BY <1>2, <2>1, Zenon
    <2>2. CASE ~ (k[1] = c /\ k[2] \in DOMAIN rows)
        BY <1>2, <2>2
    <2> QED
        BY <2>1, <2>2, Zenon
<1>4. D \subseteq Convs \X Users
    BY <1>2 DEF c
<1>5. DOMAIN f = D /\ f \in [D -> Row]
    BY <1>3, Zenon
<1>6. \A u \in DOMAIN rows : f[<<c, u>>] = rows[u]
    BY Zenon
<1>7. \A k \in DOMAIN conversations : k[1] # c \/ k[2] \notin DOMAIN rows => f[k] = conversations[k]
    BY Zenon
<1> QED
    BY <1>1, <1>4, <1>5, <1>6, <1>7 DEF c, rows

-----------------------------------------------------------------------------
(* Commit of a send                                                         *)

\* The message is new.
LEMMA SendApplied ==
    ASSUME MessageInv, NEW t \in Threads, pc[t] = "commit", req[t].op = "send", Apply(t)
    PROVE  /\ req[t].id \in Nat /\ req[t].id \in 1 .. calls /\ req[t].id \notin DOMAIN messages
           /\ req[t].conv \in Convs /\ req[t].user \in Users /\ req[t].seq \in Nat
           /\ DOMAIN messages' = DOMAIN messages \cup {req[t].id}
           /\ messages'[req[t].id] = [from |-> req[t].user, seq |-> req[t].seq,
                                      conv |-> req[t].conv, recalled |-> FALSE]
           /\ \A m \in DOMAIN messages : messages'[m] = messages[m]
           /\ receipts' = receipts
           /\ outbox' = Append(outbox, [kind |-> "send", id |-> req[t].id])
<1>1. req[t] \in Request /\ Sending(pc[t], req[t], todo[t]) /\ Place(pc[t], req[t], tx[t])
    BY ThreadFacts DEF AloneAt, Alone
<1>2. /\ req[t].id \in Nat /\ req[t].id \in 1 .. calls /\ req[t].id \notin DOMAIN messages
      /\ req[t].conv \in Convs /\ req[t].user \in Users /\ req[t].seq \in Nat
    BY <1>1, Zenon DEF Request, Sending
<1>3. receipts' = receipts
    BY <1>1, Zenon DEF Apply, Place
<1>4. messages' = Put(messages, req[t].id, [from |-> req[t].user, seq |-> req[t].seq,
                                            conv |-> req[t].conv, recalled |-> FALSE])
    BY Zenon DEF Apply
<1>5. outbox' = Append(outbox, [kind |-> "send", id |-> req[t].id])
    BY Zenon DEF Apply
<1> QED
    BY <1>2, <1>3, <1>4, <1>5 DEF Put

\* The tables stay well formed, the new key is unique and the rows show the message.
LEMMA SendKeeps ==
    ASSUME MessageInv, NEW t \in Threads, pc[t] = "commit", req[t].op = "send", Apply(t),
           UNCHANGED <<members, calls, replies>>
    PROVE  TablesInv' /\ KeyInv' /\ RepliesInv' /\ LastInv' /\ PairsInv' /\ RecalledPreviewIsHidden'
           /\ OutboxMatchesMessages'
<1> DEFINE id == req[t].id
           c == req[t].conv
           rows == tx[t].rows
<1>1. /\ id \in Nat /\ id \in 1 .. calls /\ id \notin DOMAIN messages
      /\ c \in Convs /\ req[t].user \in Users /\ req[t].seq \in Nat
      /\ DOMAIN messages' = DOMAIN messages \cup {id}
      /\ messages'[id] = [from |-> req[t].user, seq |-> req[t].seq, conv |-> c, recalled |-> FALSE]
      /\ \A m \in DOMAIN messages : messages'[m] = messages[m]
      /\ receipts' = receipts
      /\ outbox' = Append(outbox, [kind |-> "send", id |-> id])
    BY SendApplied, Zenon
<1>2. messages'[id].from = req[t].user /\ messages'[id].seq = req[t].seq /\ messages'[id].conv = c
      /\ ~ messages'[id].recalled /\ messages'[id] \in Message
    BY <1>1 DEF Message
<1>3. /\ \A k : k \in DOMAIN conversations' <=>
                  k \in DOMAIN conversations \/ \E u \in DOMAIN rows : k = <<c, u>>
      /\ \A u \in DOMAIN rows : conversations'[<<c, u>>] = rows[u]
      /\ \A k \in DOMAIN conversations :
            k[1] # c \/ k[2] \notin DOMAIN rows => conversations'[k] = conversations[k]
      /\ DOMAIN conversations' \subseteq Convs \X Users
      /\ conversations' \in [DOMAIN conversations' -> Row]
    BY <1>1, RowsApplied
<1>4. /\ TablesInv /\ KeyInv /\ LastInv /\ PairsInv /\ RepliesInv
      /\ RecalledPreviewIsHidden /\ OutboxMatchesMessages
    BY ThreadFacts DEF StoredInv
<1>5. /\ \A u \in DOMAIN rows : rows[u].last = id /\ ~ rows[u].hidden
      /\ c # Group => \A u \in c : u \in DOMAIN rows
      /\ c # Group => \A u \in DOMAIN rows : u \in c
      /\ req[t].seq # 0 => \A m \in DOMAIN messages :
             ~ (messages[m].from = req[t].user /\ messages[m].seq = req[t].seq)
    <2>1. /\ Upserted(req[t], tx[t]) /\ Addressed(pc[t], req[t], todo[t], tx[t])
          /\ Sending(pc[t], req[t], todo[t])
        BY ThreadFacts, Zenon DEF AloneAt, Alone
    <2>2. Len(todo[t]) = 0
        BY <2>1 DEF Sending
    <2> QED
        BY <2>1, <2>2 DEF Upserted, Addressed, Sending
<1>6. \A k \in DOMAIN conversations' :
         \/ k \in DOMAIN conversations /\ conversations'[k] = conversations[k]
         \/ k[1] = c /\ k[2] \in DOMAIN rows /\ conversations'[k] = rows[k[2]]
    <2> SUFFICES ASSUME NEW k \in DOMAIN conversations'
                 PROVE  \/ k \in DOMAIN conversations /\ conversations'[k] = conversations[k]
                        \/ k[1] = c /\ k[2] \in DOMAIN rows /\ conversations'[k] = rows[k[2]]
        BY Zenon
    <2>1. k \in Convs \X Users /\ k = <<k[1], k[2]>>
        BY <1>3
    <2>2. CASE k[1] = c /\ k[2] \in DOMAIN rows
        BY <1>3, <2>1, <2>2
    <2>3. CASE ~ (k[1] = c /\ k[2] \in DOMAIN rows)
        BY <1>3, <2>1, <2>3
    <2> QED
        BY <2>2, <2>3, Zenon
<1> HIDE DEF id, c, rows
<1>7. TablesInv'
    <2>1. messages' \in [DOMAIN messages' -> Message]
        <3>1. \A m \in DOMAIN messages' : messages'[m] \in Message
            BY <1>1, <1>2, <1>4, Zenon DEF TablesInv
        <3>2. messages' = [m \in DOMAIN messages' |-> messages'[m]]
            BY Zenon DEF Apply, Put, id
        <3> QED
            BY <3>1, <3>2
    <2>2. outbox' \in Seq(Event)
        BY <1>1, <1>4 DEF TablesInv, Event
    <2>3. \A m, u : <<m, u>> \in receipts' => m \in DOMAIN messages'
        BY <1>1, <1>4, Zenon DEF TablesInv
    <2> QED
        BY <1>1, <1>3, <1>4, <2>1, <2>2, <2>3, Zenon DEF TablesInv
<1>8. KeyInv'
    BY <1>1, <1>2, <1>4, <1>5 DEF KeyInv
<1>9. RepliesInv'
    BY <1>1, <1>4 DEF RepliesInv
<1>10. LastInv'
    BY <1>1, <1>2, <1>4, <1>5, <1>6 DEF LastInv
<1>11. PairsInv'
    <2>1. ASSUME NEW m \in DOMAIN messages', messages'[m].conv # Group, NEW u \in messages'[m].conv
          PROVE  <<messages'[m].conv, u>> \in DOMAIN conversations'
        <3>1. CASE m = id
            BY <1>2, <1>3, <1>5, <2>1, <3>1, Zenon
        <3>2. CASE m \in DOMAIN messages
            BY <1>1, <1>3, <1>4, <2>1, <3>2, Zenon DEF PairsInv
        <3> QED
            BY <1>1, <3>1, <3>2, Zenon
    <2>2. ASSUME NEW k \in DOMAIN conversations', k[1] # Group PROVE k[2] \in k[1]
        BY <1>4, <1>5, <1>6, <2>2, Zenon DEF PairsInv
    <2> QED
        BY <2>1, <2>2, Zenon DEF PairsInv
<1>12. RecalledPreviewIsHidden'
    <2> SUFFICES ASSUME NEW k \in DOMAIN conversations'
                 PROVE  conversations'[k].hidden <=> messages'[conversations'[k].last].recalled
        BY DEF RecalledPreviewIsHidden
    <2>1. CASE k \in DOMAIN conversations /\ conversations'[k] = conversations[k]
        BY <1>1, <1>4, <2>1 DEF RecalledPreviewIsHidden, LastInv
    <2>2. CASE k[1] = c /\ k[2] \in DOMAIN rows /\ conversations'[k] = rows[k[2]]
        BY <1>2, <1>5, <2>2, Zenon
    <2> QED
        BY <1>6, <2>1, <2>2, Zenon
<1>13. OutboxMatchesMessages'
    <2>1. outbox \in Seq(Event) /\ outbox' \in Seq(Event)
        BY <1>4, <1>7, Zenon DEF TablesInv
    <2>2. Announced(outbox, messages)
        BY <1>4, <2>1, OutboxMeaning DEF OutboxMatchesMessages
    <2>3. Announced(outbox', messages')
        BY <1>1, <1>2, <2>1, <2>2, AnnounceSend
    <2> QED
        BY <2>1, <2>3, OutboxMeaning DEF OutboxMatchesMessages
<1> QED
    BY <1>7, <1>8, <1>9, <1>10, <1>11, <1>12, <1>13, Zenon

\* The other requests are not disturbed: they hold other keys and other rows, and
\* have counted other conversations.
LEMMA SendOthers ==
    ASSUME MessageInv, NEW t \in Threads, pc[t] = "commit", req[t].op = "send", Apply(t),
           UNCHANGED calls, NEW v \in Threads \ {t}, Stays(v)
    PROVE  AloneAt(v)'
<1> DEFINE p == pc[v]
           r == req[v]
           d == todo[v]
           x == tx[v]
           id == req[t].id
           c == req[t].conv
           rows == tx[t].rows
<1>1. p' = p /\ r' = r /\ d' = d /\ x' = x
    BY Zenon DEF Stays
<1>2. Alone(p, r, d, x) /\ r \in Request
    BY ThreadFacts, Zenon DEF AloneAt
<1>3. /\ Apart("commit", req[t], tx[t], p, r, x) /\ Apart(p, r, x, "commit", req[t], tx[t])
    BY ThreadFacts DEF ApartFrom
<1>4. /\ id \notin DOMAIN messages /\ c \in Convs
      /\ DOMAIN messages' = DOMAIN messages \cup {id}
      /\ messages'[id] = [from |-> req[t].user, seq |-> req[t].seq, conv |-> c, recalled |-> FALSE]
      /\ \A m \in DOMAIN messages : messages'[m] = messages[m]
      /\ receipts' = receipts
    BY SendApplied, Zenon
<1>5. /\ messages'[id].from = req[t].user /\ messages'[id].seq = req[t].seq
      /\ messages'[id].conv = c
    BY <1>4
<1>6. /\ \A k : k \in DOMAIN conversations' <=>
                  k \in DOMAIN conversations \/ \E u \in DOMAIN rows : k = <<c, u>>
      /\ \A k \in DOMAIN conversations :
            k[1] # c \/ k[2] \notin DOMAIN rows => conversations'[k] = conversations[k]
    BY <1>4, RowsApplied, Zenon
<1>7. HasWritten("commit", req[t]) /\ (r.op = "send" => r.id # id)
      /\ (r.conv = c => DOMAIN rows \cap DOMAIN x.rows = {} /\ ~ HasCounted(p, r))
      /\ (r.op = "send" /\ HasWritten(p, r) /\ r.seq # 0 =>
             ~ (messages'[id].from = r.user /\ messages'[id].seq = r.seq))
    BY <1>3, <1>5, Zenon DEF Apart, HasWritten
<1> HIDE DEF p, r, d, x, id, c, rows
<1>8. Place(p, r, x)' /\ Addressed(p, r, d, x)'
    BY <1>1, <1>2 DEF Alone, Place, Addressed
<1>9. Sending(p, r, d)'
    BY <1>1, <1>2, <1>4, <1>7 DEF Alone, Sending, HasWritten
<1>10. Naming(p, r, x)'
    BY <1>1, <1>2, <1>4, Zenon DEF Alone, Naming
<1>11. Upserted(r, x)'
    <2> SUFFICES ASSUME r.op = "send", NEW u \in DOMAIN x.rows
                 PROVE  /\ x.rows[u].last = r.id /\ ~ x.rows[u].hidden
                        /\ x.rows[u].unread = Base(r.conv, u)' + (IF u = r.user THEN 0 ELSE 1)
        BY <1>1, Zenon DEF Upserted
    <2>1. r.conv # c \/ u \notin DOMAIN rows
        BY <1>7, Zenon
    <2>2. Base(r.conv, u)' = Base(r.conv, u)
        BY <1>1, <1>6, <2>1, Zenon DEF Base
    <2> QED
        BY <1>2, <2>2 DEF Alone, Upserted
<1>12. Counting(p, r, x)'
    <2> SUFFICES ASSUME HasCounted(p, r) PROVE Counting(p, r, x)'
        BY <1>1 DEF Counting
    <2>1. r.conv # c
        BY <1>7
    <2>2. \A u : Seen(r, x, r.conv, u)' = Seen(r, x, r.conv, u)
        BY <1>1, <1>4, <1>5, <2>1 DEF Seen
    <2>3. \A u : /\ <<r.conv, u>> \in DOMAIN conversations' <=> <<r.conv, u>> \in DOMAIN conversations
                 /\ <<r.conv, u>> \in DOMAIN conversations =>
                       conversations'[<<r.conv, u>>] = conversations[<<r.conv, u>>]
        BY <1>6, <2>1
    <2>4. DOMAIN x.rows \subseteq Users
        BY ThreadFacts, RowsType DEF x
    <2> QED
        BY <1>1, <1>2, <2>2, <2>3, <2>4 DEF Alone, Counting
<1>13. Alone(p, r, d, x)'
    BY <1>8, <1>9, <1>10, <1>11, <1>12, Zenon DEF Alone
<1> QED
    BY <1>13 DEF AloneAt, p, r, d, x

-----------------------------------------------------------------------------
(* Commit of a recall or of a read marker                                   *)

\* A recall changes one flag, a read marker adds receipts of one user for messages
\* of one conversation, and both change rows that are there.
LEMMA CountApplied ==
    ASSUME MessageInv, NEW t \in Threads, pc[t] = "commit", req[t].op # "send", Apply(t)
    PROVE  /\ req[t].op \in {"recall", "readMessage", "readConversation"}
           /\ req[t].id \in DOMAIN messages /\ messages[req[t].id].conv = req[t].conv
           /\ req[t].conv \in Convs /\ req[t].user \in Users
           /\ req[t].op = "recall" => ~ messages[req[t].id].recalled
           /\ DOMAIN messages' = DOMAIN messages /\ messages' \in [DOMAIN messages -> Message]
           /\ \A m \in DOMAIN messages :
                 /\ messages'[m].from = messages[m].from /\ messages'[m].seq = messages[m].seq
                 /\ messages'[m].conv = messages[m].conv
                 /\ messages'[m].recalled <=> messages[m].recalled \/ (req[t].op = "recall" /\ m = req[t].id)
           /\ \A m, u : <<m, u>> \in receipts' <=>
                           <<m, u>> \in receipts \/ (u = req[t].user /\ m \in tx[t].read)
           /\ \A m \in tx[t].read : m \in DOMAIN messages /\ messages[m].conv = req[t].conv
           /\ outbox' = IF req[t].op = "recall"
                        THEN Append(outbox, [kind |-> "recall", id |-> req[t].id]) ELSE outbox
<1>1. req[t] \in Request /\ Naming(pc[t], req[t], tx[t]) /\ Place(pc[t], req[t], tx[t])
    BY ThreadFacts DEF AloneAt, Alone
<1>2. req[t].op \in {"recall", "readMessage", "readConversation"} /\ req[t].user \in Users
    BY <1>1, Zenon DEF Place, Request, Ops
<1>3. /\ req[t].id \in DOMAIN messages /\ messages[req[t].id].conv = req[t].conv
      /\ req[t].op = "recall" => ~ messages[req[t].id].recalled
      /\ \A m \in tx[t].read : m \in DOMAIN messages /\ messages[m].conv = req[t].conv
    BY <1>1, <1>2, Zenon DEF Naming
<1>4. messages \in [DOMAIN messages -> Message] /\ req[t].conv \in Convs
    <2>1. messages \in [DOMAIN messages -> Message]
        BY ThreadFacts DEF StoredInv, TablesInv
    <2> QED
        BY <1>3, <2>1, Zenon DEF Message
<1>5. /\ DOMAIN messages' = DOMAIN messages /\ messages' \in [DOMAIN messages -> Message]
      /\ \A m \in DOMAIN messages :
            /\ messages'[m].from = messages[m].from /\ messages'[m].seq = messages[m].seq
            /\ messages'[m].conv = messages[m].conv
            /\ messages'[m].recalled <=> messages[m].recalled \/ (req[t].op = "recall" /\ m = req[t].id)
    <2>1. CASE req[t].op = "recall"
        <3>1. messages' = [messages EXCEPT ![req[t].id].recalled = TRUE]
            BY <2>1, Zenon DEF Apply
        <3> QED
            BY <1>3, <1>4, <2>1, <3>1, Zenon DEF Message
    <2>2. CASE req[t].op # "recall"
        <3>1. messages' = messages
            BY <2>2, Zenon DEF Apply
        <3> QED
            BY <1>4, <2>2, <3>1, Zenon
    <2> QED
        BY <2>1, <2>2, Zenon
<1>6. \A m, u : <<m, u>> \in receipts' <=>
                   <<m, u>> \in receipts \/ (u = req[t].user /\ m \in tx[t].read)
    BY Zenon DEF Apply
<1>7. outbox' = IF req[t].op = "recall"
                THEN Append(outbox, [kind |-> "recall", id |-> req[t].id]) ELSE outbox
    BY <1>2, Zenon DEF Apply
<1> QED
    BY <1>2, <1>3, <1>4, <1>5, <1>6, <1>7, Zenon

\* The rows that were counted, and the others.
LEMMA CountedRows ==
    ASSUME MessageInv, NEW t \in Threads, pc[t] = "commit", req[t].op # "send", Apply(t)
    PROVE  /\ DOMAIN conversations' = DOMAIN conversations
           /\ conversations' \in [DOMAIN conversations -> Row]
           /\ \A k \in DOMAIN conversations :
                 /\ conversations'[k].last = conversations[k].last
                 /\ \/ /\ k[1] # req[t].conv \/ (req[t].op # "recall" /\ k[2] # req[t].user)
                       /\ conversations'[k] = conversations[k]
                    \/ /\ k[1] = req[t].conv
                       /\ conversations'[k].hidden <=>
                            \/ conversations[k].hidden
                            \/ req[t].op = "recall" /\ conversations[k].last = req[t].id
                       /\ conversations'[k].unread = Cardinality(Seen(req[t], tx[t], k[1], k[2]))
<1> DEFINE c == req[t].conv
           rows == tx[t].rows
<1>1. c \in Convs
    BY CountApplied, Zenon
<1>2. /\ \A k : k \in DOMAIN conversations' <=>
                  k \in DOMAIN conversations \/ \E u \in DOMAIN rows : k = <<c, u>>
      /\ \A u \in DOMAIN rows : conversations'[<<c, u>>] = rows[u]
      /\ \A k \in DOMAIN conversations :
            k[1] # c \/ k[2] \notin DOMAIN rows => conversations'[k] = conversations[k]
      /\ conversations' \in [DOMAIN conversations' -> Row]
    BY <1>1, RowsApplied, Zenon
<1>3. /\ DOMAIN rows \subseteq Users
      /\ \A u \in Users :
            u \in DOMAIN rows <=>
               <<c, u>> \in DOMAIN conversations /\ (req[t].op = "recall" \/ u = req[t].user)
      /\ \A u \in DOMAIN rows :
            /\ rows[u].last = conversations[<<c, u>>].last
            /\ rows[u].hidden <=> \/ conversations[<<c, u>>].hidden
                                  \/ req[t].op = "recall" /\ rows[u].last = req[t].id
            /\ rows[u].unread = Cardinality(Seen(req[t], tx[t], c, u))
    <2>1. Counting(pc[t], req[t], tx[t]) /\ DOMAIN rows \subseteq Users
        BY ThreadFacts, RowsType, Zenon DEF AloneAt, Alone
    <2> QED
        BY <2>1, Zenon DEF Counting, HasCounted
<1>4. DOMAIN conversations \subseteq Convs \X Users
    BY ThreadFacts, Zenon DEF StoredInv, TablesInv
<1> HIDE DEF c, rows
<1>5. DOMAIN conversations' = DOMAIN conversations
    <2>1. \A u \in DOMAIN rows : <<c, u>> \in DOMAIN conversations
        BY <1>3
    <2>2. \A k : k \in DOMAIN conversations' <=> k \in DOMAIN conversations
        BY <1>2, <2>1, Zenon
    <2> QED
        BY <2>2, Zenon
<1>6. ASSUME NEW k \in DOMAIN conversations
      PROVE  /\ conversations'[k].last = conversations[k].last
             /\ \/ /\ k[1] # c \/ (req[t].op # "recall" /\ k[2] # req[t].user)
                   /\ conversations'[k] = conversations[k]
                \/ /\ k[1] = c
                   /\ conversations'[k].hidden <=>
                        \/ conversations[k].hidden
                        \/ req[t].op = "recall" /\ conversations[k].last = req[t].id
                   /\ conversations'[k].unread = Cardinality(Seen(req[t], tx[t], k[1], k[2]))
    <2>1. k = <<k[1], k[2]>> /\ k[2] \in Users
        BY <1>4
    <2>2. CASE k[1] # c
        BY <1>2, <2>2, Zenon
    <2>3. CASE k[1] = c /\ k[2] \notin DOMAIN rows
        BY <1>2, <1>3, <2>1, <2>3
    <2>4. CASE k[1] = c /\ k[2] \in DOMAIN rows
        <3>1. k = <<c, k[2]>>
            BY <2>1, <2>4, Zenon
        <3> QED
            BY <1>2, <1>3, <2>4, <3>1
    <2> QED
        BY <2>2, <2>3, <2>4, Zenon
<1> QED
    BY <1>2, <1>5, <1>6, Zenon DEF c

\* The other requests are not disturbed by a recall or a read marker.
LEMMA CountOthers ==
    ASSUME MessageInv, NEW t \in Threads, pc[t] = "commit", req[t].op # "send", Apply(t),
           UNCHANGED calls, NEW v \in Threads \ {t}, Stays(v)
    PROVE  AloneAt(v)'
<1> DEFINE p == pc[v]
           r == req[v]
           d == todo[v]
           x == tx[v]
           id == req[t].id
           c == req[t].conv
           w == req[t].user
           recall == req[t].op = "recall"
           read == tx[t].read
<1>1. p' = p /\ r' = r /\ d' = d /\ x' = x
    BY Zenon DEF Stays
<1>2. Alone(p, r, d, x) /\ r \in Request /\ DOMAIN x.rows \subseteq Users
    BY ThreadFacts, RowsType, Zenon DEF AloneAt
<1>3. /\ Apart("commit", req[t], tx[t], p, r, x) /\ Apart(p, r, x, "commit", req[t], tx[t])
    BY ThreadFacts, Zenon DEF ApartFrom
<1>4. /\ id \in DOMAIN messages /\ messages[id].conv = c /\ c \in Convs /\ w \in Users
      /\ DOMAIN messages' = DOMAIN messages
      /\ \A m \in DOMAIN messages :
            /\ messages'[m].from = messages[m].from /\ messages'[m].seq = messages[m].seq
            /\ messages'[m].conv = messages[m].conv
            /\ messages'[m].recalled <=> messages[m].recalled \/ (recall /\ m = id)
      /\ \A m, u : <<m, u>> \in receipts' <=> <<m, u>> \in receipts \/ (u = w /\ m \in read)
      /\ \A m \in read : m \in DOMAIN messages /\ messages[m].conv = c
    BY CountApplied, Zenon
<1>5. /\ DOMAIN conversations' = DOMAIN conversations
      /\ \A k \in DOMAIN conversations :
            \/ conversations'[k] = conversations[k]
            \/ k[1] = c /\ (recall \/ k[2] = w)
    <2>1. \A u \in Users : u \in DOMAIN tx[t].rows <=>
                <<c, u>> \in DOMAIN conversations /\ (recall \/ u = w)
        BY ThreadFacts, Zenon DEF AloneAt, Alone, Counting, HasCounted
    <2>2. \A k \in DOMAIN conversations :
             k[1] # c \/ k[2] \notin DOMAIN tx[t].rows => conversations'[k] = conversations[k]
        BY <1>4, RowsApplied, Zenon
    <2>3. \A k \in DOMAIN conversations : k[2] \in Users /\ k = <<k[1], k[2]>>
        BY ThreadFacts DEF StoredInv, TablesInv
    <2>4. DOMAIN conversations' = DOMAIN conversations
        BY CountedRows, Zenon
    <2> QED
        BY <2>1, <2>2, <2>3, <2>4, Zenon
<1>6. /\ r.conv = c => ~ HasWritten(p, r)
      /\ r.op = "recall" /\ HasWritten(p, r) /\ recall => r.id # id
      /\ r.conv = c /\ HasCounted(p, r) => ~ recall
    BY <1>3, Zenon DEF Apart, HasWritten, HasCounted
\* Two read markers of the same user have not both counted the same row
<1>7. ASSUME r.conv = c, HasCounted(p, r), r.user = w, ~ recall, r.op # "recall"
      PROVE  <<c, w>> \notin DOMAIN conversations
    <2>1. w \in DOMAIN tx[t].rows <=> <<c, w>> \in DOMAIN conversations
        BY <1>4, <1>7, ThreadFacts, Zenon DEF AloneAt, Alone, Counting, HasCounted
    <2>2. w \in DOMAIN x.rows <=> <<c, w>> \in DOMAIN conversations
        BY <1>2, <1>4, <1>7, Zenon DEF Alone, Counting
    <2>3. DOMAIN tx[t].rows \cap DOMAIN x.rows = {}
        BY <1>3, <1>7, Zenon DEF Apart
    <2> QED
        BY <2>1, <2>2, <2>3
<1>8. HasCounted(p, r) => r.op \in {"recall", "readMessage", "readConversation"}
    BY <1>2, Zenon DEF Alone, Place, HasCounted, Request, Ops
<1> HIDE DEF p, r, d, x, id, c, w, recall, read
<1>9. Place(p, r, x)' /\ Addressed(p, r, d, x)'
    BY <1>1, <1>2, Zenon DEF Alone, Place, Addressed
<1>10. Sending(p, r, d)'
    BY <1>1, <1>2, <1>4 DEF Alone, Sending
<1>11. Naming(p, r, x)'
    BY <1>1, <1>2, <1>4, <1>6, Zenon DEF Alone, Naming, HasWritten
<1>12. Upserted(r, x)'
    <2> SUFFICES ASSUME r.op = "send", NEW u \in DOMAIN x.rows
                 PROVE  /\ x.rows[u].last = r.id /\ ~ x.rows[u].hidden
                        /\ x.rows[u].unread = Base(r.conv, u)' + (IF u = r.user THEN 0 ELSE 1)
        BY <1>1, Zenon DEF Upserted
    <2>1. r.conv # c
        BY <1>2, <1>6, Zenon DEF Alone, Place, HasWritten
    <2>2. Base(r.conv, u)' = Base(r.conv, u)
        BY <1>1, <1>5, <2>1, Zenon DEF Base
    <2> QED
        BY <1>2, <2>2 DEF Alone, Upserted
<1>13. Counting(p, r, x)'
    <2> SUFFICES ASSUME HasCounted(p, r) PROVE Counting(p, r, x)'
        BY <1>1, Zenon DEF Counting
    <2>1. /\ \A u \in Users : u \in DOMAIN x.rows <=>
                <<r.conv, u>> \in DOMAIN conversations /\ (r.op = "recall" \/ u = r.user)
          /\ \A u \in DOMAIN x.rows :
                /\ x.rows[u].last = conversations[<<r.conv, u>>].last
                /\ x.rows[u].hidden <=> \/ conversations[<<r.conv, u>>].hidden
                                        \/ r.op = "recall" /\ x.rows[u].last = r.id
                /\ x.rows[u].unread = Cardinality(Seen(r, x, r.conv, u))
        BY <1>2, Zenon DEF Alone, Counting
    <2>2. ASSUME NEW u \in DOMAIN x.rows
          PROVE  r.conv # c \/ (~ recall /\ u # w)
        <3> SUFFICES ASSUME r.conv = c PROVE ~ recall /\ u # w
            BY Zenon
        <3>1. ~ recall /\ r.op # "recall"
            BY <1>6, Zenon DEF HasWritten, HasCounted
        <3>2. u = r.user /\ <<c, u>> \in DOMAIN conversations
            BY <1>2, <2>1, <3>1
        <3> QED
            BY <1>7, <3>1, <3>2
    <2>3. ASSUME NEW u \in DOMAIN x.rows
          PROVE  /\ conversations'[<<r.conv, u>>] = conversations[<<r.conv, u>>]
                 /\ Seen(r, x, r.conv, u)' = Seen(r, x, r.conv, u)
        <3>1. <<r.conv, u>> \in DOMAIN conversations
            BY <1>2, <2>1
        <3>2. conversations'[<<r.conv, u>>] = conversations[<<r.conv, u>>]
            BY <1>5, <2>2, <3>1
        <3>3. Seen(r, x, r.conv, u)' = Seen(r, x, r.conv, u)
            BY <1>1, <1>4, <2>2 DEF Seen
        <3> QED
            BY <3>2, <3>3, Zenon
    <2> QED
        BY <1>1, <1>5, <2>1, <2>3 DEF Counting
<1>14. Alone(p, r, d, x)'
    BY <1>9, <1>10, <1>11, <1>12, <1>13 DEF Alone
<1> QED
    BY <1>14, Zenon DEF AloneAt, p, r, d, x
=============================================================================
