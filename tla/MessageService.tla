--------------------------- MODULE MessageService ---------------------------
(***************************************************************************)
(* The message service's writes: SendSingleMessage, SendGroupMessage,      *)
(* MarkMessageRead, MarkConversationRead and RecallMessage, run by the     *)
(* RPC threads of one or more processes over MySQL (MessageDao,            *)
(* ConversationDao, MessageReceiptDao, OutboxDao) and the Redis            *)
(* deduplication keys, next to the conversation service's delete and the   *)
(* relation service's membership changes.                                  *)
(*                                                                         *)
(* A handler first reads, outside any transaction, and then runs a         *)
(* transaction statement by statement.  What a transaction writes stays in *)
(* tx[t] until it commits; the rows it wrote are locked for the others.    *)
(* A recalculation reads the messages of its conversation under shared     *)
(* locks.  InnoDB's locks on receipts only remove interleavings and are    *)
(* left out.  A request that a handler refuses (argument, permission or    *)
(* recall-window checks) changes nothing and is not a step.                *)
(*                                                                         *)
(* A single conversation is the set of its two users, as                   *)
(* ConversationId::single sorts them.  A message id stands for its place   *)
(* in the (created_at, message_id) order of the conversation.              *)
(***************************************************************************)
EXTENDS Integers, Sequences, FiniteSets, Functions

CONSTANTS
    Threads,        \* the RPC threads
    Users,          \* user ids
    Group,          \* the group conversation
    Owner,          \* the owner of the group, whom LeaveGroup refuses
    Convs,          \* the conversations of this instance: pairs of users, Group
    Seqs,           \* client_sequence_id values; 0 asks for no deduplication
    MaxCalls,       \* bound: requests handled
    MaxFaults       \* bound: failed statements, failed queries and crashes

ASSUME MessageServiceAssumption ==
    /\ Users \subseteq Nat /\ IsFiniteSet(Users)
    /\ Owner \in Users
    /\ Convs \subseteq {c \in SUBSET Users : Cardinality(c) = 2} \cup {Group}
    /\ Seqs \subseteq Nat
    /\ MaxCalls \in Nat
    /\ MaxFaults \in Nat

VARIABLES
    messages,       \* table messages: from, seq, conv and recalled by message id
    conversations,  \* table conversations, by <<conversation, owner>>
    receipts,       \* table message_receipts: <<message, user>> with read_at set
    outbox,         \* table outbox_events in insertion order
    dedup,          \* Redis nebula:msg:dedup:<user>:<seq>
    members,        \* table group_members
    replies,        \* the OK replies to sends that may be retried, with the id they carry
    pc,             \* the statement each thread is about to execute
    req,            \* the request each thread handles
    todo,           \* the owners whose conversation row is still to be upserted
    tx,             \* what the thread's open transaction has written
    calls, faults

tables == <<messages, conversations, receipts, outbox>>
vars == <<tables, dedup, members, replies, pc, req, todo, tx, calls, faults>>

NoId == 0
Ids == 1 .. MaxCalls
EmptyTx == [rows |-> << >>, read |-> {}]
Put(table, key, row) ==
    [k \in DOMAIN table \cup {key} |-> IF k = key THEN row ELSE table[k]]
NoReq == [op |-> "none", user |-> Owner, conv |-> Group, seq |-> 0, id |-> NoId]

----------------------------------------------------------------------------
(* The tables as a handler reads them                                      *)

\* MessageDao::getMessageByClientSequence
getMessageByClientSequence(u, q) ==
    LET found == {m \in DOMAIN messages : messages[m].from = u /\ messages[m].seq = q}
    IN  IF q = 0 \/ found = {} THEN NoId ELSE CHOOSE m \in found : TRUE

\* The id Redis has for the request, when the row it names is of this request
Confirmed(cached, u, q) ==
    /\ cached \in DOMAIN messages
    /\ messages[cached].from = u
    /\ messages[cached].seq = q

\* ConversationDao::isOwner
isOwner(u, c) ==
    <<c, u>> \in DOMAIN conversations /\ ~ conversations[<<c, u>>].deleted

\* MessageServiceImpl::canReceiveMessage
canReceiveMessage(u, m) ==
    /\ messages[m].from # u
    /\ IF messages[m].conv = Group THEN isOwner(u, Group) ELSE u \in messages[m].conv

\* The messages the recalculation counts for user u, as transaction t sees them
UnreadSeenBy(t, c, u) ==
    {m \in DOMAIN messages :
        /\ messages[m].conv = c
        /\ messages[m].from # u
        /\ ~ messages[m].recalled
        /\ ~ (req[t].op = "recall" /\ m = req[t].id)
        /\ <<m, u>> \notin receipts
        /\ ~ (u = req[t].user /\ m \in tx[t].read)}

----------------------------------------------------------------------------
(* Locks: a transaction holds the unique key and the rows it has written   *)

InTx(t) == pc[t] \in {"insert", "upsert", "recall", "receipts", "recount", "commit"}

\* The owners whose rows an UPDATE of the recalculation touches
Recounted(t) == IF req[t].op = "recall" THEN Users ELSE {req[t].user}

\* v has inserted or recalled a message and not committed it yet
Wrote(v) ==
    \/ req[v].op = "send" /\ pc[v] \in {"upsert", "commit"}
    \/ req[v].op = "recall" /\ pc[v] \in {"recount", "commit"}

\* v has counted the messages of its conversation, under shared locks
Counted(v) == req[v].op # "send" /\ pc[v] = "commit"

\* Mutation: the statements run outside the transaction and lock nothing
NothingBlocks(v, t) == FALSE

\* Transaction t cannot execute its next statement before v has ended
Blocks(v, t) ==
    /\ v # t
    /\ \/ /\ pc[t] = "insert" /\ Wrote(v)
          /\ req[t].seq # 0 /\ req[v].seq = req[t].seq /\ req[v].user = req[t].user
       \/ /\ pc[t] = "recall" /\ Wrote(v)
          /\ req[v].id = req[t].id
       \/ /\ pc[t] \in {"insert", "recall"} /\ Counted(v)
          /\ req[v].conv = req[t].conv
       \/ /\ pc[t] = "upsert"
          /\ req[v].conv = req[t].conv
          /\ Head(todo[t]) \in DOMAIN tx[v].rows
       \/ /\ pc[t] = "recount"
          /\ req[v].conv = req[t].conv
          /\ Wrote(v) \/ Recounted(t) \cap DOMAIN tx[v].rows # {}

CanExecute(t) == \A v \in Threads : ~ Blocks(v, t)

\* Mutation: a deadlock is not resolved
NeverDeadlocked(t) == FALSE

\* InnoDB's deadlock detection: t is one of a set of transactions that all
\* wait for another one of the set
Deadlocked(t) ==
    \E S \in SUBSET Threads : t \in S /\ \A u \in S : \E v \in S : Blocks(v, u)

----------------------------------------------------------------------------
(* Ends of a request                                                       *)

Fault ==
    /\ faults < MaxFaults
    /\ faults' = faults + 1

\* The thread returns its response; the transaction's destructor has run
Return(t) ==
    /\ pc' = [pc EXCEPT ![t] = "idle"]
    /\ req' = [req EXCEPT ![t] = NoReq]
    /\ todo' = [todo EXCEPT ![t] = << >>]
    /\ tx' = [tx EXCEPT ![t] = EmptyTx]

\* A reply is remembered when the request asks for deduplication
ReplyOk(r, id) ==
    replies' = replies \cup (IF r.seq = 0 THEN {} ELSE {[from |-> r.user, seq |-> r.seq, id |-> id]})

Accept(t, r, next) ==
    /\ pc[t] = "idle"
    /\ calls < MaxCalls
    /\ calls' = calls + 1
    /\ pc' = [pc EXCEPT ![t] = next]
    /\ req' = [req EXCEPT ![t] = r]

----------------------------------------------------------------------------
(* Send                                                                    *)

\* The rows upserted by a send, in order: SendSingleMessage's two users, sender
\* first; the members that SendGroupMessage listed, by user id
Audience(u, c, listed) ==
    IF c = Group
    THEN {s \in [1 .. Cardinality(listed) -> listed] : \A i, j \in DOMAIN s : i < j => s[i] < s[j]}
    ELSE {<<u, v>> : v \in c \ {u}}

\* SendSingleMessage, SendGroupMessage up to the transaction: a repeated
\* request is answered with the id of the message it stored, any other gets
\* a fresh id.  Redis may have lost the key or not answer.  A failed MySQL
\* query reads as no row; listMembers then yields no member.
SendMessage(t, u, c, q) ==
    /\ u \in IF c = Group THEN members ELSE c
    /\ \E cached \in {dedup[<<u, q>>], NoId}, healthy \in BOOLEAN,
          listed \in IF c = Group THEN {members, {}} ELSE {members} :
        LET existing == IF q # 0 /\ Confirmed(cached, u, q) THEN cached
                        ELSE IF healthy THEN getMessageByClientSequence(u, q)
                        ELSE NoId
            r == [op |-> "send", user |-> u, conv |-> c, seq |-> q, id |-> calls + 1]
        IN  /\ IF healthy /\ listed = members THEN UNCHANGED faults ELSE Fault
            /\ \/ /\ existing # NoId
                  /\ pc[t] = "idle" /\ calls < MaxCalls
                  /\ calls' = calls + 1
                  /\ ReplyOk(r, existing)
                  /\ UNCHANGED <<pc, req, todo>>
               \/ /\ existing = NoId
                  /\ Accept(t, r, "insert")
                  /\ \E owners \in Audience(u, c, listed) : todo' = [todo EXCEPT ![t] = owners]
                  /\ UNCHANGED replies
    /\ UNCHANGED <<tables, dedup, members, tx>>

\* Mutation: no unique key over sender and client sequence
insertMessageUnkeyed(t) ==
    /\ pc[t] = "insert" /\ CanExecute(t)
    /\ pc' = [pc EXCEPT ![t] = IF todo[t] = << >> THEN "commit" ELSE "upsert"]
    /\ UNCHANGED <<tables, dedup, members, replies, req, todo, tx, calls, faults>>

\* INSERT INTO messages; uk_message_sender_sequence rejects a second row
insertMessage(t) ==
    /\ pc[t] = "insert" /\ CanExecute(t)
    /\ LET next == IF getMessageByClientSequence(req[t].user, req[t].seq) # NoId
                   THEN "replay"
                   ELSE IF todo[t] = << >> THEN "commit" ELSE "upsert"
       IN  pc' = [pc EXCEPT ![t] = next]
    /\ UNCHANGED <<tables, dedup, members, replies, req, todo, tx, calls, faults>>

\* After a failed insert the transaction is rolled back and the winner's row
\* is looked up on another connection
replayAfterConflict(t) ==
    /\ pc[t] = "replay"
    /\ \/ LET existing == getMessageByClientSequence(req[t].user, req[t].seq)
          IN  /\ IF existing # NoId THEN ReplyOk(req[t], existing) ELSE UNCHANGED replies
              /\ UNCHANGED faults
       \/ Fault /\ UNCHANGED replies
    /\ Return(t)
    /\ UNCHANGED <<tables, dedup, members, calls>>

\* ConversationDao::upsertOne for the next owner
upsertOne(t) ==
    /\ pc[t] = "upsert" /\ CanExecute(t)
    /\ LET u == Head(todo[t])
           key == <<req[t].conv, u>>
           inc == IF u = req[t].user THEN 0 ELSE 1
           old == IF key \in DOMAIN conversations THEN conversations[key].unread ELSE 0
           row == [unread |-> old + inc, last |-> req[t].id,
                   hidden |-> FALSE, deleted |-> FALSE]
       IN  tx' = [tx EXCEPT ![t].rows = Put(@, u, row)]
    /\ todo' = [todo EXCEPT ![t] = Tail(@)]
    /\ pc' = [pc EXCEPT ![t] = IF Len(todo[t]) = 1 THEN "commit" ELSE "upsert"]
    /\ UNCHANGED <<tables, dedup, members, replies, req, calls, faults>>

\* MessageDeduplicator::markMessage, whose failure is only logged, and the reply
markMessage(t) ==
    /\ pc[t] = "mark"
    /\ ReplyOk(req[t], req[t].id)
    /\ \/ dedup' = [dedup EXCEPT ![<<req[t].user, req[t].seq>>] =
                        IF req[t].seq = 0 THEN NoId ELSE req[t].id]
       \/ UNCHANGED dedup
    /\ Return(t)
    /\ UNCHANGED <<tables, members, calls, faults>>

\* The key's TTL ends, or Redis evicts it
expireDedup(u, q) ==
    /\ dedup[<<u, q>>] # NoId
    /\ dedup' = [dedup EXCEPT ![<<u, q>>] = NoId]
    /\ UNCHANGED <<tables, members, replies, pc, req, todo, tx, calls, faults>>

----------------------------------------------------------------------------
(* Recall and read markers                                                 *)

\* RecallMessage up to the transaction
RecallMessage(t, u, m) ==
    /\ m \in DOMAIN messages
    /\ messages[m].from = u
    /\ ~ messages[m].recalled
    /\ Accept(t, [op |-> "recall", user |-> u, conv |-> messages[m].conv,
                  seq |-> 0, id |-> m], "recall")
    /\ UNCHANGED <<tables, dedup, members, replies, todo, tx, faults>>

\* Mutation: the UPDATE does not look at the recall status
recallRowUnconditional(t) ==
    /\ pc[t] = "recall" /\ CanExecute(t)
    /\ pc' = [pc EXCEPT ![t] = "recount"]
    /\ UNCHANGED <<tables, dedup, members, replies, req, todo, tx, calls, faults>>

\* MessageDao::recallMessage: no row is affected when it is recalled already
recallRow(t) ==
    /\ pc[t] = "recall" /\ CanExecute(t)
    /\ \/ /\ ~ messages[req[t].id].recalled
          /\ pc' = [pc EXCEPT ![t] = "recount"]
          /\ UNCHANGED <<req, todo, tx>>
       \/ messages[req[t].id].recalled /\ Return(t)
    /\ UNCHANGED <<tables, dedup, members, replies, calls, faults>>

\* MarkMessageRead up to the transaction
MarkMessageRead(t, u, m) ==
    /\ m \in DOMAIN messages
    /\ canReceiveMessage(u, m)
    /\ Accept(t, [op |-> "readMessage", user |-> u, conv |-> messages[m].conv,
                  seq |-> 0, id |-> m], "receipts")
    /\ UNCHANGED <<tables, dedup, members, replies, todo, tx, faults>>

\* MarkConversationRead up to the transaction; m is the cursor
MarkConversationRead(t, u, m) ==
    /\ m \in DOMAIN messages
    /\ isOwner(u, messages[m].conv)
    /\ Accept(t, [op |-> "readConversation", user |-> u, conv |-> messages[m].conv,
                  seq |-> 0, id |-> m], "receipts")
    /\ UNCHANGED <<tables, dedup, members, replies, todo, tx, faults>>

\* MessageReceiptDao::markRead, markConversationRead
markRead(t) ==
    /\ pc[t] = "receipts"
    /\ tx' = [tx EXCEPT ![t].read =
                IF req[t].op = "readMessage" THEN {req[t].id}
                ELSE {m \in DOMAIN messages : /\ messages[m].conv = req[t].conv
                                              /\ m <= req[t].id
                                              /\ messages[m].from # req[t].user
                                              /\ ~ messages[m].recalled}]
    /\ pc' = [pc EXCEPT ![t] = "recount"]
    /\ UNCHANGED <<tables, dedup, members, replies, req, todo, calls, faults>>

\* Mutation: markLastMessageRecalled is missing
recalculateKeepsPreview(t) ==
    /\ pc[t] = "recount" /\ CanExecute(t)
    /\ LET c == req[t].conv
           owners == {u \in Recounted(t) : <<c, u>> \in DOMAIN conversations}
       IN  tx' = [tx EXCEPT ![t].rows =
                    [u \in owners |-> [conversations[<<c, u>>] EXCEPT
                                          !.unread = Cardinality(UnreadSeenBy(t, c, u))]]]
    /\ pc' = [pc EXCEPT ![t] = "commit"]
    /\ UNCHANGED <<tables, dedup, members, replies, req, todo, calls, faults>>

\* recalculateUnread of the reader's row, or recalculateUnreadForConversation
\* of every row followed by markLastMessageRecalled
recalculateUnread(t) ==
    /\ pc[t] = "recount" /\ CanExecute(t)
    /\ LET c == req[t].conv
           owners == {u \in Recounted(t) : <<c, u>> \in DOMAIN conversations}
           recount(u) ==
               LET row == conversations[<<c, u>>] IN
               [row EXCEPT
                   !.unread = Cardinality(UnreadSeenBy(t, c, u)),
                   !.hidden = @ \/ (req[t].op = "recall" /\ row.last = req[t].id)]
       IN  tx' = [tx EXCEPT ![t].rows = [u \in owners |-> recount(u)]]
    /\ pc' = [pc EXCEPT ![t] = "commit"]
    /\ UNCHANGED <<tables, dedup, members, replies, req, todo, calls, faults>>

----------------------------------------------------------------------------
(* Ends of a transaction                                                   *)

\* The writes of t become visible.  The outbox row is inserted on the way: its
\* insert conflicts with nothing.
Apply(t) ==
    LET r == req[t]
        rows == tx[t].rows
        new == [from |-> r.user, seq |-> r.seq, conv |-> r.conv, recalled |-> FALSE]
    IN  /\ messages' = CASE r.op = "send"   -> Put(messages, r.id, new)
                         [] r.op = "recall" -> [messages EXCEPT ![r.id].recalled = TRUE]
                         [] OTHER           -> messages
        /\ outbox' = IF r.op \in {"send", "recall"}
                     THEN Append(outbox, [kind |-> r.op, id |-> r.id]) ELSE outbox
        /\ conversations' =
              [k \in {<<r.conv, u>> : u \in DOMAIN rows} \cup DOMAIN conversations |->
                  IF k[1] = r.conv /\ k[2] \in DOMAIN rows THEN rows[k[2]] ELSE conversations[k]]
        /\ receipts' = receipts \cup {<<m, r.user>> : m \in tx[t].read}

commit(t) ==
    /\ pc[t] = "commit"
    /\ Apply(t)
    /\ \/ /\ req[t].op = "send"
          /\ pc' = [pc EXCEPT ![t] = "mark"]
          /\ tx' = [tx EXCEPT ![t] = EmptyTx]
          /\ UNCHANGED <<req, todo>>
       \/ req[t].op # "send" /\ Return(t)
    /\ UNCHANGED <<dedup, members, replies, calls, faults>>

\* COMMIT fails for the caller: the connection is lost before or after the
\* server has committed, and the reply is an error either way
commitFails(t) ==
    /\ pc[t] = "commit" /\ Fault
    /\ Apply(t) \/ UNCHANGED tables
    /\ Return(t)
    /\ UNCHANGED <<dedup, members, replies, calls>>

\* A statement fails, or the transaction is chosen as a deadlock victim.  The
\* early return rolls back; a failed insert looks for the winner first.
statementFails(t) ==
    /\ InTx(t)
    /\ \/ Deadlocked(t) /\ UNCHANGED faults
       \/ Fault
    /\ \/ /\ pc[t] = "insert"
          /\ pc' = [pc EXCEPT ![t] = "replay"]
          /\ UNCHANGED <<req, todo, tx>>
       \/ pc[t] # "insert" /\ Return(t)
    /\ UNCHANGED <<tables, dedup, members, replies, calls>>

\* The process dies; MySQL rolls the open transactions back
crash ==
    /\ Fault
    /\ \E t \in Threads : pc[t] # "idle"
    /\ pc' = [t \in Threads |-> "idle"]
    /\ req' = [t \in Threads |-> NoReq]
    /\ todo' = [t \in Threads |-> << >>]
    /\ tx' = [t \in Threads |-> EmptyTx]
    /\ UNCHANGED <<tables, dedup, members, replies, calls>>

----------------------------------------------------------------------------
(* The other services on the same tables                                   *)

\* ConversationServiceImpl::DeleteConversation: one UPDATE, soft delete
DeleteConversation(u, c) ==
    /\ isOwner(u, c)
    /\ \A t \in Threads : ~ (req[t].conv = c /\ u \in DOMAIN tx[t].rows)
    /\ conversations' = [conversations EXCEPT ![<<c, u>>].deleted = TRUE]
    /\ UNCHANGED <<messages, receipts, outbox, dedup, members, replies, pc, req,
                   todo, tx, calls, faults>>

\* RelationServiceImpl::JoinGroup, LeaveGroup
JoinGroup(u) ==
    /\ Group \in Convs /\ u \notin members
    /\ members' = members \cup {u}
    /\ UNCHANGED <<tables, dedup, replies, pc, req, todo, tx, calls, faults>>

LeaveGroup(u) ==
    /\ Group \in Convs /\ u \in members \ {Owner}
    /\ members' = members \ {u}
    /\ UNCHANGED <<tables, dedup, replies, pc, req, todo, tx, calls, faults>>

----------------------------------------------------------------------------
Init ==
    /\ messages = << >>
    /\ conversations = << >>
    /\ receipts = {}
    /\ outbox = << >>
    /\ dedup = [k \in Users \X Seqs |-> NoId]
    /\ members = {Owner}
    /\ replies = {}
    /\ pc = [t \in Threads |-> "idle"]
    /\ req = [t \in Threads |-> NoReq]
    /\ todo = [t \in Threads |-> << >>]
    /\ tx = [t \in Threads |-> EmptyTx]
    /\ calls = 0
    /\ faults = 0

\* What the service does on its own for a request it has taken
step(t) ==
    \/ insertMessage(t) \/ replayAfterConflict(t) \/ upsertOne(t) \/ markMessage(t)
    \/ recallRow(t) \/ markRead(t) \/ recalculateUnread(t) \/ commit(t)
    \/ Deadlocked(t) /\ statementFails(t)

Next ==
    \/ \E t \in Threads, u \in Users :
        \/ \E c \in Convs, q \in Seqs : SendMessage(t, u, c, q)
        \/ \E m \in Ids : \/ RecallMessage(t, u, m)
                          \/ MarkMessageRead(t, u, m)
                          \/ MarkConversationRead(t, u, m)
    \/ \E t \in Threads :
        \/ insertMessage(t) \/ replayAfterConflict(t) \/ upsertOne(t) \/ markMessage(t)
        \/ recallRow(t) \/ markRead(t) \/ recalculateUnread(t)
        \/ commit(t) \/ commitFails(t) \/ statementFails(t)
    \/ crash
    \/ \E u \in Users : \/ \E q \in Seqs : expireDedup(u, q)
                        \/ \E c \in Convs : DeleteConversation(u, c)
                        \/ JoinGroup(u)
                        \/ LeaveGroup(u)

Spec == Init /\ [][Next]_vars

\* Threads are scheduled and MySQL resolves deadlocks
FairSpec == Spec /\ \A t \in Threads : WF_vars(step(t))

----------------------------------------------------------------------------
(* Properties                                                              *)

\* Retries of a send, however they race with each other, with lost Redis keys,
\* failed queries, unknown commits and crashes, are all told the id of one and
\* the same stored message: the lookup, the unique key and the lookup after a
\* conflict agree.
SendIsIdempotent ==
    \A r \in replies :
        /\ r.id \in DOMAIN messages
        /\ messages[r.id].from = r.from /\ messages[r.id].seq = r.seq
        /\ \A s \in replies : s.from = r.from /\ s.seq = r.seq => s.id = r.id

\* The outbox holds exactly one event for each stored message and one more for
\* each recalled message, after the first: concurrent recalls of one message
\* announce it once, and nothing is announced that was rolled back.
OutboxMatchesMessages ==
    LET Event(kind, m) == [kind |-> kind, id |-> m] IN
    /\ IsInjective(outbox)
    /\ Range(outbox) = {Event("send", m) : m \in DOMAIN messages} \cup
         {Event("recall", m) : m \in {n \in DOMAIN messages : messages[n].recalled}}
    /\ \A i, j \in DOMAIN outbox :
         outbox[i].id = outbox[j].id /\ outbox[i].kind = "send" => i <= j

Unread(c, u) ==
    {m \in DOMAIN messages : /\ messages[m].conv = c
                             /\ messages[m].from # u
                             /\ ~ messages[m].recalled
                             /\ <<m, u>> \notin receipts}

\* The increments of sends and the recalculations of reads and recalls keep the
\* unread count of a single conversation equal to the number of its unread
\* messages.  In a group, whose rows appear as users join and whose member list
\* is read before the transaction, the count is never more than that.
UnreadIsExact ==
    \A k \in DOMAIN conversations :
        LET n == Cardinality(Unread(k[1], k[2])) IN
        /\ conversations[k].unread <= n
        /\ k[1] # Group => conversations[k].unread = n

\* A conversation row shows the recall marker exactly when its last message is
\* recalled, whichever of a send and a recall in flight commits first.
RecalledPreviewIsHidden ==
    \A k \in DOMAIN conversations :
        conversations[k].hidden <=> messages[conversations[k].last].recalled

\* A send that was answered OK has updated the conversation of its sender, as
\* docs/message_service.md says of a successful send.
SentIsInConversation ==
    \A r \in replies : <<messages[r.id].conv, r.from>> \in DOMAIN conversations

\* A thread that has taken a request answers it: two transactions that lock the
\* same conversation rows in opposite orders do not wait for ever.
EveryRequestIsAnswered == \A t \in Threads : []<>(pc[t] = "idle")
=============================================================================
