------------------------------ MODULE History ------------------------------
(***************************************************************************)
(* ListConversationMessages: a client reads a conversation backwards, page *)
(* by page, with the cursor of each response, while messages are committed.*)
(* A message is its (created_at, message_id); created_at values repeat and *)
(* messages commit in any order.                                           *)
(***************************************************************************)
EXTENDS Integers, Sequences, FiniteSets, SequencesExt

CONSTANTS
    Times,          \* created_at values
    HistoryIds,     \* message ids, positive integers
    PageSize        \* page_size of the requests

VARIABLES
    log,            \* rows of messages of the conversation
    reader,         \* "new", "reading" or "done"
    cursor,         \* before_time and before_message_id of the next request
    seen,           \* what the client has, newest first
    present,        \* the rows there were when the client began
    blind           \* a query failed, which is answered like an empty page

historyVars == <<log, reader, cursor, seen, present, blind>>

NoCursor == <<0, 0>>

HistoryInit ==
    /\ log = {} /\ reader = "new" /\ cursor = NoCursor /\ seen = <<>>
    /\ present = {} /\ blind = FALSE

Older(a, b) == a[1] < b[1] \/ (a[1] = b[1] /\ a[2] < b[2])

commitMessage(t, id) ==
    /\ \A m \in log : m[2] # id
    /\ log' = log \cup {<<t, id>>}
    /\ UNCHANGED <<reader, cursor, seen, present, blind>>

\* Mutation: the cursor compares times only
beforeByTime(c) == {m \in log : c = NoCursor \/ m[1] < c[1]}

\* The cursor clause of listConversationMessages
before(c) == {m \in log : c = NoCursor \/ Older(m, c)}

\* ORDER BY created_at DESC, message_id DESC
newestFirst(rows) == Reverse(SetToSortSeq(rows, Older))

\* ListConversationMessages: one row more than asked for tells whether there are more
listPage ==
    LET rows == newestFirst(before(cursor))
        more == Len(rows) > PageSize
        page == IF more THEN SubSeq(rows, 1, PageSize) ELSE rows
    IN  /\ reader \in {"new", "reading"}
        /\ reader' = IF more THEN "reading" ELSE "done"
        /\ cursor' = IF page = <<>> THEN cursor ELSE Last(page)
        /\ seen' = seen \o page
        /\ present' = IF reader = "new" THEN log ELSE present
        /\ UNCHANGED <<log, blind>>

\* No connection, or the query fails: an empty page with code OK
listFails ==
    /\ reader \in {"new", "reading"} /\ reader' = "done" /\ blind' = TRUE
    /\ UNCHANGED <<log, cursor, seen, present>>

HistoryNext ==
    \/ \E t \in Times, id \in HistoryIds : commitMessage(t, id)
    \/ listPage \/ listFails

HistorySpec == HistoryInit /\ [][HistoryNext]_historyVars

-----------------------------------------------------------------------------
\* The pages a client reads hold every message that was there when it began, none
\* twice and in order, though messages with the same created_at fall on two pages
\* and others are committed on either side of the cursor meanwhile
\* (ListConversationMessages, listConversationMessages).
HistoryIsComplete ==
    /\ \A i \in 1 .. Len(seen) - 1 : Older(seen[i + 1], seen[i])
    /\ reader = "done" /\ ~ blind => present \subseteq Range(seen)
=============================================================================
