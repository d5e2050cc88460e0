------------------------------ MODULE Mailbox ------------------------------
(***************************************************************************)
(* The offline messages of one user: the push service stores them, at      *)
(* least once, the client pulls them page by page and acknowledges what it *)
(* has, and the admin service deletes what was acknowledged long ago.      *)
(*                                                                         *)
(* PullOfflineMessages lists outside the transaction in which it marks, so *)
(* that a store, an acknowledgement or a cleanup may come in between.      *)
(***************************************************************************)
EXTENDS Integers, Sequences, FiniteSets, Functions

CONSTANTS
    Mails,          \* messages of the user
    Unreadable,     \* those whose stored payload does not parse
    PullLimit,      \* offline_pull_limit
    Repeated,       \* bound: those the push service stores a second time
    MaxLost         \* bound: failed transactions and lost responses

VARIABLES
    offline,        \* status of the user's rows of offline_messages
    arrival,        \* the rows in created_at order
    stores,         \* times each message was stored
    delivered,      \* rows of message_receipts
    has,            \* messages the client received
    owes,           \* those it has still to acknowledge
    settled,        \* messages acknowledged while they had a row
    pull,           \* a PullOfflineMessages under way: what it listed
    lost

mailVars == <<offline, arrival, stores, delivered, has, owes, settled, pull, lost>>

MaxStores(m) == IF m \in Repeated THEN 2 ELSE 1

NoPull == [on |-> FALSE, rows |-> {}]

MailboxInit ==
    /\ offline = [m \in Mails |-> "none"] /\ arrival = <<>> /\ stores = [m \in Mails |-> 0]
    /\ delivered = {} /\ has = {} /\ owes = {}
    /\ settled = {} /\ pull = NoPull /\ lost = 0

\* PushDispatcher::saveOffline: a new row, or a pending one again unless acknowledged
insertOfflineMessage(m) ==
    /\ stores[m] < MaxStores(m) /\ stores' = [stores EXCEPT ![m] = @ + 1]
    /\ offline' = [offline EXCEPT ![m] = IF @ = "acked" THEN @ ELSE "pending"]
    /\ arrival' = IF offline[m] = "none" THEN Append(arrival, m) ELSE arrival
    /\ UNCHANGED <<delivered, has, owes, settled, pull, lost>>

\* The client receives messages, new or again, and owes an acknowledgement
receive(ms) == has' = has \cup ms /\ owes' = owes \cup ms

\* The push service reaches a connection of the user
deliverOnline(m) ==
    /\ m \notin has \cup Unreadable /\ receive({m})
    /\ UNCHANGED <<offline, arrival, stores, delivered, settled, pull, lost>>

\* The rows with one of these statuses, in the order they arrived, up to the limit
page(status) ==
    LET listed == {i \in DOMAIN arrival : offline[arrival[i]] \in status}
    IN  {arrival[i] : i \in {i \in listed : Cardinality({j \in listed : j < i}) < PullLimit}}

\* Mutation: a row pulled before is not offered again
listOfflineMessagesOnce == page({"pending"})

listOfflineMessages == page({"pending", "pulled"})

\* PullOfflineMessages up to its transaction; a listing that fails is an empty one
beginPull ==
    /\ ~ pull.on
    /\ \/ pull' = [on |-> TRUE, rows |-> listOfflineMessages] /\ UNCHANGED lost
       \/ lost < MaxLost /\ lost' = lost + 1 /\ pull' = [on |-> TRUE, rows |-> {}]
    /\ UNCHANGED <<offline, arrival, stores, delivered, has, owes, settled>>

\* Mutation: the rows are marked whatever became of them since
markBatchAsPulledBlindly(ms) ==
    offline' = [m \in Mails |-> IF m \in ms /\ offline[m] # "none" THEN "pulled" ELSE offline[m]]

markBatchAsPulled(ms) ==
    offline' = [m \in Mails |-> IF m \in ms /\ offline[m] \in {"pending", "pulled"} THEN "pulled"
                                ELSE offline[m]]

\* Its transaction: what parses is marked and sent; the response may be lost, and a
\* failed transaction leaves the response empty
endPull ==
    LET parsed == pull.rows \ Unreadable IN
    /\ pull.on /\ pull' = NoPull
    /\ \/ markBatchAsPulled(parsed) /\ receive(parsed) /\ UNCHANGED lost
       \/ /\ lost < MaxLost /\ lost' = lost + 1 /\ UNCHANGED <<has, owes>>
          /\ markBatchAsPulled(parsed) \/ UNCHANGED offline
    /\ UNCHANGED <<arrival, stores, delivered, settled>>

markAsAcked(m) == offline' = [offline EXCEPT ![m] = IF @ = "none" THEN @ ELSE "acked"]

AckOk(m) ==
    /\ owes' = owes \ {m} /\ delivered' = delivered \cup {m} /\ UNCHANGED lost
    /\ settled' = IF offline[m] = "none" THEN settled ELSE settled \cup {m}

AckFails == lost < MaxLost /\ lost' = lost + 1 /\ UNCHANGED <<owes, delivered, settled>>

\* AckMessage: the receipt and the row in one transaction, which may fail
AckMessage(m) ==
    /\ m \in owes
    /\ \/ markAsAcked(m) /\ AckOk(m)
       \/ UNCHANGED offline /\ AckFails
    /\ UNCHANGED <<arrival, stores, has, pull>>

\* RunCleanup and deleteAckedMessages: acknowledged rows go, after a retention (a week)
\* in which the push service has stored all copies it will store
deleteAckedMessages(m) ==
    /\ offline[m] = "acked" /\ stores[m] = MaxStores(m)
    /\ offline' = [offline EXCEPT ![m] = "none"]
    /\ arrival' = SelectSeq(arrival, LAMBDA x : x # m)
    /\ UNCHANGED <<stores, delivered, has, owes, settled, pull, lost>>

MailboxNext ==
    \/ beginPull \/ endPull
    \/ \E m \in Mails :
          \/ insertOfflineMessage(m) \/ deliverOnline(m)
          \/ AckMessage(m) \/ deleteAckedMessages(m)

\* The client pulls again and again and acknowledges what it received
PullStep == beginPull \/ endPull
AckStep == \E m \in Mails : AckMessage(m)

MailboxSpec == MailboxInit /\ [][MailboxNext]_mailVars

-----------------------------------------------------------------------------
\* A message that was stored and that the client does not have can still be pulled,
\* whatever was marked, acknowledged, stored again or cleaned up in between
\* (insertOfflineMessage, markBatchAsPulled, markAsAcked)
StoredIsPullable ==
    \A m \in Mails : stores[m] > 0 /\ m \notin has =>
        offline[m] \in {"pending", "pulled"} /\ m \in Range(arrival)

\* A row is acknowledged only together with its delivery receipt, which the sender's
\* read state is made of, also when AckMessage's transaction fails midway
AckIsWhole == \A m \in Mails : offline[m] = "acked" \/ m \in settled => m \in delivered

\* A message acknowledged while it has a row is not offered again by a later pull,
\* even when the acknowledgement came between the listing and the marking of an
\* earlier pull, or the message was stored once more (the status guards of
\* markBatchAsPulled and insertOfflineMessage); and its receipt is there.
AckedIsNotOffered ==
    []AckIsWhole /\ [][~ pull.on /\ pull'.on => settled \cap pull'.rows = {}]_mailVars

\* A client that keeps pulling and acknowledging has every stored message in the end,
\* though a page is smaller than the mailbox, responses are lost, and some rows,
\* fewer than a page, cannot be parsed and stay at its head for ever.  None is lost
\* before (PullOfflineMessages, AckMessage, the admin service's cleanup).
MailboxDrains == []StoredIsPullable /\ \A m \in Mails \ Unreadable : []<>(stores[m] > 0 => m \in has)
=============================================================================
