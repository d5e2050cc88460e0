------------------------------- MODULE Social -------------------------------
(***************************************************************************)
(* Friend requests, friendship and one group (RelationServiceImpl and its  *)
(* DAOs), served by concurrent gRPC threads.                               *)
(*                                                                         *)
(* A step is one SQL statement.  A statement locks the row it writes until *)
(* its transaction ends; a transaction that waits for one that waits for   *)
(* it is rolled back by InnoDB.  What a transaction writes is seen when it *)
(* commits.  Any statement may fail; a lookup that fails finds nothing.    *)
(***************************************************************************)
EXTENDS Integers, Sequences, FiniteSets

CONSTANTS
    Clerks,         \* threads that serve requests
    Users,
    Owner,          \* the user that creates the group
    MaxCalls,       \* bound: requests
    MaxErrors       \* bound: failed statements

ASSUME SocialAssumption == Owner \in Users

VARIABLES
    friendships,    \* the rows of friendships with status 1
    friend_requests,\* the rows of friend_requests, in the order of their id
    members,        \* role in group_members, -1 without row
    group,          \* the group's row exists
    clerk,          \* the request a thread serves, where it is, and its locks
    answered,       \* times each friend request was answered OK
    blindLeave,     \* LeaveGroup's question who owns the group failed
    calls, errors

socialVars == <<friendships, friend_requests, members, group, clerk, answered, blindLeave,
                calls, errors>>
groupVars == <<members, group, blindLeave>>

NoCall == [op |-> "none", pc |-> "free", u |-> Owner, v |-> Owner, id |-> 0, held |-> {}]

SocialInit ==
    /\ friendships = {} /\ friend_requests = <<>>
    /\ members = [u \in Users |-> -1] /\ group = FALSE
    /\ clerk = [c \in Clerks |-> NoCall]
    /\ answered = <<>> /\ blindLeave = FALSE /\ calls = 0 /\ errors = 0

-----------------------------------------------------------------------------
\* A request comes in; the checks of its arguments and users come first
startCall(c, op, u, v, id) ==
    /\ clerk[c].op = "none" /\ calls < MaxCalls /\ calls' = calls + 1
    /\ clerk' = [clerk EXCEPT ![c] = [op |-> op, pc |-> op, u |-> u, v |-> v, id |-> id, held |-> {}]]
    /\ UNCHANGED <<friendships, friend_requests, groupVars, answered, errors>>

step(c, place) == clerk' = [clerk EXCEPT ![c].pc = place]
finish(c) == clerk' = [clerk EXCEPT ![c] = NoCall]
Works == UNCHANGED errors
Fails == errors < MaxErrors /\ errors' = errors + 1

\* Rows another transaction holds
LockedFor(c) == UNION {clerk[x].held : x \in Clerks \ {c}}

\* A row of friend_requests, which its id names as its two users do one of friendships
RequestRow(id) == <<id>>

\* An answer the caller gets as OK
AnswerOk(id) == answered' = [answered EXCEPT ![id] = @ + 1]

-----------------------------------------------------------------------------
(* SendFriendRequest                                                        *)

\* isFriend
checkFriend(c) ==
    /\ clerk[c].pc = "send"
    /\ \/ <<clerk[c].u, clerk[c].v>> \in friendships /\ finish(c) /\ Works
       \/ <<clerk[c].u, clerk[c].v>> \notin friendships /\ step(c, "insert") /\ Works
       \/ Fails /\ step(c, "insert")
    /\ UNCHANGED <<friendships, friend_requests, groupVars, answered, calls>>

Between(i, u, v) == {friend_requests[i].from, friend_requests[i].to} = {u, v}
PendingBetween(u, v) ==
    {i \in 1 .. Len(friend_requests) : friend_requests[i].status = "pending" /\ Between(i, u, v)}

\* createRequest; the unique index allows one pending request of a pair, and the
\* insert waits for a transaction that is about to end one
createRequest(c) ==
    LET u == clerk[c].u
        v == clerk[c].v
        item == [from |-> u, to |-> v, status |-> "pending"]
        insert == /\ PendingBetween(u, v) = {}
                  /\ friend_requests' = Append(friend_requests, item)
                  /\ answered' = Append(answered, 0)
    IN  /\ clerk[c].pc = "insert" /\ finish(c)
        /\ \A i \in PendingBetween(u, v) : RequestRow(i) \notin LockedFor(c)
        /\ \/ insert /\ Works
           \/ PendingBetween(u, v) # {} /\ UNCHANGED <<friend_requests, answered>> /\ Works
           \/ Fails /\ (insert \/ UNCHANGED <<friend_requests, answered>>)
        /\ UNCHANGED <<friendships, groupVars, calls>>

-----------------------------------------------------------------------------
(* AcceptFriendRequest and RejectFriendRequest                              *)

\* getByRequestId, and the SELECT acceptRequestWithFriendship starts with: neither
\* takes a lock
getByRequestId(c) ==
    LET next == CASE clerk[c].pc = "accept" -> "select"
                  [] clerk[c].pc = "select" -> "status"
                  [] clerk[c].pc = "reject" -> "status"
    IN  /\ clerk[c].pc \in {"accept", "select", "reject"}
        /\ \/ friend_requests[clerk[c].id].status = "pending" /\ step(c, next) /\ Works
           \/ friend_requests[clerk[c].id].status # "pending" /\ finish(c) /\ Works
           \/ Fails /\ finish(c)
        /\ UNCHANGED <<friendships, friend_requests, groupVars, answered, calls>>

\* updateStatus: only a pending row is changed, and a row counts as changed once.
\* Rejecting is this statement alone; accepting goes on in its transaction
updateStatus(c) ==
    LET id == clerk[c].id
        pending == friend_requests[id].status = "pending"
        rejected == [friend_requests EXCEPT ![id].status = "rejected"]
    IN  /\ clerk[c].pc = "status" /\ RequestRow(id) \notin LockedFor(c)
        /\ \/ /\ pending /\ clerk[c].op = "accept" /\ Works
              /\ clerk' = [clerk EXCEPT ![c].pc = "edge1", ![c].held = {RequestRow(id)}]
              /\ UNCHANGED <<friend_requests, answered>>
           \/ /\ pending /\ clerk[c].op = "reject" /\ Works
              /\ friend_requests' = rejected /\ AnswerOk(id) /\ finish(c)
           \/ /\ ~pending /\ finish(c) /\ Works
              /\ UNCHANGED <<friend_requests, answered>>
           \/ /\ Fails /\ finish(c) /\ UNCHANGED answered
              /\ \/ pending /\ clerk[c].op = "reject" /\ friend_requests' = rejected
                 \/ UNCHANGED friend_requests
        /\ UNCHANGED <<friendships, groupVars, calls>>

-----------------------------------------------------------------------------
(* DeleteFriend, and the two rows of a friendship                           *)

checkDelete(c) ==
    /\ clerk[c].pc = "delete"
    /\ \/ <<clerk[c].u, clerk[c].v>> \in friendships /\ step(c, "edge1") /\ Works
       \/ <<clerk[c].u, clerk[c].v>> \notin friendships /\ finish(c) /\ Works
       \/ Fails /\ finish(c)
    /\ UNCHANGED <<friendships, friend_requests, groupVars, answered, calls>>

\* The row the next statement of a transaction writes
NextEdge(c) ==
    IF clerk[c].pc = "edge1" THEN <<clerk[c].u, clerk[c].v>> ELSE <<clerk[c].v, clerk[c].u>>

\* Mutation: only the first of the two rows is written
writeEdgeOneWay(c) ==
    /\ clerk[c].pc = "edge1" /\ NextEdge(c) \notin LockedFor(c)
    /\ clerk' = [clerk EXCEPT ![c].pc = "commit", ![c].held = @ \cup {NextEdge(c)}]
    /\ Works /\ UNCHANGED <<friendships, friend_requests, groupVars, answered, calls>>

\* addFriend, or one UPDATE of deleteFriendBidirectional
writeEdge(c) ==
    /\ clerk[c].pc \in {"edge1", "edge2"}
    /\ \/ /\ NextEdge(c) \notin LockedFor(c) /\ Works
          /\ clerk' = [clerk EXCEPT ![c].pc = IF @ = "edge1" THEN "edge2" ELSE "commit",
                                    ![c].held = @ \cup {NextEdge(c)}]
       \/ Fails /\ finish(c)
    /\ UNCHANGED <<friendships, friend_requests, groupVars, answered, calls>>

\* What c waits for
Waits(c) ==
    CASE clerk[c].pc \in {"edge1", "edge2"} -> {NextEdge(c)}
      [] clerk[c].pc = "status" -> {RequestRow(clerk[c].id)}
      [] OTHER -> {}

\* InnoDB rolls back one transaction of a cycle
deadlockVictim(c) ==
    /\ \E x \in Clerks \ {c} : Waits(c) \cap clerk[x].held # {} /\ Waits(x) \cap clerk[c].held # {}
    /\ finish(c)
    /\ UNCHANGED <<friendships, friend_requests, groupVars, answered, calls, errors>>

\* tx.commit(): every row the transaction wrote becomes visible, or none; the
\* answer to a COMMIT can be lost
commitTx(c) ==
    LET id == clerk[c].id
        accepting == clerk[c].op = "accept"
        edges == clerk[c].held \ {RequestRow(id)}
        apply == /\ friendships' = IF accepting THEN friendships \cup edges ELSE friendships \ edges
                 /\ friend_requests' = IF accepting THEN [friend_requests EXCEPT ![id].status = "accepted"]
                                       ELSE friend_requests
    IN  /\ clerk[c].pc = "commit" /\ finish(c)
        /\ \/ /\ apply /\ Works
              /\ IF accepting THEN AnswerOk(id) ELSE UNCHANGED answered
           \/ /\ Fails /\ UNCHANGED answered
              /\ apply \/ UNCHANGED <<friendships, friend_requests>>
        /\ UNCHANGED <<groupVars, calls>>

-----------------------------------------------------------------------------
(* The group                                                                *)

\* createGroup: the group's row and the owner's membership in one transaction
createGroup(c) ==
    /\ clerk[c].pc = "create" /\ ~group /\ finish(c)
    /\ \/ /\ group' = TRUE /\ members' = [members EXCEPT ![Owner] = 1]
          /\ Works \/ Fails
       \/ Fails /\ UNCHANGED <<group, members>>
    /\ UNCHANGED <<friendships, friend_requests, answered, blindLeave, calls>>

\* getGroupById and isMember
checkMember(c) ==
    LET member == members[clerk[c].u] >= 0
    IN  /\ clerk[c].pc \in {"join", "leave"}
        /\ IF ~group THEN finish(c) /\ Works
           ELSE CASE clerk[c].pc = "join" ->
                       \/ member /\ finish(c) /\ Works
                       \/ ~member /\ step(c, "add") /\ Works
                       \/ Fails /\ step(c, "add")
                  [] clerk[c].pc = "leave" ->
                       \/ member /\ step(c, "owner") /\ Works
                       \/ ~member /\ finish(c) /\ Works
                       \/ Fails /\ finish(c)
        /\ UNCHANGED <<friendships, friend_requests, groupVars, answered, calls>>

\* addMember keeps the role of a row that is already there
addMember(c) ==
    /\ clerk[c].pc = "add" /\ finish(c)
    /\ \/ /\ members' = [members EXCEPT ![clerk[c].u] = IF @ = -1 THEN 0 ELSE @]
          /\ Works \/ Fails
       \/ Fails /\ UNCHANGED members
    /\ UNCHANGED <<friendships, friend_requests, group, answered, blindLeave, calls>>

\* isOwner: when the query fails, nobody owns the group
checkOwner(c) ==
    /\ clerk[c].pc = "owner"
    /\ \/ members[clerk[c].u] = 1 /\ finish(c) /\ Works /\ UNCHANGED blindLeave
       \/ members[clerk[c].u] # 1 /\ step(c, "remove") /\ Works /\ UNCHANGED blindLeave
       \/ Fails /\ step(c, "remove") /\ blindLeave' = TRUE
    /\ UNCHANGED <<friendships, friend_requests, members, group, answered, calls>>

removeMember(c) ==
    /\ clerk[c].pc = "remove" /\ finish(c)
    /\ \/ members' = [members EXCEPT ![clerk[c].u] = -1] /\ (Works \/ Fails)
       \/ Fails /\ UNCHANGED members
    /\ UNCHANGED <<friendships, friend_requests, group, answered, blindLeave, calls>>

-----------------------------------------------------------------------------
(* The RPCs                                                                 *)

SendFriendRequest(c, u, v) == startCall(c, "send", u, v, 0)
DeleteFriend(c, u, v) == startCall(c, "delete", u, v, 0)
AcceptFriendRequest(c, i) == startCall(c, "accept", friend_requests[i].from, friend_requests[i].to, i)
RejectFriendRequest(c, i) == startCall(c, "reject", friend_requests[i].from, friend_requests[i].to, i)
CreateGroup(c) ==
    /\ ~group /\ \A x \in Clerks : clerk[x].op # "create"
    /\ startCall(c, "create", Owner, Owner, 0)
JoinGroup(c, u) == startCall(c, "join", u, u, 0)
LeaveGroup(c, u) == startCall(c, "leave", u, u, 0)

SocialNext ==
    \E c \in Clerks :
        \/ \E u \in Users, v \in Users : u # v /\ (SendFriendRequest(c, u, v) \/ DeleteFriend(c, u, v))
        \/ \E i \in 1 .. Len(friend_requests) : AcceptFriendRequest(c, i) \/ RejectFriendRequest(c, i)
        \/ CreateGroup(c)
        \/ \E u \in Users : JoinGroup(c, u) \/ LeaveGroup(c, u)
        \/ checkFriend(c) \/ createRequest(c) \/ getByRequestId(c) \/ updateStatus(c)
        \/ checkDelete(c) \/ writeEdge(c) \/ deadlockVictim(c) \/ commitTx(c)
        \/ createGroup(c) \/ checkMember(c) \/ addMember(c) \/ checkOwner(c) \/ removeMember(c)

SocialSpec == SocialInit /\ [][SocialNext]_socialVars

-----------------------------------------------------------------------------
(* Properties                                                               *)

F == INSTANCE Friends WITH friends <- friendships, asked <- friend_requests

\* The statements, transactions, lost commits and rollbacks of SendFriendRequest,
\* AcceptFriendRequest, RejectFriendRequest and DeleteFriend implement Friends: a
\* request is answered once, accepting it makes both users friends in the same
\* step, and no reader ever sees a friendship in one direction only
FriendsRefined == F!FriendsSpec

\* Of all callers that accept or reject a request at the same time at most one is
\* answered OK, and that answer is final: the first read of the status takes no
\* lock, the conditional update decides (updateStatus)
AnsweredOnce ==
    \A i \in 1 .. Len(answered) :
        answered[i] <= 1 /\ (answered[i] = 1 => friend_requests[i].status # "pending")

\* The owner stays a member: LeaveGroup refuses the owner, and a join that runs
\* because the membership lookup failed does not take the role away.  A leave whose
\* ownership lookup itself failed is excluded: checkOwner lets it through
OwnerStays == group /\ ~blindLeave => members[Owner] = 1

\* Concurrent calls of RelationServiceImpl leave friendships and groups as its
\* promises say: the service implements Friends, tells one caller only that it
\* answered a request, and a group keeps its owner.
RelationsAreKept == FriendsRefined /\ [](AnsweredOnce /\ OwnerStays)
=============================================================================
