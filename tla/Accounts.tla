------------------------------ MODULE Accounts ------------------------------
(***************************************************************************)
(* Accounts, tokens and devices of one user: registration, login and token *)
(* refresh (UserServiceImpl) and the revocation of devices                 *)
(* (DeviceServiceImpl), served by concurrent gRPC threads.                 *)
(*                                                                         *)
(* A step is one Redis command or one statement on MySQL; either may fail. *)
(* A token is the number of its issue; its key in Redis holds the user,    *)
(* its hash is what user_devices.token_hash names.  The reading RPCs and   *)
(* the online keys that revocation also clears (Session) are left out.     *)
(***************************************************************************)
EXTENDS Integers, FiniteSets

CONSTANTS
    Rpcs,           \* threads that serve requests
    Devices,
    NoDevice,       \* a request without device_id
    MaxRequests,    \* bound: requests
    MaxMishaps      \* bound: failed commands and statements

ASSUME AccountsAssumption == MaxRequests \in Nat /\ NoDevice \notin Devices

VARIABLES
    names,          \* rows of users with the one username that is registered
    live,           \* tokens whose key is in Redis
    row,            \* user_devices.token_hash: a token, 0 when cleared, -1 without row
    issued,         \* the device each token was issued for
    rpcs,           \* the request a thread serves and where it is
    handed,         \* tokens a client was given
    retired,        \* tokens whose refresh was answered OK
    registered,     \* registrations answered OK
    crossed,        \* devices on which two requests overlapped
    unsure,         \* devices of a request of which a DEL or a lookup failed, or a
                    \* call did its work and was answered with an error
    requests, mishaps

accountVars == <<names, live, row, issued, rpcs, handed, retired, registered, crossed,
                 unsure, requests, mishaps>>
storage == <<names, live, row>>
history == <<issued, handed, retired, registered, crossed>>

Free == [op |-> "none", pc |-> "free", dev |-> NoDevice, new |-> 0, old |-> 0, seen |-> -1]
Tokens == 1 .. MaxRequests

AccountsInit ==
    /\ names = 0 /\ live = {} /\ row = [d \in Devices |-> -1]
    /\ issued = [t \in Tokens |-> NoDevice]
    /\ rpcs = [r \in Rpcs |-> Free]
    /\ handed = {} /\ retired = {} /\ registered = 0
    /\ crossed = {} /\ unsure = {} /\ requests = 0 /\ mishaps = 0

-----------------------------------------------------------------------------
Goto(r, place) == rpcs' = [rpcs EXCEPT ![r].pc = place]

Mishap == mishaps < MaxMishaps /\ mishaps' = mishaps + 1
Harmless == Mishap /\ UNCHANGED unsure
Harmful(r) == Mishap /\ unsure' = unsure \cup {rpcs[r].dev}
Fine == UNCHANGED <<unsure, mishaps>>

\* A request comes in; the checks of its arguments, and of the password, come first
begin(r, op, d, old) ==
    /\ rpcs[r] = Free /\ requests < MaxRequests /\ requests' = requests + 1
    /\ rpcs' = [rpcs EXCEPT ![r] = [op |-> op, pc |-> op, dev |-> d, old |-> old, seen |-> -1,
                                  new |-> IF op \in {"login", "refresh"} THEN requests' ELSE 0]]
    /\ issued' = [issued EXCEPT ![requests'] = d]
    /\ crossed' = IF \E x \in Rpcs : rpcs[x].dev = d THEN crossed \cup {d} ELSE crossed
    /\ UNCHANGED <<storage, handed, retired, registered, unsure, mishaps>>

\* fillResponse and return
answer(r) == rpcs' = [rpcs EXCEPT ![r] = Free]

Hand(r) == handed' = handed \cup {rpcs[r].new}

-----------------------------------------------------------------------------
(* Register                                                                 *)

\* getUserByUsername; it finds nobody when MySQL does not answer
getUserByUsername(r) ==
    /\ rpcs[r].pc = "register"
    /\ \/ names > 0 /\ answer(r) /\ Fine
       \/ names = 0 /\ Goto(r, "create") /\ Fine
       \/ Harmless /\ Goto(r, "create")
    /\ UNCHANGED <<storage, history, requests>>

\* createUser against the unique username; on failure the second lookup only
\* chooses between USER_ALREADY_EXISTS and DB_ERROR
createUser(r) ==
    /\ rpcs[r].pc = "create"
    /\ \/ names = 0 /\ names' = 1 /\ registered' = registered + 1 /\ Fine
       \/ names > 0 /\ UNCHANGED <<names, registered>> /\ Fine
       \/ Harmless /\ names' \in {names, 1} /\ UNCHANGED registered
    /\ answer(r)
    /\ UNCHANGED <<live, row, issued, handed, retired, crossed, requests>>

-----------------------------------------------------------------------------
(* Login and RefreshToken                                                   *)

\* RefreshToken: the presented token must be in Redis
checkOld(r) ==
    /\ rpcs[r].pc = "refresh"
    /\ \/ rpcs[r].old \in live /\ Goto(r, "setex") /\ Fine
       \/ rpcs[r].old \notin live /\ answer(r) /\ Fine
       \/ Harmless /\ answer(r)
    /\ UNCHANGED <<storage, history, requests>>

\* SETEX of the new token; without device that is all a login does
setEx(r) ==
    LET next == IF rpcs[r].dev # NoDevice THEN "getDevice"
                ELSE IF rpcs[r].op = "login" THEN "done" ELSE "delOld"
    IN  /\ rpcs[r].pc \in {"login", "setex"}
        /\ \/ live' = live \cup {rpcs[r].new} /\ Goto(r, next) /\ Fine
           \/ Harmless /\ UNCHANGED live /\ answer(r)
           \/ Harmful(r) /\ live' = live \cup {rpcs[r].new} /\ answer(r)
        /\ UNCHANGED <<names, row, history, requests>>

\* getDevice: no row and no answer look the same
getDevice(r) ==
    LET d == rpcs[r].dev
        next(seen) == CASE rpcs[r].op = "login" -> IF seen > 0 THEN "delSeen" ELSE "upsert"
                        [] rpcs[r].op = "refresh" -> IF seen >= 0 THEN "upsert" ELSE "delOld"
                        [] OTHER -> IF seen >= 0 THEN "kick" ELSE "fail"
        go(seen) == rpcs' = [rpcs EXCEPT ![r].seen = seen, ![r].pc = next(seen)]
    IN  /\ rpcs[r].pc \in {"getDevice", "kickDevice"}
        /\ \/ go(row[d]) /\ Fine
           \/ Harmful(r) /\ go(-1)
        /\ UNCHANGED <<storage, history, requests>>

\* RedisClient::del of a token; nobody looks at its result
del(r, token) ==
    \/ live' = live \ {token} /\ Fine
    \/ Harmful(r) /\ UNCHANGED live

\* Mutation: the token the device held stays in Redis
delSeenForgotten(r) ==
    /\ rpcs[r].pc = "delSeen"
    /\ Goto(r, IF rpcs[r].op = "login" THEN "upsert"
               ELSE IF rpcs[r].op = "refresh" THEN "delOld" ELSE "clear")
    /\ Fine /\ UNCHANGED <<storage, history, requests>>

\* DEL of the token the device's row named
delSeen(r) ==
    /\ rpcs[r].pc = "delSeen"
    /\ Goto(r, IF rpcs[r].op = "login" THEN "upsert"
               ELSE IF rpcs[r].op = "refresh" THEN "delOld" ELSE "clear")
    /\ del(r, rpcs[r].seen)
    /\ UNCHANGED <<names, row, history, requests>>

\* upsertDevice: the row names the new token
upsertDevice(r) ==
    LET next == IF rpcs[r].op = "login" THEN "done"
                ELSE IF rpcs[r].seen > 0 THEN "delSeen" ELSE "delOld"
        written == [row EXCEPT ![rpcs[r].dev] = rpcs[r].new]
    IN  /\ rpcs[r].pc = "upsert"
        /\ \/ row' = written /\ Goto(r, next) /\ Fine
           \/ Harmless /\ UNCHANGED row /\ Goto(r, "delNew")
           \/ Harmful(r) /\ row' = written /\ Goto(r, "delNew")
        /\ UNCHANGED <<names, live, history, requests>>

\* The row was not written: the new token is taken back and the request fails
delNew(r) ==
    /\ rpcs[r].pc = "delNew" /\ Goto(r, "fail")
    /\ del(r, rpcs[r].new)
    /\ UNCHANGED <<names, row, history, requests>>

\* Mutation: only the token of the device's row is deleted
delOldForgotten(r) ==
    /\ rpcs[r].pc = "delOld" /\ Goto(r, "done")
    /\ Fine /\ UNCHANGED <<storage, history, requests>>

\* RefreshToken's last DEL, of the token it was given
delOld(r) ==
    /\ rpcs[r].pc = "delOld" /\ Goto(r, "done")
    /\ del(r, rpcs[r].old)
    /\ UNCHANGED <<names, row, history, requests>>

done(r) ==
    /\ rpcs[r].pc \in {"done", "fail"} /\ answer(r)
    /\ IF rpcs[r].pc = "done" /\ rpcs[r].new > 0 THEN Hand(r) ELSE UNCHANGED handed
    /\ retired' = IF rpcs[r].pc = "done" /\ rpcs[r].op = "refresh" THEN retired \cup {rpcs[r].old}
                  ELSE retired
    /\ Fine /\ UNCHANGED <<storage, issued, registered, crossed, requests>>

-----------------------------------------------------------------------------
(* revokeDevice                                                             *)

\* kickConnection and the online keys (Session); a failure there only fails the
\* answer, after everything else was done
kickConnection(r) ==
    /\ rpcs[r].pc = "kick"
    /\ Goto(r, IF rpcs[r].seen > 0 THEN "delSeen" ELSE "clear")
    /\ Fine /\ UNCHANGED <<storage, history, requests>>

clearDeviceToken(r) ==
    LET cleared == [row EXCEPT ![rpcs[r].dev] = 0]
    IN  /\ rpcs[r].pc = "clear"
        /\ \/ row' = cleared /\ Goto(r, "done") /\ Fine
           \/ Harmless /\ row' \in {row, cleared} /\ Goto(r, "fail")
        /\ UNCHANGED <<names, live, history, requests>>

-----------------------------------------------------------------------------
\* The RPCs; a client presents a token it was given, with the device it logged in from
Register(r) == begin(r, "register", NoDevice, 0)
Login(r, d) == begin(r, "login", d, 0)
RefreshToken(r, t) == begin(r, "refresh", issued[t], t)
KickDevice(r, d) == begin(r, "kickDevice", d, 0)

AccountsNext ==
    \E r \in Rpcs :
        \/ Register(r)
        \/ \E d \in Devices \cup {NoDevice} : Login(r, d)
        \/ \E t \in handed : RefreshToken(r, t)
        \/ \E d \in Devices : KickDevice(r, d)
        \/ getUserByUsername(r) \/ createUser(r) \/ checkOld(r) \/ setEx(r) \/ getDevice(r)
        \/ delSeen(r) \/ upsertDevice(r) \/ delNew(r) \/ delOld(r) \/ done(r)
        \/ kickConnection(r) \/ clearDeviceToken(r)

AccountsSpec == AccountsInit /\ [][AccountsNext]_accountVars

-----------------------------------------------------------------------------
(* Properties                                                               *)

\* Of concurrent registrations of one username at most one is answered OK, and then
\* the row exists: Register's lookup and insert are two statements, and the unique
\* index and the result of createUser decide
RegisteredOnce == registered <= 1 /\ (registered = 1 => names = 1)

\* Every valid token was given to a client or belongs to a request in progress, and
\* was not refreshed: a login or refresh that fails after SETEX takes its token back,
\* and a refreshed token is never valid again, even when logins, revocations or other
\* refreshes of the device run at the same time (Login's and RefreshToken's DELs).
NoStrayToken ==
    \A t \in live :
        \/ issued[t] \in unsure
        \/ t \notin retired /\ (t \in handed \/ \E r \in Rpcs : rpcs[r].new = t)

\* While nothing runs on a device, its only valid token is the one its row names,
\* so KickDevice revokes what is valid.  Holds as long as requests of the device do
\* not overlap; failed upserts are undone
RowNamesTheToken ==
    \A d \in Devices \ (crossed \cup unsure) :
        (\A r \in Rpcs : rpcs[r].dev # d) => \A t \in live : issued[t] = d => row[d] = t

\* MySQL and Redis agree although no transaction spans them: a username is registered
\* once, and the row of a device at rest names its valid token (Register, Login,
\* RefreshToken, KickDevice).
StoresAgree == RegisteredOnce /\ RowNamesTheToken
=============================================================================
