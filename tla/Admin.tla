------------------------------- MODULE Admin -------------------------------
(***************************************************************************)
(* The admin service: every RPC is authorised and audited first, then it   *)
(* reads statistics or cleans up.  RunCleanup deletes finished and expired *)
(* rows of four tables and prunes the members of a user's device index     *)
(* whose Redis keys have expired, one Redis command at a time, while       *)
(* gateways write the same keys and other calls clean up as well.          *)
(*                                                                         *)
(* A row is <<table, id>>, with the integer the status column holds.       *)
(***************************************************************************)
EXTENDS Integers, Sequences, FiniteSets, Functions

CONSTANTS
    Admins,         \* concurrent admin calls
    AdminDevices,   \* the devices of the user
    BatchSize,      \* admin.cleanup.batch_size
    MaxAuditEvents, \* max_audit_events_
    MaxAdminCalls,  \* bound: calls
    MaxChanges      \* bound: logins, expiries, row changes and failures

ASSUME AdminAssumption == BatchSize \in Nat \ {0} /\ MaxAuditEvents \in Nat \ {0}

VARIABLES
    rows, aged,             \* the status of a row (-1: deleted), and the rows past retention
    indexed,                \* nebula:user:devices
    onlineKeys, connKeys,   \* the devices with nebula:user:online and nebula:user:conn
    audit,                  \* audit_events_
    audited,                \* all that was ever appended to it
    admin,                  \* the calls
    wronged,                \* devices pruned although they were online
    adminCalls, changes

adminVars == <<rows, aged, indexed, onlineKeys, connKeys, audit, audited, admin, wronged,
               adminCalls, changes>>
tables == <<rows, aged>>
keys == <<indexed, onlineKeys, connKeys>>
audits == <<audit, audited, adminCalls>>

Tables == <<"outbox_events", "offline_messages", "friend_requests", "message_receipts">>

NoAdmin == [op |-> "none", at |-> "idle", dry |-> FALSE, todo |-> {}, device |-> {},
            raced |-> FALSE, found |-> 0, uncleaned |-> {}, failed |-> FALSE, stats |-> <<>>, total |-> 0]

\* A database and a Redis that have been in use; a key has expired
AdminInit ==
    /\ rows = [r \in {<<Tables[1], 1>>, <<Tables[1], 2>>, <<Tables[2], 1>>} |->
                  IF r = <<Tables[1], 2>> THEN 4 ELSE 1]
    /\ aged = {<<Tables[1], 1>>, <<Tables[1], 2>>}
    /\ indexed = AdminDevices /\ onlineKeys = AdminDevices
    /\ connKeys = AdminDevices \ {CHOOSE d \in AdminDevices : TRUE}
    /\ audit = <<>> /\ audited = <<>> /\ admin = [a \in Admins |-> NoAdmin] /\ wronged = {}
    /\ adminCalls = 0 /\ changes = 0

proceed(a, r) == admin' = [admin EXCEPT ![a] = r]
change == changes < MaxChanges /\ changes' = changes + 1

-----------------------------------------------------------------------------
\* AdminServiceImpl::appendAudit
appendAudit(e) ==
    audit' = IF Len(audit) = MaxAuditEvents THEN Append(Tail(audit), e) ELSE Append(audit, e)

\* AdminAuth::authorize: the token's rule and its scopes decide.  UNAUTHENTICATED and
\* PERMISSION_DENIED are both audited as DENY
Decisions == {"ALLOW", "DENY"}

\* The RPCs; "read" stands for GetKafkaLagInfo, HealthCheck, ValidateConfig,
\* GetServiceOverview and ListAuditEvents, which change nothing
Ops == {"RunCleanup", "GetSystemStats", "GetOutboxStats", "read"}

Online == onlineKeys \cap connKeys

\* AdminServiceImpl::authorize, with which every RPC begins
authorize(a) ==
    /\ admin[a].at = "idle" /\ adminCalls < MaxAdminCalls /\ adminCalls' = adminCalls + 1
    /\ \E op \in Ops, decision \in Decisions, dry \in BOOLEAN :
        /\ dry => op = "RunCleanup"
        /\ appendAudit(<<adminCalls, decision>>)
        /\ audited' = Append(audited, <<adminCalls, decision>>)
        /\ proceed(a, IF decision # "ALLOW" THEN NoAdmin
                      ELSE [NoAdmin EXCEPT !.op = op, !.dry = dry, !.at = "begin",
                                           !.uncleaned = IF op = "RunCleanup" /\ ~ dry
                                                         THEN indexed \ Online ELSE {}])
    /\ UNCHANGED <<tables, keys, wronged, changes>>

readOnly(a) ==
    /\ admin[a].at = "begin" /\ admin[a].op = "read" /\ proceed(a, NoAdmin)
    /\ UNCHANGED <<tables, keys, audits, wronged, changes>>

Count(status) == Cardinality({r \in DOMAIN rows : r[1] = Tables[1] /\ rows[r] \in status})

\* AdminServiceImpl::GetOutboxStats: pending is 0 and 4, then published, failed and dead.
\* A failed query is answered with zeros
GetOutboxStats(a) ==
    /\ admin[a].at = "begin" /\ admin[a].op = "GetOutboxStats"
    /\ \/ /\ proceed(a, [admin[a] EXCEPT !.at = "answer", !.total = Count(0 .. 4),
                             !.stats = <<Count({0, 4}), Count({1}), Count({2}), Count({3})>>])
          /\ UNCHANGED changes
       \/ /\ change
          /\ proceed(a, [admin[a] EXCEPT !.at = "answer", !.failed = TRUE, !.stats = <<0, 0, 0, 0>>])
    /\ UNCHANGED <<tables, keys, audits, wronged>>

\* AdminServiceImpl::RunCleanup: no connection, no cleanup
RunCleanup(a) ==
    /\ admin[a].at = "begin" /\ admin[a].op = "RunCleanup"
    /\ \/ proceed(a, [admin[a] EXCEPT !.at = "rows"]) /\ UNCHANGED changes
       \/ proceed(a, NoAdmin) /\ change
    /\ UNCHANGED <<tables, keys, audits, wronged>>

\* The condition on the status in the WHERE clause of each table
Finished(table) ==
    CASE table = "outbox_events" -> {1} [] table = "offline_messages" -> {2}
      [] table = "friend_requests" -> {1, 2, 3} [] OTHER -> Nat

Expired(table) == {r \in aged : r[1] = table /\ rows[r] \in Finished(table)}

\* AdminServiceImpl::cleanupRows for each table: DELETE ... LIMIT, which may fail, or a
\* count if it is a dry run.  The statements touch different tables and are one step here
cleanupRows(a) ==
    /\ admin[a].at = "rows" /\ proceed(a, [admin[a] EXCEPT !.at = "members"])
    /\ \E deleted \in SUBSET aged :
        /\ admin[a].dry => deleted = {}
        /\ \A t \in Range(Tables) : LET mine == {r \in deleted : r[1] = t} IN
            /\ mine \subseteq Expired(t) /\ Cardinality(mine) <= BatchSize
        /\ IF admin[a].dry \/ \A t \in Range(Tables) : LET mine == {r \in deleted : r[1] = t} IN
                                 mine = Expired(t) \/ Cardinality(mine) = BatchSize
           THEN UNCHANGED changes ELSE change
        /\ rows' = [r \in DOMAIN rows |-> IF r \in deleted THEN -1 ELSE rows[r]]
        /\ aged' = aged \ deleted
    /\ UNCHANGED <<keys, audits, wronged>>

-----------------------------------------------------------------------------
\* AdminServiceImpl::cleanupStaleOnlineDevices and GetSystemStats walk the same keys:
\* SMEMBERS, then the device's two keys with EXISTS
smembers(a) ==
    /\ \/ admin[a].at = "members"
       \/ admin[a].at = "begin" /\ admin[a].op = "GetSystemStats"
    /\ proceed(a, [admin[a] EXCEPT !.at = "next", !.todo = indexed])
    /\ UNCHANGED <<tables, keys, audits, wronged, changes>>

\* The next device, until there is none or the batch is full
nextDevice(a) ==
    /\ admin[a].at = "next"
    /\ IF admin[a].todo = {} \/ (admin[a].op = "RunCleanup" /\ admin[a].found >= BatchSize)
       THEN proceed(a, [admin[a] EXCEPT !.at = "answer", !.todo = {}, !.device = {}])
       ELSE \E d \in admin[a].todo :
              proceed(a, [admin[a] EXCEPT !.at = "online", !.todo = @ \ {d}, !.device = {d},
                                          !.raced = FALSE])
    /\ UNCHANGED <<tables, keys, audits, wronged, changes>>

\* A device with both keys is counted by GetSystemStats, one without by the cleanup
countLive(a) == [admin[a] EXCEPT !.at = "next", !.device = {}, !.found = @ + (IF admin[a].op = "RunCleanup" THEN 0 ELSE 1)]
countStale(a) ==
    IF admin[a].op = "RunCleanup"
    THEN [admin[a] EXCEPT !.found = @ + 1, !.at = IF admin[a].dry THEN "next" ELSE "delOnline"]
    ELSE [admin[a] EXCEPT !.at = "next"]

existsOnline(a) ==
    /\ admin[a].at = "online"
    /\ proceed(a, IF admin[a].device \subseteq onlineKeys THEN [admin[a] EXCEPT !.at = "conn"]
                  ELSE countStale(a))
    /\ UNCHANGED <<tables, keys, audits, wronged, changes>>

\* Mutation: the second EXISTS is taken the wrong way round
existsConnInverted(a) ==
    /\ admin[a].at = "conn"
    /\ proceed(a, IF admin[a].device \subseteq connKeys THEN countStale(a) ELSE countLive(a))
    /\ UNCHANGED <<tables, keys, audits, wronged, changes>>

existsConn(a) ==
    /\ admin[a].at = "conn"
    /\ proceed(a, IF admin[a].device \subseteq connKeys THEN countLive(a) ELSE countStale(a))
    /\ UNCHANGED <<tables, keys, audits, wronged, changes>>

\* DEL, DEL and SREM of a stale device
delOnline(a) ==
    /\ admin[a].at = "delOnline" /\ onlineKeys' = onlineKeys \ admin[a].device
    /\ wronged' = IF admin[a].raced THEN wronged ELSE wronged \cup (admin[a].device \cap Online)
    /\ proceed(a, [admin[a] EXCEPT !.at = "delConn"])
    /\ UNCHANGED <<tables, indexed, connKeys, audits, changes>>

delConn(a) ==
    /\ admin[a].at = "delConn" /\ connKeys' = connKeys \ admin[a].device
    /\ proceed(a, [admin[a] EXCEPT !.at = "srem"])
    /\ UNCHANGED <<tables, indexed, onlineKeys, audits, wronged, changes>>

srem(a) ==
    /\ admin[a].at = "srem" /\ indexed' = indexed \ admin[a].device
    /\ proceed(a, [admin[a] EXCEPT !.at = "next", !.device = {}, !.raced = FALSE])
    /\ UNCHANGED <<tables, onlineKeys, connKeys, audits, wronged, changes>>

reported(a) ==
    /\ admin[a].at = "answer" /\ proceed(a, NoAdmin)
    /\ UNCHANGED <<tables, keys, audits, wronged, changes>>

-----------------------------------------------------------------------------
\* A device logs in (GatewayOnlineManager::setOnline)
deviceOnline(d) ==
    /\ change /\ indexed' = indexed \cup {d} /\ onlineKeys' = onlineKeys \cup {d}
    /\ connKeys' = connKeys \cup {d}
    /\ admin' = [a \in Admins |-> [admin[a] EXCEPT !.uncleaned = @ \ {d},
                                                   !.raced = @ \/ (admin[a].op = "RunCleanup"
                                                                    /\ admin[a].device = {d})]]
    /\ UNCHANGED <<tables, audits, wronged>>

\* Redis expires a key of a gateway that crashed
keyExpires(d) ==
    /\ change /\ UNCHANGED <<tables, indexed, audits, admin, wronged>>
    /\ \/ d \in onlineKeys /\ onlineKeys' = onlineKeys \ {d} /\ UNCHANGED connKeys
       \/ d \in connKeys /\ connKeys' = connKeys \ {d} /\ UNCHANGED onlineKeys

\* The services work on their rows, and rows get old
rowChanges(r) ==
    /\ change /\ rows[r] # -1 /\ UNCHANGED <<keys, audits, admin, wronged>>
    /\ \/ /\ rows[r] \notin Finished(r[1]) /\ aged' = aged \ {r}
          /\ \E status \in CASE r[1] = "outbox_events" -> IF rows[r] = 4 THEN {1, 2, 3} ELSE {4}
                             [] r[1] = "offline_messages" -> {rows[r] + 1}
                             [] OTHER -> {1, 2, 3} : rows' = [rows EXCEPT ![r] = status]
       \/ r \notin aged /\ aged' = aged \cup {r} /\ UNCHANGED rows

AdminNext ==
    \/ \E a \in Admins :
        \/ authorize(a) \/ readOnly(a) \/ GetOutboxStats(a) \/ RunCleanup(a) \/ cleanupRows(a)
        \/ smembers(a) \/ nextDevice(a) \/ existsOnline(a) \/ existsConn(a)
        \/ delOnline(a) \/ delConn(a) \/ srem(a) \/ reported(a)
    \/ \E d \in AdminDevices : deviceOnline(d) \/ keyExpires(d)
    \/ \E r \in DOMAIN rows : rowChanges(r)

AdminSpec == AdminInit /\ [][AdminNext]_adminVars

-----------------------------------------------------------------------------
\* ListAuditEvents can show the last MaxAuditEvents decisions, denied calls included, in
\* the order in which they were made: an event is only ever lost to newer ones
AuditKeepsNewest ==
    /\ Len(audit) = (IF Len(audited) < MaxAuditEvents THEN Len(audited) ELSE MaxAuditEvents)
    /\ \A i \in 1 .. Len(audit) : audit[i] = audited[Len(audited) - Len(audit) + i]

\* GetOutboxStats counts every row of the outbox in one of its four numbers, rows that a
\* worker has claimed included.  A failed query, which is answered with zeros and OK, is
\* excepted
StatsAddUp ==
    \A a \in Admins : admin[a].stats # <<>> /\ ~ admin[a].failed =>
        admin[a].stats[1] + admin[a].stats[2] + admin[a].stats[3] + admin[a].stats[4] = admin[a].total

\* RunCleanup is thorough: when it has pruned less than a batch, no device that was stale
\* when it began, and did not log in meanwhile, is left in the index
CleanupIsThorough ==
    \A a \in Admins :
        admin[a].at = "answer" /\ admin[a].op = "RunCleanup" /\ ~ admin[a].dry
            /\ admin[a].found < BatchSize => admin[a].uncleaned \cap indexed = {}

\* RunCleanup takes the keys of no device that is online, except of one that logged in
\* between the EXISTS that found it stale and the DEL
CleanupSparesTheOnline == wronged = {}

\* What the admin service does and says is exact while gateways, workers and other calls
\* change what it looks at: RunCleanup prunes all that is stale and nothing that is
\* online, counts add up, and the audit trail has no holes (cleanupStaleOnlineDevices,
\* GetOutboxStats, appendAudit).
AdminIsExact == CleanupIsThorough /\ CleanupSparesTheOnline /\ StatsAddUp /\ AuditKeepsNewest
=============================================================================
