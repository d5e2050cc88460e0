------------------------------ MODULE RedisLink ------------------------------
(***************************************************************************)
(* RedisClient: the threads of a service share one connection to Redis.    *)
(* A command holds the client's mutex from before it is written until its  *)
(* reply was read.  An error ends the connection for good: nothing calls   *)
(* reconnect(), and every later command fails at once.                     *)
(***************************************************************************)
EXTENDS Integers, Sequences, FiniteSets

CONSTANTS
    LinkUsers,          \* threads that issue commands
    NoUser,
    MaxCommands     \* bound: commands

ASSUME RedisLinkAssumption == NoUser \notin LinkUsers /\ MaxCommands \in Nat

VARIABLES
    context,        \* "none", "open" or "error"
    mutex,          \* the thread in command()
    sent,           \* commands on their way to the server
    replies,        \* replies on their way back
    user,           \* the command a thread issues and where it is
    outcome,        \* what each command returned: its reply, or 0 for a failure
    commands

redisVars == <<context, mutex, sent, replies, user, outcome, commands>>

\* connect(), with AUTH, succeeded
RedisLinkInit ==
    /\ context = "open" /\ mutex = NoUser /\ sent = <<>> /\ replies = <<>>
    /\ user = [u \in LinkUsers |-> [pc |-> "out", command |-> 0]]
    /\ outcome = <<>> /\ commands = 0

\* ping, set, get and the others come to command()
issueCommand(u) ==
    /\ user[u].pc = "out" /\ commands < MaxCommands /\ commands' = commands + 1
    /\ user' = [user EXCEPT ![u] = [pc |-> "lock", command |-> commands']]
    /\ outcome' = Append(outcome, -1)
    /\ UNCHANGED <<context, mutex, sent, replies>>

\* Mutation: command() without its mutex
lockForgotten(u) ==
    /\ user[u].pc = "lock" /\ user' = [user EXCEPT ![u].pc = "write"]
    /\ UNCHANGED <<context, mutex, sent, replies, outcome, commands>>

lock(u) ==
    /\ user[u].pc = "lock" /\ mutex = NoUser /\ mutex' = u
    /\ user' = [user EXCEPT ![u].pc = "write"]
    /\ UNCHANGED <<context, sent, replies, outcome, commands>>

unlock(u, result) ==
    /\ mutex' = NoUser /\ user' = [user EXCEPT ![u].pc = "out"]
    /\ outcome' = [outcome EXCEPT ![user[u].command] = result]

\* redisvCommand writes the command; without usable context it returns nothing
writeCommand(u) ==
    /\ user[u].pc = "write"
    /\ \/ /\ context = "open" /\ sent' = Append(sent, user[u].command)
          /\ user' = [user EXCEPT ![u].pc = "read"] /\ UNCHANGED <<mutex, outcome>>
       \/ context # "open" /\ unlock(u, 0) /\ UNCHANGED sent
    /\ UNCHANGED <<context, replies, commands>>

\* ... and reads the first reply, or the error of the connection
readReply(u) ==
    /\ user[u].pc = "read"
    /\ \/ context = "open" /\ replies # <<>> /\ unlock(u, Head(replies)) /\ replies' = Tail(replies)
       \/ context # "open" /\ unlock(u, 0) /\ UNCHANGED replies
    /\ UNCHANGED <<context, sent, commands>>

\* External: Redis answers in order
redisAnswers ==
    /\ context = "open" /\ sent # <<>> /\ sent' = Tail(sent)
    /\ replies' = Append(replies, Head(sent))
    /\ UNCHANGED <<context, mutex, user, outcome, commands>>

\* The connection breaks; what was under way is lost
connectionError ==
    /\ context = "open" /\ context' = "error" /\ sent' = <<>> /\ replies' = <<>>
    /\ UNCHANGED <<mutex, user, outcome, commands>>

RedisStep ==
    \/ redisAnswers
    \/ \E u \in LinkUsers : lock(u) \/ writeCommand(u) \/ readReply(u)

RedisLinkNext == RedisStep \/ connectionError \/ \E u \in LinkUsers : issueCommand(u)

RedisLinkSpec == RedisLinkInit /\ [][RedisLinkNext]_redisVars

-----------------------------------------------------------------------------
\* Every command returns its own reply or fails, whichever threads share the
\* connection and whenever it breaks: a reply is never taken for the reply of
\* another command, which would turn one key's value into another's
\* (RedisClient::command).
ReplyIsMine == \A i \in 1 .. commands : outcome[i] \in {-1, 0, i}
=============================================================================
