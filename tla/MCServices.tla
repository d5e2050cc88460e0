----------------------------- MODULE MCServices -----------------------------
(***************************************************************************)
(* The parts of the system that share no state with one another, side by   *)
(* side in one instance: `part` is chosen at the start, and that part      *)
(* alone moves.                                                            *)
(***************************************************************************)
EXTENDS Reactor, Timers, Framing, Requests, RateLimit, RedisLink, Accounts, Social, Database,
        MessageIds, Delivery, Mailbox, History, Admin, Tracing, Lifecycle

VARIABLE part

gatewayVars == <<reactorVars, timerVars, framingVars, requestVars, limitVars, redisVars>>
accountingVars == <<accountVars, socialVars, databaseVars, adminVars>>
messagingVars == <<idVars, deliveryVars, mailVars, historyVars, traceVars, lifeVars>>
allVars == <<part, gatewayVars, accountingVars, messagingVars>>

\* A part that does not move has one initial state
ServicesInit ==
    /\ part \in {"reactor", "timers", "framing", "requests", "ratelimit", "redis", "accounts",
                 "social", "database", "admin", "ids", "delivery", "mailbox", "history",
                 "tracing", "lifecycle"}
    /\ ReactorInit /\ TimersInit /\ FramingInit /\ RequestsInit /\ RateLimitInit /\ RedisLinkInit
    /\ AccountsInit /\ SocialInit /\ DatabaseInit /\ AdminInit /\ MessageIdsInit
    /\ DeliveryInit /\ MailboxInit /\ HistoryInit /\ TracingInit /\ LifecycleInit
    /\ part # "reactor" => tls = "off"
    /\ part # "framing" => stream = CHOOSE s \in WellFormed : TRUE
    /\ part # "database" => idle[1] = CHOOSE c \in Conns : TRUE
    /\ part # "lifecycle" => service = "user"

GatewayNext ==
    \/ /\ part = "reactor" /\ ReactorNext
       /\ UNCHANGED <<part, timerVars, framingVars, requestVars, limitVars, redisVars,
                      accountingVars, messagingVars>>
    \/ /\ part = "timers" /\ TimersNext
       /\ UNCHANGED <<part, reactorVars, framingVars, requestVars, limitVars, redisVars,
                      accountingVars, messagingVars>>
    \/ /\ part = "framing" /\ FramingNext
       /\ UNCHANGED <<part, reactorVars, timerVars, requestVars, limitVars, redisVars,
                      accountingVars, messagingVars>>
    \/ /\ part = "requests" /\ RequestsNext
       /\ UNCHANGED <<part, reactorVars, timerVars, framingVars, limitVars, redisVars,
                      accountingVars, messagingVars>>
    \/ /\ part = "ratelimit" /\ RateLimitNext
       /\ UNCHANGED <<part, reactorVars, timerVars, framingVars, requestVars, redisVars,
                      accountingVars, messagingVars>>
    \/ /\ part = "redis" /\ RedisLinkNext
       /\ UNCHANGED <<part, reactorVars, timerVars, framingVars, requestVars, limitVars,
                      accountingVars, messagingVars>>

AccountingNext ==
    \/ /\ part = "accounts" /\ AccountsNext
       /\ UNCHANGED <<part, socialVars, databaseVars, adminVars, gatewayVars, messagingVars>>
    \/ /\ part = "social" /\ SocialNext
       /\ UNCHANGED <<part, accountVars, databaseVars, adminVars, gatewayVars, messagingVars>>
    \/ /\ part = "database" /\ DatabaseNext
       /\ UNCHANGED <<part, accountVars, socialVars, adminVars, gatewayVars, messagingVars>>
    \/ /\ part = "admin" /\ AdminNext
       /\ UNCHANGED <<part, accountVars, socialVars, databaseVars, gatewayVars, messagingVars>>

MessagingNext ==
    \/ /\ part = "ids" /\ MessageIdsNext
       /\ UNCHANGED <<part, deliveryVars, mailVars, historyVars, traceVars, lifeVars,
                      gatewayVars, accountingVars>>
    \/ /\ part = "delivery" /\ DeliveryNext
       /\ UNCHANGED <<part, idVars, mailVars, historyVars, traceVars, lifeVars,
                      gatewayVars, accountingVars>>
    \/ /\ part = "mailbox" /\ MailboxNext
       /\ UNCHANGED <<part, idVars, deliveryVars, historyVars, traceVars, lifeVars,
                      gatewayVars, accountingVars>>
    \/ /\ part = "history" /\ HistoryNext
       /\ UNCHANGED <<part, idVars, deliveryVars, mailVars, traceVars, lifeVars,
                      gatewayVars, accountingVars>>
    \/ /\ part = "tracing" /\ TracingNext
       /\ UNCHANGED <<part, idVars, deliveryVars, mailVars, historyVars, lifeVars,
                      gatewayVars, accountingVars>>
    \/ /\ part = "lifecycle" /\ LifecycleNext
       /\ UNCHANGED <<part, idVars, deliveryVars, mailVars, historyVars, traceVars,
                      gatewayVars, accountingVars>>

ServicesNext == GatewayNext \/ AccountingNext \/ MessagingNext

-----------------------------------------------------------------------------
\* The variables of the part that moves, where its steps need fairness
moving ==
    CASE part = "reactor" -> reactorVars [] part = "timers" -> timerVars
      [] part = "requests" -> requestVars [] part = "database" -> databaseVars
      [] part = "delivery" -> deliveryVars [] part = "mailbox" -> mailVars
      [] part = "tracing" -> traceVars [] part = "lifecycle" -> lifeVars [] OTHER -> part

\* The i-th of the steps that each part takes when it can: time passes, threads and event
\* loops run, brokers and coordinator answer, the client goes on pulling and acknowledging
\* mails, RPC handlers end
FairStep(i) ==
    /\ UNCHANGED part
    /\ \/ /\ part = "reactor"
          /\ \/ i = 1 /\ IoStep
             \/ i = 2 /\ BaseStep
             \/ i = 3 /\ \E t \in Callers : CallerStep(t)
       \/ /\ part = "timers"
          /\ (i = 1 /\ handleTimer) \/ (i = 2 /\ elapse)
       \/ /\ part = "requests"
          /\ \/ i = 1 /\ \E w \in Workers : workerLoop(w) \/ rpc(w)
             \/ i = 2 /\ runCallback
       \/ part = "database" /\ i = 1 /\ \E t \in Threads : ThreadStep(t)
       \/ /\ part = "delivery"
          /\ \/ i = 1 /\ \E w \in Publishers : PublisherStep(w)
             \/ i = 2 /\ \E w \in Pushers : PusherStep(w)
             \/ i = 3 /\ \E p \in Carrying : PartitionStep(p)
             \/ i = 4 /\ \E r \in inFlight : appendRecord(r)
             \/ i = 5 /\ Wait
       \/ /\ part = "mailbox"
          /\ (i = 1 /\ PullStep) \/ (i = 2 /\ AckStep)
       \/ part = "tracing" /\ i = 1 /\ TracerStep
       \/ /\ part = "lifecycle"
          /\ \/ i = 1 /\ mainStep
             \/ i = 2 /\ watch
             \/ i = 3 /\ finishRpc
             \/ i = 4 /\ serverDown
             \/ i = 5 /\ workRound

\* Since part never changes, this is weak fairness of every step named above
Fairness == \A i \in 1 .. 5 : WF_moving(FairStep(i))

ServicesSpec == ServicesInit /\ [][ServicesNext]_allVars /\ Fairness
=============================================================================
