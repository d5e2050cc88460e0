SPECIFICATION ServicesSpec
CONSTANTS
    Callers = {x}
    MaxInputs = 2
    Repeating = {b1, b2}
    Once = {o1}
    Interval = 3
    MaxJumps = 1
    InitialSize = 3
    HeaderLimit = 3
    Workers = {w1}
    MaxPackets = 3
    QueueSize = 1
    FailureThreshold = 2
    NoTask = NoTask
    Loops = {l1, l2}
    Keys = {k1, k2}
    Capacity = 1
    MaxBuckets = 1
    IdleLimit = 3
    MaxStall = 1
    MaxTime = 4
    MaxUses = 3
    LinkUsers = {t1, t2}
    NoUser = NoUser
    MaxCommands = 4
    Rpcs = {r1, r2}
    Devices = {phone}
    NoDevice = NoDevice
    MaxRequests = 3
    MaxMishaps = 1
    Clerks = {c1, c2}
    Users = {u1, u2}
    Owner = u1
    MaxCalls = 4
    MaxErrors = 1
    Threads = {t1, t2}
    Conns = {c1, c2}
    MaxJobs = 2
    MaxFaults = 2
    Nodes = {0, 1}
    MaxNode = 1
    SequenceMask = 1
    MaxClock = 2
    MaxIds = 3
    Publishers = {w1}
    Pushers = {v1}
    ChatMessages = {1}
    Sender = ann
    Receiver = bob
    NoOne = NoOne
    ClaimBound = 2
    FaultBound = 1
    Mails = {m1, m2, m3}
    Unreadable = {m3}
    PullLimit = 2
    Repeated = {m1}
    MaxLost = 1
    Times = {1, 2}
    HistoryIds = {1, 2, 3, 4}
    PageSize = 1
    Admins = {a1}
    AdminDevices = {d1, d2}
    BatchSize = 2
    MaxAuditEvents = 1
    MaxAdminCalls = 2
    MaxChanges = 1
    MaxQueueSize = 3
    TraceBatch = 2
    MaxSpans = 4
    Processes = {"user", "device", "relation", "conversation", "admin", "message", "push", "gateway"}
    MaxHandlers = 2
    MaxTasks = 2
INVARIANTS
    
    EveryPacketIsRouted
    RateIsKept
    ReplyIsMine
    NoStrayToken
    StoresAgree
    AllOrNothing
    IdsGrow
    HistoryIsComplete
    
PROPERTIES
    ClosedIsReleased
    TimersRun
    RequestsAreServed
    RelationsAreKept
    PoolNeverWedges
    EveryMessageArrives
    AckedIsNotOffered
    MailboxDrains
    
    
CHECK_DEADLOCK FALSE
