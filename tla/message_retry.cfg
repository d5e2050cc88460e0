SPECIFICATION FairSpec
CONSTANTS
    t1 = t1
    t2 = t2
    room = room
    Threads <- TwoThreads
    Users <- Two
    Group = room
    Owner = 1
    Convs <- Pair
    Seqs <- Sequenced
    MaxCalls = 3
    MaxFaults = 2
INVARIANTS
    SendIsIdempotent
    OutboxMatchesMessages

    
CHECK_DEADLOCK FALSE
