SPECIFICATION Spec
CONSTANTS
    t1 = t1
    t2 = t2
    room = room
    Threads <- OneThread
    Users <- Two
    Group = room
    Owner = 1
    Convs <- Room
    Seqs <- Sequenced
    MaxCalls = 2
    MaxFaults = 1
INVARIANTS
    SentIsInConversation
CHECK_DEADLOCK FALSE
