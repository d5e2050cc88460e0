SPECIFICATION Spec
CONSTANTS
    t1 = t1
    t2 = t2
    room = room
    Threads <- TwoThreads
    Users <- Two
    Group = room
    Owner = 1
    Convs <- PairAndRoom
    Seqs <- Unsequenced
    MaxCalls = 3
    MaxFaults = 1
SYMMETRY ThreadSymmetry
INVARIANTS
    UnreadIsExact
    RecalledPreviewIsHidden
CHECK_DEADLOCK FALSE
