SPECIFICATION FairSpec
CONSTANTS
    w1 = w1
    w2 = w2
    ann = ann
    bob = bob
    cyd = cyd
    one = one
    many = many
    bad = bad
    NoUser = NoUser
    NoWorker = NoWorker
    To <- Recipient
    From <- Author
    Owner = ann
    Workers <- TwoWorkers
    Users <- Pair
    Messages <- Single
    Malformed <- None
    MaxRetry = 1
    MaxPublish = 1
    MaxFaults = 1
INVARIANTS
    CommittedIsSettled
    HandledInOrder
PROPERTIES
    EveryRecordIsConsumed
CHECK_DEADLOCK FALSE
