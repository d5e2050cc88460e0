SPECIFICATION Spec
CONSTANTS
    w1 = w1
    w2 = w2
    ann = ann
    bob = bob
    cyd = cyd
    one = one
    many = many
    bad = bad
    NoUser = NoUser
    NoWorker = NoWorker
    To <- Recipient
    From <- Author
    Owner = ann
    Workers <- OneWorker
    Users <- Pair
    Messages <- Single
    Malformed <- None
    MaxRetry = 1
    MaxPublish = 1
    MaxFaults = 1
INVARIANTS
    DeadLetterHasOfflineCopy
CHECK_DEADLOCK FALSE
