SPECIFICATION Spec
CONSTANTS
    w1 = w1
    w2 = w2
    ann = ann
    bob = bob
    cyd = cyd
    one = one
    many = many
    bad = bad
    NoUser = NoUser
    NoWorker = NoWorker
    To <- Recipient
    From <- Author
    Owner = ann
    Workers <- OneWorker
    Users <- Trio
    Messages <- GroupAndBad
    Malformed <- BadOnly
    MaxRetry = 1
    MaxPublish = 1
    MaxFaults = 1
SYMMETRY MemberSymmetry
INVARIANTS
    CommittedIsSettled
CHECK_DEADLOCK FALSE
