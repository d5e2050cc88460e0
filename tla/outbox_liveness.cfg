SPECIFICATION FairSpec
CONSTANTS
    w1 = w1
    w2 = w2
    Workers <- TwoWorkers
    Events <- TwoEvents
    BatchSize = 2
    MaxRetry = 1
    Backoff = 1
    Lease = 1
    Prompt = TRUE
    MaxClaims = 5
    MaxFaults = 2
PROPERTIES
    EveryEventSettles
INVARIANTS
    NormalOperationPublishesOnce
