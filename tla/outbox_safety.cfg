SPECIFICATION Spec
CONSTANTS
    w1 = w1
    w2 = w2
    Workers <- TwoWorkers
    Events <- OneEvent
    BatchSize = 1
    MaxRetry = 1
    Backoff = 1
    Lease = 1
    Prompt = FALSE
    MaxClaims = 4
    MaxFaults = 3
SYMMETRY WorkerSymmetry
INVARIANTS
    TerminalIsDelivered
    DeadLetterOnlyWhenExhausted
    OneOwner
PROPERTIES
    TerminalIsFinal
    ClaimIsRespected
    RetryCountGrows
