SPECIFICATION FairSpec
CONSTANTS
    a1 = a1
    p1 = p1
    p2 = p2
    Aggregates <- OneAggregate
    Procs <- TwoProcs
    MaxVersion = 3
    MaxTime = 12
    RetryBase = 1
    RetryCap = 2
    Lease = 2
    BatchSize = 2
    Concurrency = 1
    MaxAttempts = 2
    GapTimeout = 3
    Retention = 6
    Invalid <- SecondInvalid
    LastWrite = 2
    MaxOutages = 1
    Events <- CrashEvents
INVARIANTS
    GapDecided
PROPERTIES
    EveryEntrySettles
CHECK_DEADLOCK FALSE
