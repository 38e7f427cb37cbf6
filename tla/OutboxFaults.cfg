SPECIFICATION Spec
CONSTANTS
    a1 = a1
    p1 = p1
    p2 = p2
    Aggregates <- OneAggregate
    Procs <- TwoProcs
    MaxVersion = 2
    MaxTime = 2
    RetryBase = 1
    RetryCap = 2
    Lease = 1
    BatchSize = 2
    Concurrency = 1
    MaxAttempts = 2
    GapTimeout = 1
    Retention = 0
    Invalid <- NoInvalid
    LastWrite = 1
    MaxOutages = 1
    Events <- AllEvents
SYMMETRY Symmetry
PROPERTIES
    ProjectsInOrder
    NothingVanishes
    GapPatience
CHECK_DEADLOCK FALSE
