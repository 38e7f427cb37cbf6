SPECIFICATION SceneSpec
CONSTANTS
    Monitors = {m1}
    MaxTransition = 3
    Alerts <- AlertNames
    Integrations = {i1}
    MaxEnabled = 1
    MaxSecret = 3
    MaxAttempts = 2
    Windows = {w1, w2}
    Cancellers = {c1, c2}
    MaxDuration = 2
    Procs = {p1, p2}
    Lease = 1
    BatchSize = 1
    RetryBase = 1
    RetryCap = 2
    MaxOutages = 1
    Events = {"crash", "shutdown", "store", "invalid"}
    MaxTime = 9
    Horizon = 2
INVARIANTS
    IncidentsFollowHealth
    NoOverlap
    Restorable
    OneCaller
    SignedWithLiveSecret
PROPERTIES
    LogSpec
    CancelledOnce
    DecisionsStand
    AuditIsFinal
    RoutedOnce
    PromptlySettled
CHECK_DEADLOCK FALSE
