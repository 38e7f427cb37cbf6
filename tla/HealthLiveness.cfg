SPECIFICATION FairSpec
CONSTANTS
    Monitors = {m1}
    MaxRevision = 2
    Dues = {0}
    Interval = 1
    Ceiling = 1
    Workers = {w1}
    Sweepers = {x1}
    Kinds = {"scheduled", "confirmation"}
    MaxTime = 3
    LastEdit = 0
    Events = {"deadletter", "edit"}
INVARIANTS
    CausedOnce
PROPERTIES
    EvidenceExpires
    DownIsConfirmed
CHECK_DEADLOCK FALSE
