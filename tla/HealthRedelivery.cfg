SPECIFICATION Spec
CONSTANTS
    Monitors = {m1}
    MaxRevision = 1
    Dues = {0, 1}
    Interval = 1
    Ceiling = 1
    Workers = {w1, w2}
    Sweepers = {x1}
    Kinds = {"scheduled", "confirmation"}
    MaxTime = 3
    LastEdit = 0
    Events = {"handler"}
INVARIANTS
    CausedOnce
CHECK_DEADLOCK FALSE
