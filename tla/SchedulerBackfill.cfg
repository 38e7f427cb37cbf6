SPECIFICATION Spec
CONSTANTS
    Procs = {p1}
    Monitors = {m1}
    MaxRevision = 1
    MaxTime = 7
    ExecutedOutcomes = {"passed"}
    Interval <- EveryUnit
    Offset <- NoOffset
    Ceiling = 2
    Margin = 1
    MaxLease = 9
    MaxBackfill = 3
    Concurrency = 1
    Start = 1
    MaxOutages = 1
    LastEdit = 0
    Events = {"crash"}
INVARIANT HeldSlotEndsHistory
