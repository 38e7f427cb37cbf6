SPECIFICATION TimelySpec
CONSTANTS
    Procs = {p1}
    Monitors = {m1, m2}
    MaxRevision = 1
    MaxTime = 6
    ExecutedOutcomes = {"passed"}
    Interval <- EveryUnit
    Offset <- NoOffset
    Ceiling = 2
    Margin = 1
    MaxLease = 9
    MaxBackfill = 2
    Concurrency = 1
    Start = 1
    MaxOutages = 0
    LastEdit = 0
    Events = {}
INVARIANT LeaseOutlivesExecution
