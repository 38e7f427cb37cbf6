SPECIFICATION FairSpec
CONSTANTS
    Procs = {p1, p2}
    Monitors = {m1}
    MaxRevision = 1
    MaxTime = 5
    ExecutedOutcomes = {"passed"}
    Interval <- EveryUnit
    Offset <- NoOffset
    Ceiling = 1
    Margin = 1
    MaxLease = 9
    MaxBackfill = 2
    Concurrency = 1
    Start = 1
    MaxOutages = 0
    LastEdit = 0
    Events = {}
PROPERTY EverySlotSettles
