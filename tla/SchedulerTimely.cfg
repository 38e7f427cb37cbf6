SPECIFICATION TimelyEditSpec
CONSTANTS
    Procs = {p1, p2}
    Monitors = {m1}
    MaxRevision = 2
    MaxTime = 7
    ExecutedOutcomes = {"passed"}
    Interval <- EveryThree
    Offset <- OneLate
    Ceiling = 1
    Margin = 1
    MaxLease = 9
    MaxBackfill = 1
    Concurrency = 1
    Start = 3
    MaxOutages = 1
    LastEdit = 4
    Events = {"crash", "edit"}
SYMMETRY ProcSymmetry
INVARIANTS
    NoConcurrentExecution
    LeaseOutlivesExecution
    SkipsWereEligible
