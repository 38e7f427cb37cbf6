SPECIFICATION Spec
CONSTANTS
    Procs = {p1, p2}
    Monitors = {m1}
    MaxRevision = 1
    MaxTime = 6
    ExecutedOutcomes = {"passed"}
    Interval <- EveryTwo
    Offset <- NoOffset
    Ceiling = 1
    Margin = 0
    MaxLease = 2
    MaxBackfill = 2
    Concurrency = 1
    Start = 3
    MaxOutages = 1
    LastEdit = 3
    Events = {"crash", "shutdown", "store", "edit"}
SYMMETRY ProcSymmetry
INVARIANTS
    ObservedByLastClaimant
PROPERTIES
    LedgerSpec
