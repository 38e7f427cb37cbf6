SPECIFICATION Spec
CONSTANTS
    Monitors = {m1, m2}
    Names = {n1, n2}
    Intervals = {i1}
    Editors = {e1, e2}
    MaxWrites = 4
    Replacers = {r1, r2}
    Visitors = {v1}
    MaxVersion = 2
    MaxToken = 1
    Users = {u1, u2, u3}
    Organizations = {o1, o2}
    Secrets = {s1, s2}
    Logins = {l1, l2}
    MaxResets = 2
    Replicas = {p1, p2}
    SecretRows = {v1, v2}
    MaxKey = 3
    MaxSeals = 4
    Workers = {w1, w2}
    Requests = {q1, q2}
    MonthLength = 2
    Days = 1
    Ahead = 1
    LastDay = 5
INVARIANTS
    AnswersAreWhole
    SetupOnce
    GapsExplained
    OnlyResetsChange
    NothingLockedOut
    EvidenceKept
    Insertable
PROPERTIES
    LifecycleSpec
    ComponentsStay
CHECK_DEADLOCK FALSE
