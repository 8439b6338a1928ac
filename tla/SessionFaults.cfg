SPECIFICATION FairSpec
CONSTANTS
    p1 = p1
    p2 = p2
    p3 = p3
    Pages = {p1}
    Contexts <- MCContexts
    GuardOf <- MCGuardOf
    Strict = FALSE
    MaxSessions = 1
    MaxConns = 3
    MaxFaults = 3
    MaxChanges = 2
    MaxBoth = 3
CHECK_DEADLOCK FALSE
INVARIANTS
    TablesAgree
    TypeOK
    SnapshotsAreCurrent
PROPERTIES
    PagesSettle
