SPECIFICATION FairSpec
CONSTANTS
    t1 = t1
    t2 = t2
    t3 = t3
    None = None
    Tabs = {t1, t2}
    Opened = {t1}
    MaxWorkers = 1
    MaxSpawned = 2
    MaxCalls = 2
    MaxCommands = 2
    MaxFaults = 1
CHECK_DEADLOCK FALSE
INVARIANTS
    TypeOK
    ClaimsHold
PROPERTIES
    CommandsReachTabs
    WorkersAsApproved
    
