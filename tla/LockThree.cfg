SPECIFICATION FairSpec
CONSTANTS
    p1 = p1
    p2 = p2
    p3 = p3
    Procs = {p1, p2, p3}
    Dead = Dead
    MaxCrashes = 1
    MaxAttempts = 3
CHECK_DEADLOCK FALSE
INVARIANTS
    LockFollowsOwner
    TypeOK
    
PROPERTIES
    RestartRecovers
