SPECIFICATION FairSpec
CONSTANTS
    c1 = c1
    c2 = c2
    c3 = c3
    c4 = c4
    s1 = s1
    s2 = s2
    NoSession = NoSession
    Calls = {c1, c2, c4}
    Sessions = {s1}
    ScopeOf <- OneScope
    DetailsOf <- OtherDetails
    SessionOf <- OneSession
    DecisionsOf <- Interlock
    Preapproved = {}
    AllowPersistent = TRUE
    MaxPending = 1
    MaxSessions = 1
    MaxStarts = 2
    MaxWaiting = 2
CHECK_DEADLOCK FALSE
INVARIANTS
    DecisionsLast
    TypeOK
    
PROPERTIES
    RequiresReturn
