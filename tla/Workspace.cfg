SPECIFICATION FairSpec
CONSTANTS
    r1 = r1
    r2 = r2
    a = a
    b = b
    None = None
    Roots = {r1, r2}
    Paths = {a, b}
    Edits <- TwoFiles
    MaxTotal = 2
    MaxPerRoot = 1
    MaxCalls = 3
    MaxCost = 6
    Missing = {b}
    MaxForeign = 1
    MaxFaults = 1
CHECK_DEADLOCK FALSE
INVARIANTS
    
    TypeOK
    ShutdownLeavesNone
PROPERTIES
    CommandsEnd
