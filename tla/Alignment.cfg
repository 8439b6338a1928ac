SPECIFICATION Spec
CONSTANTS
    Requests <- SomeRequests
    Unit = 1200
    MaxGood = 1
CHECK_DEADLOCK FALSE
INVARIANTS
    TypeOK
    
    
    PathIsCheapest
    MappingIsSound
