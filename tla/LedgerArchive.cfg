SPECIFICATION Spec
CONSTANTS
    c1 = c1
    c2 = c2
    c3 = c3
    a = a
    b = b
    t1 = t1
    NoCall = NoCall
    Calls = {c1, c2, c3}
    Ops = {a, b}
    Tabs = {t1}
    OpOf <- MCOpOf
    ArgsOf <- MCArgsDiffer
    TabOf <- MCTabOf
    KindOf <- MCMixed
    GroupOf <- MCTwoGroups
    MaxEpoch = 2
    MaxRecords = 2
    MaxConcurrent = 1
    Strict = FALSE
INVARIANTS
    TypeOK
    SuccessIsGenuine
PROPERTIES
    ImplementsMutationOnce
