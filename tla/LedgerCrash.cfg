SPECIFICATION FairSpec
CONSTANTS
    c1 = c1
    c2 = c2
    c3 = c3
    a = a
    b = b
    t1 = t1
    NoCall = NoCall
    Calls = {c1, c2, c3}
    Ops = {a, b}
    Tabs = {t1}
    OpOf <- MCOpOf
    ArgsOf <- MCArgsOf
    TabOf <- MCTabOf
    KindOf <- MCBrowserHttp
    GroupOf <- MCOneGroup
    MaxEpoch = 1
    MaxRecords = 2
    MaxConcurrent = 1
    Strict = TRUE
INVARIANTS
    DispatchIsDurable
    AtMostOnceDispatch
    CompletedWasAnswered
    RequestsMatchLedger
    DuplicatesAreServed
PROPERTIES
    CallsReturn
