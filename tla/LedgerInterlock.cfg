SPECIFICATION Spec
CONSTANTS
    c1 = c1
    c2 = c2
    c3 = c3
    a = a
    b = b
    t1 = t1
    NoCall = NoCall
    Calls = {c1, c3}
    Ops = {a, b}
    Tabs = {t1}
    OpOf <- MCOpOf
    ArgsOf <- MCArgsOf
    TabOf <- MCTabOf
    KindOf <- MCBrowser
    GroupOf <- MCOneGroup
    MaxEpoch = 1
    MaxRecords = 2
    MaxConcurrent = 1
    Strict = FALSE
PROPERTIES
    AmbiguityBlocksDispatch
