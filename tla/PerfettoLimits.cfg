SPECIFICATION FairSpec
CONSTANTS
    p1 = p1
    p2 = p2
    s1 = s1
    s2 = s2
    c1 = c1
    c2 = c2
    None = None
    Kinds = {"attach", "detach", "remove", "select", "query"}
    Pages = {p1, p2}
    Sessions = {s1}
    Calls = {c1}
    Announces = FALSE
    MaxClients = 1
    MaxPending = 2
    k1 = k1
    k2 = k2
    k3 = k3
    Conns = {k1, k2, k3}
    MaxFaults = 1
    Joined = {p1}

CHECK_DEADLOCK FALSE
INVARIANTS
    TypeOK

    
