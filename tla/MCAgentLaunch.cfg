SPECIFICATION LaunchSpec
CONSTANTS
    DraftIds = {d1, d2}
    d1 = d1
    d2 = d2
    Handles = {h1, h2}
    h1 = h1
    h2 = h2
    Keys = {k1, k2}
    k1 = k1
    k2 = k2
    NoRow = NoRow
    Wiped = Wiped
    ClientKey = ClientKey
    ManagedIds = {1, 2}
    MaxRegistered = 2
    MaxAgentsPerUser = 2
    Requests = {r1, r2}
    r1 = r1
    r2 = r2
    MaxRenames = 1
INVARIANTS
    LaunchTypeOK
    
    PaidIsDelivered
SYMMETRY Sym
CHECK_DEADLOCK FALSE
