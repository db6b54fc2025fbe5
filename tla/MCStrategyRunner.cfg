SPECIFICATION RunnerSpec
CONSTANTS
    ManagedIds = {a1, a2}
    a1 = a1
    a2 = a2
    Keys = {k1}
    k1 = k1
    NoRow = NoRow
    Wiped = Wiped
    Workers = {w1, w2}
    w1 = w1
    w2 = w2
    RequestWorkers = {w2}
    DueLimit = 1
    Symbols = {s1}
    s1 = s1
    Traders = {a1}
    Callers = {a1}
    Breaches = {FALSE}
    Budget = 1
    CooldownMs = 1
    DecisionSizes = {2}
    MaxArchived = 1
    MaxCrashes = 1
INVARIANTS
    RunnerTypeOK
PROPERTIES
    CompletedRunsTraded
    DueAgentsServed
    
CHECK_DEADLOCK FALSE
