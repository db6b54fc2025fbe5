SPECIFICATION SubgraphSpec
CONSTANTS
    MaxAgents = 2
    MaxPositions = 2
    MaxTokens = 2
    MaxPnl = 2
    AgentStatuses = {"Active", "Suspended", "Exited"}
    AllocationStatuses = {"Paused"}
    Ladders <- MCLadders
    CapOfTrack <- MCCapOfTrack
    Prices = {0, 1, 2}
    MaxEvents = 12
    MaxHistory = 5
INVARIANTS
    
    SnapshotsSplitEquity
CHECK_DEADLOCK FALSE
