SPECIFICATION PMSpec
CONSTANTS
    AgentIds <- MCAgentIds
    Vaults = {v1}
    Tokens = {t1, t2, t3}
    t1 = t1
    t2 = t2
    t3 = t3
    v1 = v1
    Amounts = {0, 1, 2}
    PnlDeltas = {0}
    EntryPrices = {1}
    Slippages = {100}
    Ladders <- MCLadders
    MaxExitRules = 2
    Ids = {1, 2, 3}
    Pnls = {0}
SYMMETRY TokenSymmetry
INVARIANTS
    PMTypeOK
    OnePositionPerToken
    OpenIndexExact
    BalanceIsPosition
    OpenIffFunded
    LadderNeverExhausted
    TotalLedgerIsSum
PROPERTIES
    HistoryFrozen
CHECK_DEADLOCK FALSE
