SPECIFICATION LedgerSpec
CONSTANTS
    AgentIds <- MCTwoAgents
    Vaults = {v1, v2}
    v2 = v2
    Tokens = {t1}
    t1 = t1
    v1 = v1
    Accounts = {x1}
    x1 = x1
    Erc8004Ids = {}
    NoErc8004 = NoErc8004
    StatusInputs = {"Suspended"}
    AllocationStatusInputs = {}
    UsedInputs = {}
    Configs = {}
    InitialConfig <- NoLimits
    FeeInputs = {}
    InitialUsdc = 0
    Prices = {1, 2}
    TokenUnit = 1
    LensSet = TRUE
    Amounts <- PmAmounts
    PnlDeltas <- PmPnls
    EntryPrices <- PmAmounts
    Slippages = {100}
    Ladders <- ValidLadders
    MaxExitRules = 2
    Ids = {1, 2, 3, 4}
    Pnls <- PmPnls
    AgentVaults <- AnyVaults
    TradeAmounts = {2, 3}
    ExitShares = {5000}
    SignedLadders <- MCLadders
    Bounties <- CappedBounty
    LpAmounts = {}
    ListedTokens = {t1}
    InitialIdle = 4
    MaxIdle = 4
    MaxNonce = 2
INVARIANTS
    RouterTypeOK
    UsedIsCostBasis
    InventoryBacksPositions
    CashConserved
    PnlIsSum
    LensCountsOpen
PROPERTIES
    PMSpec
SYMMETRY VaultSymmetry
CHECK_DEADLOCK FALSE
