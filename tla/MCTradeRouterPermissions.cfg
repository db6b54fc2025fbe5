SPECIFICATION PermissionSpec
CONSTANTS
    AgentIds <- MCOneAgent
    Vaults = {v1}
    Tokens = {t1}
    t1 = t1
    v1 = v1
    Accounts = {x1}
    x1 = x1
    Erc8004Ids = {}
    NoErc8004 = NoErc8004
    StatusInputs = {"Active", "Suspended", "Exited"}
    AllocationStatusInputs = {"Paused"}
    UsedInputs = {}
    Configs <- InactiveTrack
    InitialConfig <- LossLimit
    FeeInputs = {}
    InitialUsdc = 0
    Prices = {1, 2}
    TokenUnit = 1
    LensSet = FALSE
    Amounts <- PmAmounts
    PnlDeltas <- PmPnls
    EntryPrices <- PmAmounts
    Slippages = {100}
    Ladders <- ValidLadders
    MaxExitRules = 2
    Ids = {1, 2, 3, 4}
    Pnls <- PmPnls
    AgentVaults <- SharedVault
    TradeAmounts = {2}
    ExitShares = {5000}
    SignedLadders <- OneLadder
    Bounties = {}
    LpAmounts = {}
    ListedTokens = {t1}
    InitialIdle = 4
    MaxIdle = 4
    MaxNonce = 2
INVARIANTS
    TerminalHasNoExposure
    ForceCloseAvailable
    
PROPERTIES
    DeployOnlyWhenPermitted
    PausedVaultOnlyForceCloses
CHECK_DEADLOCK FALSE
