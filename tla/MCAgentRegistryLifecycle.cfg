SPECIFICATION RegistrySpec
CONSTANTS
    AgentIds <- MCAgentIds
    Vaults = {v1}
    Tokens = {t1}
    t1 = t1
    v1 = v1
    Accounts = {x1}
    x1 = x1
    Erc8004Ids = {}
    NoErc8004 = NoErc8004
    StatusInputs = {"Active", "Failed"}
    AllocationStatusInputs = {"Removed"}
    UsedInputs = {0, 2}
    Configs <- MCConfigs
    InitialConfig <- MCInitialConfig
    FeeInputs = {}
    InitialUsdc = 1
INVARIANTS
    AllocationTracksAgent
    CapsAddUp
CHECK_DEADLOCK FALSE
