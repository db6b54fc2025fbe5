SPECIFICATION RegistrySpec
CONSTANTS
    AgentIds <- MCAgentIds
    Vaults = {v1}
    Tokens = {t1}
    t1 = t1
    v1 = v1
    Accounts = {x1, x2}
    x1 = x1
    x2 = x2
    Erc8004Ids = {e1}
    e1 = e1
    NoErc8004 = NoErc8004
    StatusInputs = {}
    AllocationStatusInputs = {}
    UsedInputs = {}
    Configs = {}
    InitialConfig <- MCInitialConfig
    FeeInputs = {1}
    InitialUsdc = 1
SYMMETRY AccountSymmetry
INVARIANTS
    RegistryTypeOK
    
    OwnerIndexExact
    LinkExact
CHECK_DEADLOCK FALSE
