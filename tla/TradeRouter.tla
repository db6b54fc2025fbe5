---------------------------- MODULE TradeRouter ----------------------------
(***************************************************************************)
(* contracts/src/core/TradeRouter.sol with the contracts it drives:        *)
(* AgentRegistry and AllocationManager (who may trade, how much),          *)
(* PositionManager (the ledger), MandateVault and TokenRegistry (cash,     *)
(* inventory, prices), InventorySwapAdapter (trades at the oracle price)   *)
(* and TradeRouterLens.  One action per transaction; agents, keepers, the  *)
(* operator, administrators, the oracle, liquidity providers and the       *)
(* calendar interleave freely.                                             *)
(*                                                                         *)
(* A signed intent is a choice of its fields: the agent may sign any, with *)
(* its current nonce, a deadline ahead and minimum outputs the swap meets; *)
(* any other intent reverts.  The population of agents is fixed            *)
(* (AgentVaults): registration is module AgentRegistry's subject.           *)
(***************************************************************************)
EXTENDS AgentRegistry, PositionManager, MandateVault, TradeRouterLens

CONSTANTS AgentVaults,      \* assignments of vaults to agents, chosen at registration
          TradeAmounts,     \* usdcAmount of a signed open or add
          ExitShares,       \* exitBps of a signed reduce
          SignedLadders,    \* exits of a signed open or ladder update
          Bounties,         \* <<keeperBountyBps, maxKeeperBounty>> the admin writes
          LpAmounts,        \* USDC a liquidity provider moves
          ListedTokens,     \* tokens registered and enabled before the first trade
          InitialIdle,      \* USDC in each vault before the first trade
          MaxIdle,          \* bound on idleAssets for deposits
          MaxNonce          \* bound on the signed intents of an agent

VARIABLES nonces,             \* _nonces
          dailyTurnover,      \* _dailyTurnoverUsdc[agent][today]
          dailyPnl,           \* _dailyRealizedPnlUsdc[agent][today]
          lifetimePnl,        \* _lifetimeRealizedPnlUsdc
          keeperBounty,       \* keeperBountyBps, maxKeeperBounty
          keeperUsdc          \* external: bounties paid out of each vault

routerVars == <<nonces, dailyTurnover, dailyPnl, lifetimePnl, keeperBounty, keeperUsdc>>
\* Everything a trade may write beside routerVars.
marketVars == <<pmVars, vaultVars, lensVars>>
protocolVars == <<registryVars, marketVars, tokenVars, routerVars>>

ASSUME RouterAssumption ==
    /\ AgentIds = 1 .. Cardinality(AgentIds)
    /\ AgentVaults \subseteq [AgentIds -> Vaults]
    /\ TradeAmounts \subseteq Nat /\ LpAmounts \subseteq Nat /\ ExitShares \subseteq Nat
    /\ SignedLadders \subseteq Seq(ExitRule)
    /\ Bounties \subseteq (0 .. MAX_BPS) \X Nat
    /\ ListedTokens \subseteq Tokens
    /\ InitialIdle \in Nat /\ MaxIdle \in Nat /\ MaxNonce \in Nat

vaultOf(a) == agents[a].vault
trackConfig(a) == vaultTrackConfigs[vaultOf(a)][agents[a].track]

\* Every agent registered by the registrar on its vault, ListedTokens listed
\* and enabled, the vaults funded: the state after the deployment scripts and the
\* first deposits.
RouterInit ==
    /\ FeeInit /\ PMInit /\ LensInit
    /\ vaultTrackConfigs = InitialConfig
    /\ \E x \in Accounts, vault \in AgentVaults :
         /\ agents = [a \in 1 .. Cardinality(AgentIds) |->
                        [owner |-> x, signer |-> x, vault |-> vault[a], track |-> CHALLENGE,
                         status |-> "Active", erc8004 |-> NoErc8004]]
         /\ agentIdsByOwner = [y \in Accounts |->
                                 IF y = x THEN [a \in 1 .. Cardinality(AgentIds) |-> a]
                                            ELSE <<>>]
         /\ allocations = [a \in AgentIds |->
                             [vault |-> vault[a], trackId |-> CHALLENGE,
                              cap |-> initialCap(vault[a], CHALLENGE),
                              used |-> 0, status |-> "Active"]]
         /\ totalAgentCaps =
              [v \in Vaults |->
                 initialCap(v, CHALLENGE) * Cardinality({a \in AgentIds : vault[a] = v})]
    /\ agentIdByErc8004 = [e \in Erc8004Ids |-> 0]
    /\ signerNonces = [x \in Accounts |-> 0]
    /\ registryPaused = FALSE
    /\ erc8004Owner \in [Erc8004Ids -> Accounts]
    /\ tokenStatus = [t \in Tokens |-> IF t \in ListedTokens THEN "Active" ELSE "Unlisted"]
    /\ price \in [Tokens -> Prices]
    /\ fresh = [t \in Tokens |-> TRUE]
    /\ idleAssets = [v \in Vaults |-> InitialIdle]
    /\ lpUsdc = [v \in Vaults |-> InitialIdle]
    /\ tokenBalance = [v \in Vaults |-> [t \in Tokens |-> 0]]
    /\ mandateToken = [v \in Vaults |->
                         [t \in Tokens |-> IF t \in ListedTokens THEN "Enabled" ELSE "Unlisted"]]
    /\ tradingPaused = [v \in Vaults |-> FALSE]
    /\ nonces = [a \in AgentIds |-> 0]
    /\ dailyTurnover = [a \in AgentIds |-> 0]
    /\ dailyPnl = [a \in AgentIds |-> 0]
    /\ lifetimePnl = [a \in AgentIds |-> 0]
    /\ keeperBounty = <<0, 0>>
    /\ keeperUsdc = [v \in Vaults |-> 0]

-----------------------------------------------------------------------------
(* Exit ladders. *)

\* _validateExitRules: stops negative and falling, take-profits positive and
\* rising, the last rule sells everything.  exitBps has no upper bound here.
AnyLadder(exits) == Len(exits) \in 1 .. MaxExitRules
ValidExitRules(exits) ==
    /\ Len(exits) \in 1 .. MaxExitRules
    /\ exits[Len(exits)].exitBps = MAX_BPS
    /\ \A i \in DOMAIN exits :
          /\ exits[i].exitBps > 0
          /\ IF exits[i].triggerType = "StopLoss" THEN exits[i].triggerBps < 0
                                                  ELSE exits[i].triggerBps > 0
    /\ \A i, j \in DOMAIN exits : i < j /\ exits[i].triggerType = exits[j].triggerType =>
          IF exits[i].triggerType = "StopLoss" THEN exits[j].triggerBps < exits[i].triggerBps
                                               ELSE exits[j].triggerBps > exits[i].triggerBps

\* _validateExitRulesForTrack; a zero bound is no bound.
ExitRulesAllowed(exits, config) ==
    LET stops == {i \in DOMAIN exits : exits[i].triggerType = "StopLoss"}
        takes == DOMAIN exits \ stops
    IN  /\ ValidExitRules(exits)
        /\ \A i \in stops : config.maxStopLossBps > 0 =>
              exits[i].triggerBps >= -config.maxStopLossBps
        /\ \A i \in takes :
              /\ config.minTakeProfitBps > 0 => exits[i].triggerBps >= config.minTakeProfitBps
              /\ config.maxTakeProfitBps > 0 => exits[i].triggerBps <= config.maxTakeProfitBps
        /\ config.requireStopLoss => stops # {}
        /\ config.requireTakeProfit => takes # {}

\* _positionPnlBps: the oracle price of one token against the average entry.
positionPnlBps(p) ==
    IF p.entryPriceUsdc = 0 THEN 0
    ELSE SignedDiv((valueInAsset(TokenUnit, p.token) - p.entryPriceUsdc) * MAX_BPS,
                   p.entryPriceUsdc)

\* _isRuleTriggered
IsTriggered(rule, pnlBps) ==
    IF rule.triggerType = "StopLoss" THEN pnlBps <= rule.triggerBps
                                     ELSE pnlBps >= rule.triggerBps

-----------------------------------------------------------------------------
(* Risk limits. *)

\* _requireActiveAgent
CanTrade(a) == agents[a].status = "Active"

\* _validateTradeSize
WithinTradeSize(a, usdc) ==
    /\ canTotalAssets(vaultOf(a))
    /\ usdc <= MulDiv(totalAssets(vaultOf(a)), trackConfig(a).maxTradeSizeBps, MAX_BPS)

\* _maxDailyTurnover; totalAssets is read only when a limit is configured.
maxDailyTurnover(a) ==
    MulDiv(totalAssets(vaultOf(a)), trackConfig(a).maxDailyTurnoverBps, MAX_BPS)

\* _validateDailyTurnover: a limit that is zero, or rounds to zero, is no limit.
WithinDailyTurnover(a, notional) ==
    \/ trackConfig(a).maxDailyTurnoverBps = 0
    \/ /\ canTotalAssets(vaultOf(a))
       /\ \/ maxDailyTurnover(a) = 0
          \/ dailyTurnover[a] + notional <= maxDailyTurnover(a)

\* _validateDailyLoss
WithinDailyLoss(a) ==
    \/ trackConfig(a).maxDailyLossBps = 0
    \/ dailyPnl[a] >= 0
    \/ -dailyPnl[a] < MulDiv(allocations[a].cap, trackConfig(a).maxDailyLossBps, MAX_BPS)

\* The part _validateOpenIntent and _validateAddIntent share.
MayDeploy(a, usdc) ==
    /\ nonces[a] < MaxNonce
    /\ ~registryPaused
    /\ CanTrade(a)
    /\ WithinTradeSize(a, usdc)
    /\ WithinDailyTurnover(a, usdc)
    /\ WithinDailyLoss(a)
    /\ allocations[a].used + usdc <= allocations[a].cap

\* _assertLedgerInvariant, evaluated on the state a trade leaves: the ledger of
\* all vaults against the balance of one.
LedgerBackedAfter(v, t) == totalTokenLedger'[t] <= tokenBalance'[v][t]

\* _notifyLensTrade and _notifyLensAfterSell
notifyLens(a, turnover, opened, closed) ==
    LET open == {positions'[id] : id \in {k \in DOMAIN positions' :
                    positions'[k].agentId = a /\ positions'[k].status = "Open"}}
    IN  IF LensSet
        THEN onTrade(a, turnover, opened, closed, \A p \in open : canValue(p.tokenAmount, p.token),
                     equity(allocations'[a].cap, lifetimePnl'[a], open))
        ELSE UNCHANGED lensVars

\* swapUsdcForToken
usdcToTokenAmount(usdc, t) == MulDiv(usdc, TokenUnit, price[t])

-----------------------------------------------------------------------------
(* The transactions of the router. *)

\* _validateOpenIntent with _validateAgentCanOpen; the position manager looks at
\* openPositionId once more.
MayOpen(a, t, usdc, exits) ==
    /\ MayDeploy(a, usdc)
    /\ ExitRulesAllowed(exits, trackConfig(a))
    /\ isVaultTrackActive(vaultOf(a), agents[a].track)
    /\ allocations[a].status = "Active"
    /\ isAllowedToken(vaultOf(a), t)
    /\ openPositionId[a][t] = 0
    /\ fresh[t]

\* openPosition
OpenPosition(a, t, usdc, maxSlippage, exits) ==
    LET v == vaultOf(a)
        tokenOut == usdcToTokenAmount(usdc, t)
    IN  /\ MayOpen(a, t, usdc, exits)
        /\ tokenOut > 0
        /\ buyForTrade(v, t, usdc, tokenOut)
        /\ openPosition(a, v, t, tokenOut, MulDiv(usdc, TokenUnit, tokenOut), usdc,
                        maxSlippage, exits)
        /\ nonces' = [nonces EXCEPT ![a] = @ + 1]
        /\ setAllocationUsed(a, allocations[a].used + usdc)
        /\ dailyTurnover' = [dailyTurnover EXCEPT ![a] = @ + usdc]
        /\ UNCHANGED <<dailyPnl, lifetimePnl, keeperBounty, keeperUsdc>>
        /\ notifyLens(a, usdc, TRUE, FALSE)
        /\ LedgerBackedAfter(v, t)
        /\ UNCHANGED <<agentVars, feeVars, vaultTrackConfigs, tokenVars>>

\* addToPosition: the token list, the track's active flag and the status of the
\* allocation are not looked at.
AddToPosition(id, usdc, maxSlippage) ==
    LET p == positions[id]
        a == p.agentId
        added == usdcToTokenAmount(usdc, p.token)
    IN  /\ IsOpen(id)
        /\ MayDeploy(a, usdc)
        /\ vaultOf(a) = p.vault
        /\ fresh[p.token]
        /\ buyForTrade(p.vault, p.token, usdc, added)
        /\ increasePosition(id, added, usdc, maxSlippage,
                            MulDiv(p.usdcCostBasis + usdc, TokenUnit, p.tokenAmount + added))
        /\ nonces' = [nonces EXCEPT ![a] = @ + 1]
        /\ setAllocationUsed(a, allocations[a].used + usdc)
        /\ dailyTurnover' = [dailyTurnover EXCEPT ![a] = @ + usdc]
        /\ UNCHANGED <<dailyPnl, lifetimePnl, keeperBounty, keeperUsdc>>
        /\ notifyLens(a, usdc, FALSE, FALSE)
        /\ LedgerBackedAfter(p.vault, p.token)
        /\ UNCHANGED <<agentVars, feeVars, vaultTrackConfigs, tokenVars>>

\* _keeperBounty
bountyOf(usdcOut) ==
    LET bounty == MulDiv(usdcOut, keeperBounty[1], MAX_BPS)
    IN  IF keeperBounty[2] # 0 /\ bounty > keeperBounty[2] THEN keeperBounty[2] ELSE bounty

\* _minUsdcOut: the turnover check of a sale uses this lower bound and not the proceeds.
minUsdcOut(expected, maxSlippage) == MulDiv(expected, MAX_BPS - maxSlippage, MAX_BPS)

\* The allocation write of _sell.  It fails when the operator has set used below
\* the cost released, and when the remaining used is above a cap that shrank.
ReleaseNothing(a, released) == UNCHANGED allocationVars
ReleaseSome(a, released) ==
    released < allocations[a].used /\ setAllocationUsed(a, allocations[a].used - released)
releaseUsed(a, released) ==
    released <= allocations[a].used /\ setAllocationUsed(a, allocations[a].used - released)

\* realizedPnlDelta, and _recordDailyRealizedPnl.
GainsOnly(usdcOut, released) == Max({0, usdcOut - released})
realizedPnl(usdcOut, released) == usdcOut - released
RecordLastPnl(a, pnl) ==
    dailyPnl' = [dailyPnl EXCEPT ![a] = @ + pnl] /\ lifetimePnl' = [lifetimePnl EXCEPT ![a] = pnl]
recordRealizedPnl(a, pnl) ==
    /\ dailyPnl' = [dailyPnl EXCEPT ![a] = @ + pnl]
    /\ lifetimePnl' = [lifetimePnl EXCEPT ![a] = @ + pnl]

\* positionClosed of _notifyLensAfterSell.
NeverCloses(p, sellAmount) == FALSE
closesPosition(p, sellAmount) == sellAmount = p.tokenAmount

\* _sell: everything but the nonce.
sell(id, sellAmount, mode) ==
    LET p == positions[id]
        a == p.agentId
        usdcOut == valueInAsset(sellAmount, p.token)
        released == MulDiv(p.usdcCostBasis, sellAmount, p.tokenAmount)
        pnl == realizedPnl(usdcOut, released)
        force == mode = "ForceClose"
        bounty == IF mode = "Ladder" THEN bountyOf(usdcOut) ELSE 0
    IN  /\ sellAmount <= p.tokenAmount
        /\ fresh[p.token]
        /\ p.maxSlippageBps <= MAX_BPS
        /\ force \/ WithinDailyTurnover(a, minUsdcOut(usdcOut, p.maxSlippageBps))
        /\ sellForTrade(p.vault, p.token, sellAmount, usdcOut, bounty, force)
        /\ IF mode = "Ladder" THEN applyLadderExit(id, sellAmount, released, pnl)
                              ELSE applyDiscretionaryReduce(id, sellAmount, released, pnl)
        /\ releaseUsed(a, released)
        /\ dailyTurnover' = [dailyTurnover EXCEPT ![a] = IF force THEN @ ELSE @ + usdcOut]
        /\ recordRealizedPnl(a, pnl)
        /\ keeperUsdc' = [keeperUsdc EXCEPT ![p.vault] = @ + bounty]
        /\ notifyLens(a, IF force THEN 0 ELSE usdcOut, FALSE, closesPosition(p, sellAmount))
        /\ LedgerBackedAfter(p.vault, p.token)
        /\ UNCHANGED <<agentVars, feeVars, vaultTrackConfigs, tokenVars, keeperBounty>>

\* reducePosition
ReducePosition(id, exitBps) ==
    LET a == positions[id].agentId
        sellAmount == MulDiv(positions[id].tokenAmount, exitBps, MAX_BPS)
    IN  /\ nonces[a] < MaxNonce
        /\ exitBps \in 1 .. MAX_BPS
        /\ IsOpen(id)
        /\ CanTrade(a)
        /\ sellAmount > 0
        /\ sell(id, sellAmount, "Discretionary")
        /\ nonces' = [nonces EXCEPT ![a] = @ + 1]

\* updateExitLadder
UpdateExitLadder(id, exits) ==
    LET p == positions[id]
        a == p.agentId
    IN  /\ nonces[a] < MaxNonce
        /\ IsOpen(id)
        /\ CanTrade(a)
        /\ ExitRulesAllowed(exits, vaultTrackConfigs[p.vault][agents[a].track])
        /\ p.nextRuleIndex + Len(exits) <= MaxExitRules
        /\ fresh[p.token]
        /\ ~IsTriggered(exits[1], positionPnlBps(p))
        /\ updatePendingExitRules(id, exits)
        /\ nonces' = [nonces EXCEPT ![a] = @ + 1]
        /\ UNCHANGED <<dailyTurnover, dailyPnl, lifetimePnl, keeperBounty, keeperUsdc,
                       registryVars, vaultVars, lensVars, tokenVars>>

\* executeExit, called by any keeper.
ExecuteExit(id) ==
    LET p == positions[id]
        sellAmount == MulDiv(p.tokenAmount, getNextExitRule(id).exitBps, MAX_BPS)
    IN  /\ IsOpen(id)
        /\ HasNextExitRule(id)
        /\ fresh[p.token]
        /\ IsTriggered(getNextExitRule(id), positionPnlBps(p))
        /\ sellAmount > 0
        /\ sell(id, sellAmount, "Ladder")
        /\ UNCHANGED nonces

\* forceClose
ForceClose(id) ==
    /\ IsOpen(id)
    /\ agents[positions[id].agentId].status = "Suspended"
    /\ sell(id, positions[id].tokenAmount, "ForceClose")
    /\ UNCHANGED nonces

\* setKeeperBounty
SetKeeperBounty(bounty) ==
    /\ keeperBounty' = bounty
    /\ UNCHANGED <<nonces, dailyTurnover, dailyPnl, lifetimePnl, keeperUsdc,
                   registryVars, marketVars, tokenVars>>

-----------------------------------------------------------------------------
(* Everybody else. *)

\* Operator and registry administrators: LifecycleStep, pause, track policy.
GovernanceStep ==
    /\ \/ LifecycleStep
       \/ \E paused \in BOOLEAN : SetRegistryPaused(paused)
       \/ \E v \in Vaults, k \in Track, config \in Configs : SetVaultTrackConfig(v, k, config)
    /\ UNCHANGED <<marketVars, tokenVars, routerVars>>

\* Vault administrators.
VaultStep ==
    /\ \E v \in Vaults :
         \/ \E paused \in BOOLEAN : setTradingPaused(v, paused)
         \/ \E t \in Tokens : enableToken(v, t)
         \/ \E t \in Tokens, enabled \in BOOLEAN : setTokenEnabled(v, t, enabled)
    /\ UNCHANGED <<registryVars, pmVars, lensVars, tokenVars, routerVars>>

\* Liquidity providers.
LiquidityStep ==
    /\ \E v \in Vaults, usdc \in LpAmounts :
         \/ idleAssets[v] + usdc <= MaxIdle /\ depositIdle(v, usdc)
         \/ withdrawIdle(v, usdc)
    /\ UNCHANGED <<registryVars, pmVars, lensVars, tokenVars, routerVars>>

\* Token administrators.
TokenStep ==
    /\ \E t \in Tokens : registerToken(t) \/ \E active \in BOOLEAN : setTokenActive(t, active)
    /\ UNCHANGED <<registryVars, marketVars, routerVars>>

\* external: the price feed and the clock.
OracleStep ==
    /\ \E t \in Tokens : goStale(t) \/ \E p \in Prices : publishPrice(t, p)
    /\ UNCHANGED <<registryVars, marketVars, routerVars>>

\* external: midnight UTC; the mappings of a new day start at zero.
NextDay ==
    /\ dailyTurnover' = [a \in AgentIds |-> 0]
    /\ dailyPnl' = [a \in AgentIds |-> 0]
    /\ UNCHANGED <<nonces, lifetimePnl, keeperBounty, keeperUsdc,
                   registryVars, marketVars, tokenVars>>

AgentStep ==
    \/ \E a \in AgentIds, t \in Tokens, usdc \in TradeAmounts, maxSlippage \in Slippages,
          exits \in SignedLadders :
          OpenPosition(a, t, usdc, maxSlippage, exits)
    \/ \E id \in PositionIds :
         \/ \E usdc \in TradeAmounts, maxSlippage \in Slippages :
               AddToPosition(id, usdc, maxSlippage)
         \/ \E exitBps \in ExitShares : ReducePosition(id, exitBps)
         \/ \E exits \in SignedLadders : UpdateExitLadder(id, exits)

KeeperStep == \E id \in PositionIds : ExecuteExit(id)
OperatorStep == \E id \in PositionIds : ForceClose(id)

Trade == AgentStep \/ KeeperStep \/ OperatorStep
Environment ==
    GovernanceStep \/ VaultStep \/ LiquidityStep \/ TokenStep \/ OracleStep \/ NextDay
    \/ \E bounty \in Bounties : SetKeeperBounty(bounty)

RouterNext == Trade \/ Environment

RouterSpec == RouterInit /\ [][RouterNext]_protocolVars

-----------------------------------------------------------------------------
(* Properties. *)

\* The types of the storage of every contract in the composition.
RouterTypeOK ==
    /\ RegistryTypeOK /\ PMTypeOK
    /\ tokenStatus \in [Tokens -> {"Unlisted", "Active", "Inactive"}]
    /\ price \in [Tokens -> Prices] /\ fresh \in [Tokens -> BOOLEAN]
    /\ idleAssets \in [Vaults -> Nat] /\ lpUsdc \in [Vaults -> Int]
    /\ tokenBalance \in [Vaults -> [Tokens -> Nat]]
    /\ mandateToken \in [Vaults -> [Tokens -> {"Unlisted", "Enabled", "Disabled"}]]
    /\ tradingPaused \in [Vaults -> BOOLEAN]
    /\ nonces \in [AgentIds -> Nat] /\ dailyTurnover \in [AgentIds -> Nat]
    /\ dailyPnl \in [AgentIds -> Int] /\ lifetimePnl \in [AgentIds -> Int]
    /\ keeperBounty \in (0 .. MAX_BPS) \X Nat /\ keeperUsdc \in [Vaults -> Nat]
    /\ \A counter \in {tradeCount, positionsOpened, positionsClosed, lifetimeTurnover, peakEquity} :
          counter \in [AgentIds -> Nat]

\* The cost of an agent's open positions, and a step that commits more of it.
Deployed(a) ==
    SumFunctionOnSet([id \in PositionIds |-> positions[id].usdcCostBasis],
                     {id \in PositionIds : positions[id].agentId = a})
Deploys(a) ==
    \/ \E id \in PositionIds : /\ positions[id].agentId = a
                               /\ positions'[id].usdcCostBasis > positions[id].usdcCostBasis
    \/ \E id \in DOMAIN positions' \ PositionIds : positions'[id].agentId = a

\* The tokens that positions hold in a vault, the USDC a vault has in its positions
\* and has not got back, and the PnL that an agent's positions have realized.
Held(v, t) ==
    SumFunctionOnSet([id \in PositionIds |-> positions[id].tokenAmount],
                     {id \in PositionIds : positions[id].vault = v /\ positions[id].token = t})
Outlay(v) ==
    SumFunctionOnSet(
        [id \in PositionIds |-> positions[id].usdcCostBasis - positions[id].realizedPnlUsdc],
        {id \in PositionIds : positions[id].vault = v})
Realized(a) ==
    SumFunctionOnSet([id \in PositionIds |-> positions[id].realizedPnlUsdc],
                     {id \in PositionIds : positions[id].agentId = a})

\* AllocationManager's used, kept by read-modify-write in three handlers, is the
\* cost of the agent's open positions: partial exits release exactly the share
\* the position gives up, so no budget leaks and `allocation.used - usdcReleased`
\* never underflows.  (The operator's setAllocationUsed may break it.)
UsedIsCostBasis == \A a \in AgentIds : allocations[a].used = Deployed(a)

\* Each vault holds the tokens of the positions opened from it, so the ledger that
\* agents share is covered vault by vault, not only in the total that
\* _assertLedgerInvariant compares.
InventoryBacksPositions == \A v \in Vaults, t \in Tokens : tokenBalance[v][t] = Held(v, t)

\* A vault's cash is what liquidity providers put in, less what is deployed, plus
\* what its positions have realized, less the bounties: no USDC appears or is
\* lost between the position ledger, the PnL accounting and the vault.
CashConserved == \A v \in Vaults : idleAssets[v] + Outlay(v) = lpUsdc[v] - keeperUsdc[v]

\* The router's lifetime PnL of an agent is the sum over its positions, open and
\* closed: ladder exits, reduces and force-closes each record it exactly once in
\* both contracts.
PnlIsSum == \A a \in AgentIds : lifetimePnl[a] = Realized(a)

\* The lens agrees with the ledger although it only sees one callback per trade:
\* opened minus closed is the number of open positions, each trade counts once.
LensCountsOpen ==
    LensSet => \A a \in AgentIds :
      /\ positionsOpened[a] - positionsClosed[a] = Len(openPositionIdsByAgent[a])
      /\ positionsOpened[a] = Cardinality({id \in PositionIds : positions[id].agentId = a})
      /\ tradeCount[a] >= positionsOpened[a] + positionsClosed[a]

\* An agent in a terminal status has no open position, through any order of
\* trades, status changes and promotions: setAgentStatus cannot strand capital.
TerminalHasNoExposure ==
    \A id \in OpenIds : ~IsTerminal(agents[positions[id].agentId].status)

\* Pause matrix and budget, for every path by which capital is deployed: only for
\* an Active agent, with the registry and the vault's trading unpaused, inside
\* the cap, and never after today's realized loss has used up the loss limit.
DeployOnlyWhenPermitted ==
    [][\A a \in AgentIds : Deploys(a) =>
         /\ agents[a].status = "Active" /\ ~registryPaused /\ ~tradingPaused[vaultOf(a)]
         /\ allocations'[a].used <= allocations'[a].cap
         /\ LET limit == trackConfig(a).maxDailyLossBps
            IN  limit > 0 => \/ dailyPnl[a] >= 0
                             \/ -dailyPnl[a] * MAX_BPS < allocations[a].cap * limit]_protocolVars

\* Pause matrix for sales: a vault whose trading is paused gives up tokens only to
\* close the whole position of a suspended agent.
PausedVaultOnlyForceCloses ==
    [][\A id \in PositionIds :
         /\ positions'[id].tokenAmount < positions[id].tokenAmount
         /\ tradingPaused[positions[id].vault]
         => /\ agents[positions[id].agentId].status = "Suspended"
            /\ positions'[id].status = "Closed"]_protocolVars

\* "forceClose remains available when trading is paused so operators can flatten
\* suspended agents" (prd/03_technical_prd.md): the operator can close every open
\* position of a suspended agent in one transaction.
ForceCloseAvailable ==
    \A id \in OpenIds :
      agents[positions[id].agentId].status = "Suspended" => ENABLED ForceClose(id)

\* "The protocol monitors open positions and closes them automatically when ladder
\* rules trigger" (docs/agents/trade.mdx): a keeper can execute a triggered rule of
\* a vault that trades, whatever the agent, the operator and other keepers did.
TriggeredExitExecutable ==
    \A id \in OpenIds :
      LET p == positions[id]
      IN  fresh[p.token] /\ ~tradingPaused[p.vault]
          /\ IsTriggered(getNextExitRule(id), positionPnlBps(p))
          => ENABLED ExecuteExit(id)

\* Vaults of different mandates list the same assets (prd/landing_website), and the
\* validation checklist of position-intent-eip712.md depends on the agent's own
\* vault: an intent that passes it can be executed whatever other vaults hold.
OpenNeedsNoOtherVault ==
    \A a \in AgentIds, t \in Tokens, usdc \in TradeAmounts, maxSlippage \in Slippages,
       exits \in SignedLadders :
      /\ MayOpen(a, t, usdc, exits)
      /\ ~tradingPaused[vaultOf(a)] /\ usdc <= idleAssets[vaultOf(a)]
      /\ usdcToTokenAmount(usdc, t) > 0
      => ENABLED OpenPosition(a, t, usdc, maxSlippage, exits)
=============================================================================
