---------------------------- MODULE MandateVault ----------------------------
(***************************************************************************)
(* contracts/src/vaults/MandateVault.sol as the trade router sees it: idle *)
(* USDC, token inventory, the mandate's token list, the trading pause and  *)
(* totalAssets.  The ERC-4626 shares are not read by trading; liquidity    *)
(* providers appear as the net USDC they move (depositIdle, withdrawIdle). *)
(***************************************************************************)
EXTENDS TokenRegistry, Functions

VARIABLES idleAssets,     \* USDC balance of each vault
          tokenBalance,   \* token balances of each vault
          mandateToken,   \* _tokenListed and _tokenEnabled
          tradingPaused,
          lpUsdc          \* external: net USDC put in by liquidity providers

inventoryVars == <<idleAssets, tokenBalance>>
vaultVars == <<inventoryVars, mandateToken, tradingPaused, lpUsdc>>

isAllowedToken(v, t) == mandateToken[v][t] = "Enabled" /\ isTokenActive(t)

-----------------------------------------------------------------------------
(* totalAssets values the enabled, active tokens it holds and skips the     *)
(* others; it reverts when one of those prices is stale.                    *)

countedBalance(v, t) == IF isAllowedToken(v, t) THEN tokenBalance[v][t] ELSE 0
canTotalAssets(v) == \A t \in Tokens : canValue(countedBalance(v, t), t)
totalAssets(v) ==
    idleAssets[v] + SumFunction([t \in Tokens |-> valueInAsset(countedBalance(v, t), t)])

-----------------------------------------------------------------------------
(* The router's pulls, each with the swap that answers it.                  *)

\* pullAssetsForTrade, then the adapter credits the bought tokens.
settleBuy(v, t, usdcIn, tokenOut) ==
    /\ idleAssets' = [idleAssets EXCEPT ![v] = @ - usdcIn]
    /\ tokenBalance' = [tokenBalance EXCEPT ![v][t] = @ + tokenOut]
    /\ UNCHANGED <<mandateToken, tradingPaused, lpUsdc>>
buyForTrade(v, t, usdcIn, tokenOut) ==
    ~tradingPaused[v] /\ usdcIn <= idleAssets[v] /\ settleBuy(v, t, usdcIn, tokenOut)

\* pullTokenForTrade or pullTokenForForceClose, the adapter's USDC, and the
\* keeper's bounty paid from it with pullAssetsForTrade.  _pullToken looks at the
\* mandate's list and not at the registry's active flag.
GrossProceeds(usdcOut, bounty) == usdcOut
netProceeds(usdcOut, bounty) == usdcOut - bounty
TokenNotPulled(v, t, tokenIn) == UNCHANGED tokenBalance
pullToken(v, t, tokenIn) ==
    /\ mandateToken[v][t] = "Enabled"
    /\ tokenIn <= tokenBalance[v][t]
    /\ tokenBalance' = [tokenBalance EXCEPT ![v][t] = @ - tokenIn]
settleSell(v, t, tokenIn, usdcOut, bounty, force) ==
    /\ pullToken(v, t, tokenIn)
    /\ idleAssets' = [idleAssets EXCEPT ![v] = @ + netProceeds(usdcOut, bounty)]
    /\ UNCHANGED <<mandateToken, tradingPaused, lpUsdc>>
SellUnlessPaused(v, t, tokenIn, usdcOut, bounty, force) ==
    ~tradingPaused[v] /\ settleSell(v, t, tokenIn, usdcOut, bounty, force)
sellForTrade(v, t, tokenIn, usdcOut, bounty, force) ==
    (force \/ ~tradingPaused[v]) /\ settleSell(v, t, tokenIn, usdcOut, bounty, force)

-----------------------------------------------------------------------------
(* Administration and liquidity. *)

enableToken(v, t) ==
    /\ mandateToken[v][t] = "Unlisted"
    /\ isTokenActive(t)
    /\ mandateToken' = [mandateToken EXCEPT ![v][t] = "Enabled"]
    /\ UNCHANGED <<inventoryVars, tradingPaused, lpUsdc>>

setTokenEnabled(v, t, enabled) ==
    /\ mandateToken[v][t] # "Unlisted"
    /\ enabled => isTokenActive(t)
    /\ mandateToken' = [mandateToken EXCEPT ![v][t] = IF enabled THEN "Enabled" ELSE "Disabled"]
    /\ UNCHANGED <<inventoryVars, tradingPaused, lpUsdc>>

setTradingPaused(v, paused) ==
    /\ tradingPaused' = [tradingPaused EXCEPT ![v] = paused]
    /\ UNCHANGED <<inventoryVars, mandateToken, lpUsdc>>

\* Share prices need totalAssets, so neither works while it reverts; a withdrawal
\* is paid from idle USDC only.
depositIdle(v, usdc) ==
    /\ canTotalAssets(v)
    /\ idleAssets' = [idleAssets EXCEPT ![v] = @ + usdc]
    /\ lpUsdc' = [lpUsdc EXCEPT ![v] = @ + usdc]
    /\ UNCHANGED <<tokenBalance, mandateToken, tradingPaused>>

withdrawIdle(v, usdc) ==
    /\ canTotalAssets(v)
    /\ usdc <= idleAssets[v]
    /\ idleAssets' = [idleAssets EXCEPT ![v] = @ - usdc]
    /\ lpUsdc' = [lpUsdc EXCEPT ![v] = @ - usdc]
    /\ UNCHANGED <<tokenBalance, mandateToken, tradingPaused>>
=============================================================================
