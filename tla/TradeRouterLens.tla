-------------------------- MODULE TradeRouterLens --------------------------
(***************************************************************************)
(* contracts/src/core/TradeRouterLens.sol: per-agent statistics that the   *)
(* router updates at the end of each trade, in the same transaction.  A    *)
(* revert of the hook (the price of any token the agent still holds is     *)
(* stale) reverts the trade.                                               *)
(***************************************************************************)
EXTENDS TokenRegistry, FiniteSetsExt, Functions

CONSTANT LensSet   \* setLens has been called (FALSE: lens == address(0))

VARIABLES tradeCount, positionsOpened, positionsClosed,
          lifetimeTurnover,   \* _lifetimeTurnoverUsdc
          peakEquity          \* _peakEquityUsdc

lensVars == <<tradeCount, positionsOpened, positionsClosed, lifetimeTurnover, peakEquity>>

ASSUME LensAssumption == LensSet \in BOOLEAN

LensInit ==
    /\ tradeCount = [a \in AgentIds |-> 0]
    /\ positionsOpened = [a \in AgentIds |-> 0]
    /\ positionsClosed = [a \in AgentIds |-> 0]
    /\ lifetimeTurnover = [a \in AgentIds |-> 0]
    /\ peakEquity = [a \in AgentIds |-> 0]

\* _positionUnrealizedPnlUsdc of an open position.
unrealizedPnl(p) == valueInAsset(p.tokenAmount, p.token) - p.usdcCostBasis

\* _currentEquityUsdc, over the open positions the trade leaves behind.
equity(cap, realizedPnl, open) ==
    Max({0, cap + realizedPnl + SumFunction([p \in open |-> unrealizedPnl(p)])})

Bump(counter, a, by) == [counter EXCEPT ![a] = @ + by]

\* onTrade; equityNow is _currentEquityUsdc after the trade and canEquity says
\* that every price it needs is fresh.
onTrade(a, turnover, opened, closed, canEquity, equityNow) ==
    /\ canEquity
    /\ tradeCount' = Bump(tradeCount, a, 1)
    /\ positionsOpened' = Bump(positionsOpened, a, IF opened THEN 1 ELSE 0)
    /\ positionsClosed' = Bump(positionsClosed, a, IF closed THEN 1 ELSE 0)
    /\ lifetimeTurnover' = Bump(lifetimeTurnover, a, turnover)
    /\ peakEquity' = [peakEquity EXCEPT ![a] = Max({@, equityNow})]
=============================================================================
