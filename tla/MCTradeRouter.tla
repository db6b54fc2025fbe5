---------------------------- MODULE MCTradeRouter ----------------------------
(***************************************************************************)
(* Small instances of TradeRouter.  A full environment at once is out of   *)
(* reach, so each specification below lets the trades run against one part *)
(* of it; the parts together are RouterNext.                               *)
(***************************************************************************)
EXTENDS TradeRouter, TLC

MCOneAgent == {1}
MCTwoAgents == {1, 2}

\* All agents on one vault; or, with two vaults, each on its own.
SharedVault == {[a \in AgentIds |-> v] : v \in Vaults}
AnyVaults == [AgentIds -> Vaults]

\* A stop at half the entry price and a take-profit at half above it; among what an
\* agent may sign are ladders that do not end in a sale of everything or whose
\* stops rise.
StopAll == [triggerType |-> "StopLoss", triggerBps |-> -5000, exitBps |-> MAX_BPS]
StopDeep == [triggerType |-> "StopLoss", triggerBps |-> -6000, exitBps |-> MAX_BPS]
TakeHalf == [triggerType |-> "TakeProfit", triggerBps |-> 5000, exitBps |-> 5000]
ValidLadders == {<<StopAll>>, <<TakeHalf, StopAll>>}
MCLadders == ValidLadders \cup {<<TakeHalf>>, <<StopDeep, StopAll>>}
OneLadder == {<<StopAll>>}

\* Trade size up to the whole vault; no daily limits.
Policy(cap) == [UnsetConfig EXCEPT !.initialAllocation = cap, !.maxAllocation = cap,
                                   !.maxTradeSizeBps = MAX_BPS, !.active = TRUE]
NoLimits == [v \in Vaults |-> [k \in Track |-> Policy(4)]]
\* A quarter of the cap may be lost in a day; a promotion halves the cap.
LossLimit == [v \in Vaults |-> [k \in Track |->
                [Policy(4) EXCEPT !.maxDailyLossBps = 2500]]]
ShrinkingCap == [v \in Vaults |-> [k \in Track |-> Policy(IF k = CHALLENGE THEN 4 ELSE 1)]]
InactiveTrack == {[Policy(4) EXCEPT !.active = FALSE]}

PmAmounts == 0 .. 4
PmPnls == -4 .. 4
CappedBounty == {<<5000, 1>>}

-----------------------------------------------------------------------------
(* The parts of the environment. *)

PriceStep == OracleStep /\ fresh' = [t \in Tokens |-> TRUE]
BountyStep == \E bounty \in Bounties : SetKeeperBounty(bounty)

\* The ledger: every trade, prices and bounties.
LedgerNext == Trade \/ PriceStep \/ BountyStep
LedgerSpec == RouterInit /\ [][LedgerNext]_protocolVars

\* Permissions: status, promotion, pauses, policy, and the calendar.
PauseStep ==
    /\ \E v \in Vaults, paused \in BOOLEAN : setTradingPaused(v, paused)
    /\ UNCHANGED <<registryVars, pmVars, lensVars, tokenVars, routerVars>>
PermissionNext == Trade \/ GovernanceStep \/ PauseStep \/ PriceStep \/ NextDay
PermissionSpec == RouterInit /\ [][PermissionNext]_protocolVars

\* The market: vault and token administration, liquidity, prices and staleness.
MarketNext == Trade \/ VaultStep \/ LiquidityStep \/ TokenStep \/ OracleStep
MarketSpec == RouterInit /\ [][MarketNext]_protocolVars

VaultSymmetry == Permutations(Vaults)
TokenSymmetry == Permutations(Tokens)
=============================================================================
