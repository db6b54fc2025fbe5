-------------------------- MODULE PositionManager --------------------------
(***************************************************************************)
(* contracts/src/core/PositionManager.sol: the positions of every agent    *)
(* and the token ledger that shares a vault's inventory between them.      *)
(*                                                                         *)
(* One operator per external function, with the function's arguments; a    *)
(* revert is a false guard, arithmetic underflow included (Solidity 0.8).  *)
(* Position ids count from 1, so positions and exitRules are sequences and *)
(* _nextPositionId is Len(positions) + 1.  The functions are onlyTrade-    *)
(* Router, and the router calls them only with ids that getPosition has    *)
(* returned, so ids range over DOMAIN positions.                           *)
(*                                                                         *)
(* Next is the most general client that keeps the router's calling         *)
(* contract (CallOpen ... CallUpdateRules); module TradeRouter conjoins    *)
(* the same operators with the rest of each transaction.                   *)
(***************************************************************************)
EXTENDS ProtocolTypes, Functions

CONSTANTS Amounts,        \* token and USDC quantities of a call and of a position
          PnlDeltas,      \* signed realized PnL of one sale
          EntryPrices,    \* average entry prices the router computes
          Slippages,      \* maxSlippageBps values an agent signs
          Ladders,        \* exit ladders that pass _validateExitRules
          MaxExitRules,   \* the router's MAX_EXIT_RULES (5 in the code)
          Ids,            \* position ids the client may reach, a bound for TLC
          Pnls            \* realized PnL a position may reach, a bound for TLC

VARIABLES positions,               \* _positions
          exitRules,               \* _exitRules
          agentTokenBalance,       \* _agentTokenBalance
          openPositionId,          \* _openPositionId, 0 when there is none
          openPositionIdsByAgent,  \* _openPositionIdsByAgent
          totalTokenLedger         \* _totalTokenLedger

pmVars == <<positions, exitRules, agentTokenBalance, openPositionId,
            openPositionIdsByAgent, totalTokenLedger>>

ASSUME PMAssumption ==
    /\ Amounts \subseteq Nat
    /\ PnlDeltas \subseteq Int
    /\ EntryPrices \subseteq Nat
    /\ Slippages \subseteq Nat
    /\ MaxExitRules \in Nat
    /\ Ladders \subseteq Seq(ExitRule)
    /\ \A ladder \in Ladders : Len(ladder) > 0 /\ ladder[Len(ladder)].exitBps = MAX_BPS

Position ==
    [agentId : AgentIds, vault : Vaults, token : Tokens, tokenAmount : Nat,
     entryPriceUsdc : Nat, usdcCostBasis : Nat, maxSlippageBps : Nat,
     status : PositionStatus, nextRuleIndex : Nat, realizedPnlUsdc : Int]

PositionIds == DOMAIN positions
IsOpen(id) == positions[id].status = "Open"
OpenIds == {id \in PositionIds : IsOpen(id)}

PMInit ==
    /\ positions = <<>>
    /\ exitRules = <<>>
    /\ agentTokenBalance = [a \in AgentIds |-> [t \in Tokens |-> 0]]
    /\ openPositionId = [a \in AgentIds |-> [t \in Tokens |-> 0]]
    /\ openPositionIdsByAgent = [a \in AgentIds |-> <<>>]
    /\ totalTokenLedger = [t \in Tokens |-> 0]

-----------------------------------------------------------------------------
(* The external functions. *)

\* exits pushed to the storage of a new position.
StoreNoRules(exits) == UNCHANGED exitRules
storeRules(exits) == exitRules' = Append(exitRules, exits)

\* Both ledgers move together.
CreditAgentOnly(a, t, amount) ==
    /\ agentTokenBalance' = [agentTokenBalance EXCEPT ![a][t] = @ + amount]
    /\ UNCHANGED totalTokenLedger
creditTokens(a, t, amount) ==
    /\ agentTokenBalance' = [agentTokenBalance EXCEPT ![a][t] = @ + amount]
    /\ totalTokenLedger' = [totalTokenLedger EXCEPT ![t] = @ + amount]

\* openPosition after its check.
recordPosition(a, v, t, tokenAmount, entryPrice, usdcCostBasis, maxSlippage, exits) ==
    LET id == Len(positions) + 1
    IN  /\ positions' = Append(positions,
             [agentId |-> a, vault |-> v, token |-> t, tokenAmount |-> tokenAmount,
              entryPriceUsdc |-> entryPrice, usdcCostBasis |-> usdcCostBasis,
              maxSlippageBps |-> maxSlippage, status |-> "Open",
              nextRuleIndex |-> 0, realizedPnlUsdc |-> 0])
        /\ storeRules(exits)
        /\ creditTokens(a, t, tokenAmount)
        /\ openPositionId' = [openPositionId EXCEPT ![a][t] = id]
        /\ openPositionIdsByAgent' = [openPositionIdsByAgent EXCEPT ![a] = Append(@, id)]

openPosition(a, v, t, tokenAmount, entryPrice, usdcCostBasis, maxSlippage, exits) ==
    /\ openPositionId[a][t] = 0
    /\ recordPosition(a, v, t, tokenAmount, entryPrice, usdcCostBasis, maxSlippage, exits)

\* getNextExitRule: InvalidExitState when the ladder is exhausted.
HasNextExitRule(id) == positions[id].nextRuleIndex < Len(exitRules[id])
getNextExitRule(id) == exitRules[id][positions[id].nextRuleIndex + 1]

\* _reducePositionSize, called with the ladder step the caller leaves behind.
reducePositionSize(id, tokenSold, usdcReleased, pnlDelta, ruleIndex) ==
    LET p == positions[id]
        closes == p.tokenAmount = tokenSold
    IN  /\ tokenSold <= p.tokenAmount
        /\ usdcReleased <= p.usdcCostBasis
        /\ tokenSold <= agentTokenBalance[p.agentId][p.token]
        /\ tokenSold <= totalTokenLedger[p.token]
        /\ positions' = [positions EXCEPT ![id] =
             [p EXCEPT !.tokenAmount = @ - tokenSold,
                       !.usdcCostBasis = @ - usdcReleased,
                       !.realizedPnlUsdc = @ + pnlDelta,
                       !.nextRuleIndex = ruleIndex,
                       !.status = IF closes THEN "Closed" ELSE @]]
        /\ agentTokenBalance' = [agentTokenBalance EXCEPT ![p.agentId][p.token] = @ - tokenSold]
        /\ totalTokenLedger' = [totalTokenLedger EXCEPT ![p.token] = @ - tokenSold]
        /\ openPositionId' = IF closes
                             THEN [openPositionId EXCEPT ![p.agentId][p.token] = 0]
                             ELSE openPositionId
        /\ openPositionIdsByAgent' =
             IF closes
             THEN [openPositionIdsByAgent EXCEPT ![p.agentId] = SwapAndPop(@, id)]
             ELSE openPositionIdsByAgent
        /\ UNCHANGED exitRules

applyLadderExit(id, tokenSold, usdcReleased, pnlDelta) ==
    /\ IsOpen(id)
    /\ HasNextExitRule(id)
    /\ reducePositionSize(id, tokenSold, usdcReleased, pnlDelta,
                          positions[id].nextRuleIndex + 1)

\* A discretionary sale leaves the ladder where it is.
ReduceThatSkipsRule(id, tokenSold, usdcReleased, pnlDelta) ==
    /\ IsOpen(id)
    /\ reducePositionSize(id, tokenSold, usdcReleased, pnlDelta,
                          positions[id].nextRuleIndex + 1)
applyDiscretionaryReduce(id, tokenSold, usdcReleased, pnlDelta) ==
    /\ IsOpen(id)
    /\ reducePositionSize(id, tokenSold, usdcReleased, pnlDelta, positions[id].nextRuleIndex)

increasePosition(id, tokensAdded, usdcAdded, maxSlippage, newEntryPrice) ==
    LET p == positions[id]
    IN  /\ IsOpen(id)
        /\ positions' = [positions EXCEPT ![id] =
             [p EXCEPT !.tokenAmount = @ + tokensAdded,
                       !.usdcCostBasis = @ + usdcAdded,
                       !.entryPriceUsdc = newEntryPrice,
                       !.maxSlippageBps = IF maxSlippage > @ THEN maxSlippage ELSE @]]
        /\ creditTokens(p.agentId, p.token, tokensAdded)
        /\ UNCHANGED <<exitRules, openPositionId, openPositionIdsByAgent>>

\* The rules below nextRuleIndex, which updatePendingExitRules does not pop.
NoRuleKept(id) == <<>>
consumedRules(id) == SubSeq(exitRules[id], 1, positions[id].nextRuleIndex)

updatePendingExitRules(id, newPendingRules) ==
    /\ IsOpen(id)
    /\ Len(newPendingRules) > 0
    /\ exitRules' = [exitRules EXCEPT ![id] = consumedRules(id) \o newPendingRules]
    /\ UNCHANGED <<positions, agentTokenBalance, openPositionId,
                   openPositionIdsByAgent, totalTokenLedger>>

-----------------------------------------------------------------------------
(* The contract under which the router calls them (_openPosition,          *)
(* _addToPosition, _sell): a swap that yields no token reverts, a sale is  *)
(* never empty, the released cost is the floor of the sold share, and a    *)
(* rule of MAX_BPS sells everything that is left.                          *)

CallOpen(a, v, t, tokenAmount, entryPrice, usdc, maxSlippage, exits) ==
    /\ Len(positions) + 1 \in Ids
    /\ tokenAmount > 0 /\ usdc > 0
    /\ openPosition(a, v, t, tokenAmount, entryPrice, usdc, maxSlippage, exits)

SaleRoundedUp(id, tokenSold, usdcReleased) ==
    /\ 0 < tokenSold /\ tokenSold <= positions[id].tokenAmount
    /\ 0 <= usdcReleased /\ usdcReleased <= positions[id].usdcCostBasis
Sale(id, tokenSold, usdcReleased) ==
    LET p == positions[id]
    IN  /\ 0 < tokenSold /\ tokenSold <= p.tokenAmount
        /\ 0 <= usdcReleased /\ usdcReleased <= p.usdcCostBasis
        /\ usdcReleased = p.usdcCostBasis <=> tokenSold = p.tokenAmount

PnlBounded(id, pnlDelta) ==
    positions[id].realizedPnlUsdc + pnlDelta \in Pnls

CallLadderExit(id, tokenSold, usdcReleased, pnlDelta) ==
    /\ PnlBounded(id, pnlDelta)
    /\ Sale(id, tokenSold, usdcReleased)
    /\ HasNextExitRule(id) /\ getNextExitRule(id).exitBps = MAX_BPS
         => tokenSold = positions[id].tokenAmount
    /\ applyLadderExit(id, tokenSold, usdcReleased, pnlDelta)

CallReduce(id, tokenSold, usdcReleased, pnlDelta) ==
    /\ PnlBounded(id, pnlDelta)
    /\ Sale(id, tokenSold, usdcReleased)
    /\ applyDiscretionaryReduce(id, tokenSold, usdcReleased, pnlDelta)

CallIncrease(id, tokensAdded, usdcAdded, maxSlippage, newEntryPrice) ==
    /\ positions[id].tokenAmount + tokensAdded \in Amounts
    /\ positions[id].usdcCostBasis + usdcAdded \in Amounts
    /\ increasePosition(id, tokensAdded, usdcAdded, maxSlippage, newEntryPrice)

CallUpdateRules(id, newPendingRules) ==
    /\ positions[id].nextRuleIndex + Len(newPendingRules) <= MaxExitRules
    /\ updatePendingExitRules(id, newPendingRules)

PMNext ==
    \/ \E a \in AgentIds, v \in Vaults, t \in Tokens, tokenAmount, usdc \in Amounts,
          entryPrice \in EntryPrices, maxSlippage \in Slippages, exits \in Ladders :
          CallOpen(a, v, t, tokenAmount, entryPrice, usdc, maxSlippage, exits)
    \/ \E id \in PositionIds, tokenSold, usdcReleased \in Amounts, pnlDelta \in PnlDeltas :
          \/ CallLadderExit(id, tokenSold, usdcReleased, pnlDelta)
          \/ CallReduce(id, tokenSold, usdcReleased, pnlDelta)
    \/ \E id \in PositionIds, tokensAdded, usdcAdded \in Amounts,
          entryPrice \in EntryPrices, maxSlippage \in Slippages :
          CallIncrease(id, tokensAdded, usdcAdded, maxSlippage, entryPrice)
    \/ \E id \in PositionIds, newPendingRules \in Ladders : CallUpdateRules(id, newPendingRules)

PMSpec == PMInit /\ [][PMNext]_pmVars

-----------------------------------------------------------------------------
(* Properties. *)

\* The types of the contract's storage.
PMTypeOK ==
    /\ positions \in Seq(Position)
    /\ exitRules \in Seq(Seq(ExitRule))
    /\ Len(exitRules) = Len(positions)
    /\ agentTokenBalance \in [AgentIds -> [Tokens -> Nat]]
    /\ openPositionId \in [AgentIds -> [Tokens -> Nat]]
    /\ openPositionIdsByAgent \in [AgentIds -> Seq(Nat)]
    /\ totalTokenLedger \in [Tokens -> Nat]

\* _openPositionId is the inverse of the open positions: a non-zero entry names
\* an open position of that agent and token, and every open position is named,
\* so an agent never has two open positions in one token.
OnePositionPerToken ==
    /\ \A a \in AgentIds, t \in Tokens : openPositionId[a][t] # 0 =>
          /\ openPositionId[a][t] \in OpenIds
          /\ positions[openPositionId[a][t]].agentId = a
          /\ positions[openPositionId[a][t]].token = t
    /\ \A id \in OpenIds : openPositionId[positions[id].agentId][positions[id].token] = id

\* The swap-and-pop array of an agent lists each of its open positions once and
\* nothing else, whatever the order of opens and closes.
OpenIndexExact ==
    \A a \in AgentIds :
      LET ids == openPositionIdsByAgent[a]
      IN  /\ \A i \in DOMAIN ids : ids[i] \in OpenIds /\ positions[ids[i]].agentId = a
          /\ \A i, j \in DOMAIN ids : ids[i] = ids[j] => i = j
          /\ \A id \in OpenIds : positions[id].agentId = a => \E i \in DOMAIN ids : ids[i] = id

\* The token ledger of an agent is what its open position holds: a closed
\* position leaves no tokens behind and none are credited without a position.
BalanceIsPosition ==
    \A a \in AgentIds, t \in Tokens :
      agentTokenBalance[a][t] = IF openPositionId[a][t] = 0 THEN 0
                                ELSE positions[openPositionId[a][t]].tokenAmount

\* A position is open exactly while it holds tokens, and its cost basis is
\* exhausted exactly when its tokens are: no cost is stranded in a closed
\* position and no tokens ride free of cost in an open one.
OpenIffFunded ==
    \A id \in PositionIds :
      /\ IsOpen(id) <=> positions[id].tokenAmount > 0
      /\ IsOpen(id) <=> positions[id].usdcCostBasis > 0

\* An open position always has a next exit rule, and its ladder still ends in a
\* rule that sells everything: getNextExitRule never answers InvalidExitState.
LadderNeverExhausted ==
    \A id \in OpenIds : /\ HasNextExitRule(id)
                        /\ exitRules[id][Len(exitRules[id])].exitBps = MAX_BPS

\* totalTokenLedger is, as IPositionManager says, the sum of all agent balances of
\* the token, so the ledger check of the router bounds what every agent can claim.
TotalLedgerIsSum ==
    \A t \in Tokens :
      totalTokenLedger[t] = SumFunction([a \in AgentIds |-> agentTokenBalance[a][t]])

\* The rules a position has already consumed are never rewritten, a closed
\* position never changes again, and the ladder never steps back: what
\* PositionLadderExitApplied and PositionClosed reported stays true.
PastKept(id) ==
    /\ positions[id].status = "Closed" => positions'[id] = positions[id]
    /\ positions'[id].nextRuleIndex >= positions[id].nextRuleIndex
    /\ \A i \in 1 .. positions[id].nextRuleIndex : exitRules'[id][i] = exitRules[id][i]

HistoryFrozen == [][\A id \in PositionIds : PastKept(id)]_pmVars
=============================================================================
