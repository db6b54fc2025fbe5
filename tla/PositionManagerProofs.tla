----------------------- MODULE PositionManagerProofs -----------------------
(***************************************************************************)
(* For every set of agents, vaults, tokens, amounts and ladders, and for   *)
(* every bound, the books of PositionManager agree with each other.  The   *)
(* lemmas OpenKeeps ... UpdateRulesKeeps are stated about one call of each *)
(* handler, so that a composition (TradeRouter) can cite them as well.     *)
(***************************************************************************)
EXTENDS PositionManager, DataProofs

\* The conjunction that is inductive: each part needs some of the others.
PMInv == /\ PMTypeOK
         /\ OnePositionPerToken
         /\ OpenIndexExact
         /\ BalanceIsPosition
         /\ OpenIffFunded
         /\ LadderNeverExhausted
         /\ TotalLedgerIsSum

\* One agent's balance of a token and the ledger of the token move by the same amount.
LEMMA LedgerMoves ==
    ASSUME PMTypeOK, TotalLedgerIsSum, NEW a \in AgentIds, NEW t \in Tokens,
           NEW x \in Nat, NEW y \in Nat,
           y - totalTokenLedger[t] = x - agentTokenBalance[a][t],
           agentTokenBalance' = [agentTokenBalance EXCEPT ![a][t] = x],
           totalTokenLedger' = [totalTokenLedger EXCEPT ![t] = y]
    PROVE  TotalLedgerIsSum'
<1> DEFINE B(u) == [b \in AgentIds |-> agentTokenBalance[b][u]]
           C(u) == [b \in AgentIds |-> agentTokenBalance'[b][u]]
<1>1. /\ agentTokenBalance \in [AgentIds -> [Tokens -> Nat]]
      /\ totalTokenLedger \in [Tokens -> Nat]
  BY DEF PMTypeOK
<1>2. SUFFICES ASSUME NEW u \in Tokens
               PROVE  totalTokenLedger'[u] = SumFunctionOnSet(C(u), AgentIds)
  BY DEF TotalLedgerIsSum, SumFunction
<1>3. totalTokenLedger[u] = SumFunctionOnSet(B(u), AgentIds)
  BY DEF TotalLedgerIsSum, SumFunction
<1>4. \A b \in AgentIds : /\ B(u)[b] = agentTokenBalance[b][u]
                          /\ C(u)[b] = agentTokenBalance'[b][u]
                          /\ B(u)[b] \in Int /\ C(u)[b] \in Int
                          /\ b # a \/ u # t => C(u)[b] = B(u)[b]
                          /\ u = t => C(u)[a] = x
  BY <1>1
<1>5. IsFiniteSet(AgentIds)
  BY IdentitiesAssumption
<1> HIDE DEF B, C
<1>6. CASE u # t
  <2>1. SumFunctionOnSet(B(u), AgentIds) = SumFunctionOnSet(C(u), AgentIds)
    BY <1>4, <1>5, <1>6, SumSame
  <2> QED
    BY <1>1, <1>3, <1>6, <2>1
<1>7. CASE u = t
  <2>1. SumFunctionOnSet(C(u), AgentIds) =
          SumFunctionOnSet(B(u), AgentIds) + (C(u)[a] - B(u)[a])
    BY <1>4, <1>5, <1>7, SumChange
  <2>2. totalTokenLedger'[u] = y
    BY <1>1, <1>7
  <2> QED
    BY <1>1, <1>3, <1>4, <1>7, <2>1, <2>2
<1> QED
  BY <1>6, <1>7

-----------------------------------------------------------------------------
(* The handlers. *)

LEMMA InitHolds == PMInit => PMInv
<1> SUFFICES ASSUME PMInit PROVE PMInv
  OBVIOUS
<1>1. /\ PMTypeOK /\ OnePositionPerToken /\ OpenIndexExact /\ BalanceIsPosition
      /\ OpenIffFunded /\ LadderNeverExhausted
  BY DEF PMInit, PMTypeOK, OnePositionPerToken, OpenIndexExact, BalanceIsPosition,
         OpenIffFunded, LadderNeverExhausted, OpenIds, PositionIds, Position
<1>2. TotalLedgerIsSum
  <2> SUFFICES ASSUME NEW t \in Tokens
               PROVE  totalTokenLedger[t] =
                        SumFunctionOnSet([a \in AgentIds |-> agentTokenBalance[a][t]], AgentIds)
    BY DEF TotalLedgerIsSum, SumFunction
  <2> DEFINE B == [a \in AgentIds |-> agentTokenBalance[a][t]]
  <2>1. \A a \in AgentIds : B[a] = 0
    BY DEF PMInit
  <2>2. IsFiniteSet(AgentIds) /\ 0 * Cardinality(AgentIds) = 0
    BY IdentitiesAssumption, FS_CardinalityType
  <2> HIDE DEF B
  <2>3. SumFunctionOnSet(B, AgentIds) = 0
    BY <2>1, <2>2, SumConstant
  <2> QED
    BY <2>3 DEF PMInit, B
<1> QED
  BY <1>1, <1>2 DEF PMInv

LEMMA OpenKeeps ==
    ASSUME PMInv,
           NEW a \in AgentIds, NEW v \in Vaults, NEW t \in Tokens,
           NEW amt \in Nat, amt > 0, NEW usdc \in Nat, usdc > 0,
           NEW price \in Nat, NEW slip \in Nat,
           NEW exits \in Seq(ExitRule), Len(exits) > 0, exits[Len(exits)].exitBps = MAX_BPS,
           openPosition(a, v, t, amt, price, usdc, slip, exits)
    PROVE  PMInv'
<1> DEFINE n == Len(positions) + 1
           p == [agentId |-> a, vault |-> v, token |-> t, tokenAmount |-> amt,
                 entryPriceUsdc |-> price, usdcCostBasis |-> usdc,
                 maxSlippageBps |-> slip, status |-> "Open",
                 nextRuleIndex |-> 0, realizedPnlUsdc |-> 0]
<1>1. p \in Position
  BY DEF Position, PositionStatus
<1>2. /\ positions \in Seq(Position) /\ exitRules \in Seq(Seq(ExitRule))
      /\ Len(exitRules) = Len(positions)
  BY DEF PMInv, PMTypeOK
<1>3. /\ positions' = Append(positions, p) /\ exitRules' = Append(exitRules, exits)
      /\ openPositionId[a][t] = 0
      /\ openPositionId' = [openPositionId EXCEPT ![a][t] = n]
      /\ agentTokenBalance' = [agentTokenBalance EXCEPT ![a][t] = @ + amt]
      /\ totalTokenLedger' = [totalTokenLedger EXCEPT ![t] = @ + amt]
      /\ openPositionIdsByAgent' = [openPositionIdsByAgent EXCEPT ![a] = Append(@, n)]
  BY DEF openPosition, recordPosition, storeRules, creditTokens
<1>4. /\ n \in Nat /\ n > 0 /\ n \notin DOMAIN positions /\ DOMAIN exitRules = DOMAIN positions
      /\ positions' \in Seq(Position) /\ DOMAIN positions' = DOMAIN positions \cup {n}
      /\ positions'[n] = p
      /\ \A id \in DOMAIN positions : positions'[id] = positions[id]
  BY <1>1, <1>2, <1>3, AppendFacts
<1>5. /\ exitRules' \in Seq(Seq(ExitRule)) /\ Len(exitRules') = Len(positions')
      /\ exitRules'[n] = exits
      /\ \A id \in DOMAIN positions : exitRules'[id] = exitRules[id]
  BY <1>1, <1>2, <1>3, AppendFacts
<1> HIDE DEF p, n
<1>6. p.agentId = a /\ p.token = t /\ p.status = "Open" /\ p.tokenAmount = amt
      /\ p.usdcCostBasis = usdc /\ p.nextRuleIndex = 0
  BY DEF p
<1>7. OpenIds' = OpenIds \cup {n}
  BY <1>4, <1>6 DEF OpenIds, PositionIds, IsOpen
<1>8. PMTypeOK'
  <2>1. agentTokenBalance' \in [AgentIds -> [Tokens -> Nat]]
    BY <1>3 DEF PMInv, PMTypeOK
  <2>2. openPositionId' \in [AgentIds -> [Tokens -> Nat]]
    BY <1>3, <1>4 DEF PMInv, PMTypeOK
  <2>3. totalTokenLedger' \in [Tokens -> Nat]
    BY <1>3 DEF PMInv, PMTypeOK
  <2>4. openPositionIdsByAgent' \in [AgentIds -> Seq(Nat)]
    <3>1. openPositionIdsByAgent[a] \in Seq(Nat)
      BY DEF PMInv, PMTypeOK
    <3>2. Append(openPositionIdsByAgent[a], n) \in Seq(Nat)
      BY <3>1, <1>4, AppendFacts
    <3> QED
      BY <3>2, <1>3 DEF PMInv, PMTypeOK
  <2> QED
    BY <1>4, <1>5, <2>1, <2>2, <2>3, <2>4 DEF PMTypeOK
<1>9. OnePositionPerToken'
  <2>1. \A b \in AgentIds, u \in Tokens :
          openPositionId'[b][u] = IF b = a /\ u = t THEN n ELSE openPositionId[b][u]
    BY <1>3 DEF PMInv, PMTypeOK
  <2>2. ASSUME NEW b \in AgentIds, NEW u \in Tokens, openPositionId'[b][u] # 0
        PROVE  /\ openPositionId'[b][u] \in OpenIds'
               /\ positions'[openPositionId'[b][u]].agentId = b
               /\ positions'[openPositionId'[b][u]].token = u
    <3>1. CASE b = a /\ u = t
      BY <3>1, <2>1, <1>4, <1>6, <1>7
    <3>2. CASE ~(b = a /\ u = t)
      BY <3>2, <2>1, <2>2, <1>4, <1>7 DEF PMInv, OnePositionPerToken, OpenIds, PositionIds
    <3> QED
      BY <3>1, <3>2
  <2>3. ASSUME NEW id \in OpenIds'
        PROVE  openPositionId'[positions'[id].agentId][positions'[id].token] = id
    <3>1. CASE id = n
      BY <3>1, <2>1, <1>4, <1>6
    <3>2. CASE id # n
      <4>1. id \in OpenIds /\ id \in DOMAIN positions /\ positions'[id] = positions[id]
        BY <3>2, <1>4, <1>7 DEF OpenIds, PositionIds
      <4>2. positions[id].agentId \in AgentIds /\ positions[id].token \in Tokens
        <5>1. positions[id] \in Position
          BY <4>1, <1>2
        <5> QED
          BY <5>1 DEF Position
      <4>3. openPositionId[positions[id].agentId][positions[id].token] = id /\ id # 0
        BY <4>1, <1>2 DEF PMInv, OnePositionPerToken
      <4> QED
        BY <4>1, <4>2, <4>3, <2>1, <1>3
    <3> QED
      BY <3>1, <3>2
  <2> QED
    BY <2>2, <2>3 DEF OnePositionPerToken
<1>10. OpenIndexExact'
  <2> SUFFICES ASSUME NEW b \in AgentIds
               PROVE  LET ids == openPositionIdsByAgent'[b]
                      IN  /\ \A i \in DOMAIN ids :
                                ids[i] \in OpenIds' /\ positions'[ids[i]].agentId = b
                          /\ \A i, j \in DOMAIN ids : ids[i] = ids[j] => i = j
                          /\ \A id \in OpenIds' : positions'[id].agentId = b
                               => \E i \in DOMAIN ids : ids[i] = id
    BY DEF OpenIndexExact
  <2> DEFINE old == openPositionIdsByAgent[b]
  <2>1. /\ old \in Seq(Nat)
        /\ \A i \in DOMAIN old : old[i] \in OpenIds /\ old[i] \in DOMAIN positions
                                 /\ positions[old[i]].agentId = b
        /\ \A i, j \in DOMAIN old : old[i] = old[j] => i = j
        /\ \A id \in OpenIds : positions[id].agentId = b => \E i \in DOMAIN old : old[i] = id
    BY DEF PMInv, PMTypeOK, OpenIndexExact, OpenIds, PositionIds
  <2>2. \A id \in OpenIds : id \in DOMAIN positions
    BY DEF OpenIds, PositionIds
  <2>3. CASE b # a
    <3>1. openPositionIdsByAgent'[b] = old
      BY <2>3, <1>3 DEF PMInv, PMTypeOK
    <3> QED
      BY <3>1, <2>1, <2>2, <2>3, <1>4, <1>6, <1>7
  <2>4. CASE b = a
    <3> DEFINE new == Append(old, n)
    <3>1. openPositionIdsByAgent'[b] = new
      BY <2>4, <1>3 DEF PMInv, PMTypeOK
    <3> HIDE DEF old
    <3>2. /\ DOMAIN new = DOMAIN old \cup {Len(old) + 1} /\ Len(old) + 1 \notin DOMAIN old
          /\ \A i \in DOMAIN old : new[i] = old[i]
          /\ new[Len(old) + 1] = n
      <4>1. old \in Seq(Nat) /\ n \in Nat
        BY <2>1, <1>4
      <4> QED
        BY <4>1, AppendFacts
    <3> HIDE DEF new
    <3> QED
      BY <3>1, <3>2, <2>1, <2>2, <2>4, <1>4, <1>6, <1>7
  <2> QED
    BY <2>3, <2>4
<1>11. BalanceIsPosition'
  <2> SUFFICES ASSUME NEW b \in AgentIds, NEW u \in Tokens
               PROVE  agentTokenBalance'[b][u] =
                        IF openPositionId'[b][u] = 0 THEN 0
                        ELSE positions'[openPositionId'[b][u]].tokenAmount
    BY DEF BalanceIsPosition
  <2>1. /\ openPositionId'[b][u] = IF b = a /\ u = t THEN n ELSE openPositionId[b][u]
        /\ agentTokenBalance'[b][u] =
             IF b = a /\ u = t THEN agentTokenBalance[b][u] + amt ELSE agentTokenBalance[b][u]
    BY <1>3 DEF PMInv, PMTypeOK
  <2>2. openPositionId[b][u] # 0 => openPositionId[b][u] \in DOMAIN positions
    BY DEF PMInv, OnePositionPerToken, OpenIds, PositionIds
  <2> QED
    BY <2>1, <2>2, <1>3, <1>4, <1>6 DEF PMInv, BalanceIsPosition
<1>12. OpenIffFunded'
  BY <1>4, <1>6 DEF PMInv, OpenIffFunded, PositionIds, IsOpen
<1>13. LadderNeverExhausted'
  BY <1>4, <1>5, <1>6, <1>7 DEF PMInv, LadderNeverExhausted, HasNextExitRule, OpenIds, PositionIds
<1>14. TotalLedgerIsSum'
  <2> DEFINE x == agentTokenBalance[a][t] + amt
             y == totalTokenLedger[t] + amt
  <2>1. /\ PMTypeOK /\ TotalLedgerIsSum
        /\ agentTokenBalance[a][t] \in Nat /\ totalTokenLedger[t] \in Nat
    BY DEF PMInv, PMTypeOK
  <2>2. x \in Nat /\ y \in Nat /\ y - totalTokenLedger[t] = x - agentTokenBalance[a][t]
    BY <2>1
  <2>3. /\ agentTokenBalance' = [agentTokenBalance EXCEPT ![a][t] = x]
        /\ totalTokenLedger' = [totalTokenLedger EXCEPT ![t] = y]
    BY <1>3
  <2> HIDE DEF x, y
  <2> QED
    BY <2>1, <2>2, <2>3, LedgerMoves
<1> QED
  BY <1>8, <1>9, <1>10, <1>11, <1>12, <1>13, <1>14 DEF PMInv

\* A sale keeps the books, whether it empties the position or not, as long as a
\* position that stays open is left with a next rule.
LEMMA SaleKeeps ==
    ASSUME PMInv,
           NEW id \in PositionIds, IsOpen(id),
           NEW sold \in Nat, NEW released \in Nat, NEW delta \in Int, NEW idx \in Nat,
           Sale(id, sold, released),
           sold # positions[id].tokenAmount => idx < Len(exitRules[id]),
           reducePositionSize(id, sold, released, delta, idx)
    PROVE  PMInv'
<1> DEFINE p == positions[id]
           closes == p.tokenAmount = sold
           q == [p EXCEPT !.tokenAmount = @ - sold,
                          !.usdcCostBasis = @ - released,
                          !.realizedPnlUsdc = @ + delta,
                          !.nextRuleIndex = idx,
                          !.status = IF closes THEN "Closed" ELSE @]
           a == p.agentId
           t == p.token
<1>1. /\ positions \in Seq(Position) /\ exitRules \in Seq(Seq(ExitRule))
      /\ Len(exitRules) = Len(positions) /\ id \in DOMAIN positions
  BY DEF PMInv, PMTypeOK, PositionIds
<1>2. p \in Position
  BY <1>1
<1>3. /\ a \in AgentIds /\ t \in Tokens /\ p.status = "Open"
      /\ p.tokenAmount \in Nat /\ p.usdcCostBasis \in Nat
  BY <1>2 DEF Position, IsOpen
<1>4. /\ 0 < sold /\ sold <= p.tokenAmount
      /\ released <= p.usdcCostBasis
      /\ released = p.usdcCostBasis <=> closes
  BY DEF Sale
<1>5. /\ positions' = [positions EXCEPT ![id] = q]
      /\ agentTokenBalance' = [agentTokenBalance EXCEPT ![a][t] = @ - sold]
      /\ totalTokenLedger' = [totalTokenLedger EXCEPT ![t] = @ - sold]
      /\ sold <= agentTokenBalance[a][t] /\ sold <= totalTokenLedger[t]
      /\ exitRules' = exitRules
  BY DEF reducePositionSize
<1>6. /\ closes => /\ openPositionId' = [openPositionId EXCEPT ![a][t] = 0]
                   /\ openPositionIdsByAgent' =
                        [openPositionIdsByAgent EXCEPT ![a] = SwapAndPop(@, id)]
      /\ ~closes => /\ openPositionId' = openPositionId
                    /\ openPositionIdsByAgent' = openPositionIdsByAgent
  BY DEF reducePositionSize
<1>7. /\ q \in Position /\ q.agentId = a /\ q.token = t
      /\ q.tokenAmount = p.tokenAmount - sold
      /\ q.usdcCostBasis = p.usdcCostBasis - released
      /\ q.nextRuleIndex = idx
      /\ q.status = IF closes THEN "Closed" ELSE "Open"
  <2>1. /\ p.tokenAmount - sold \in Nat /\ p.usdcCostBasis - released \in Nat
        /\ p.realizedPnlUsdc + delta \in Int
        /\ (IF closes THEN "Closed" ELSE p.status) \in PositionStatus
    <3>1. p.realizedPnlUsdc \in Int
      <4> HIDE DEF p, closes
      <4> QED
        BY <1>2 DEF Position
    <3>2. (IF closes THEN "Closed" ELSE p.status) \in PositionStatus
      <4> HIDE DEF p, closes
      <4> QED
        BY <1>3 DEF PositionStatus
    <3> HIDE DEF p, closes
    <3> QED
      BY <1>3, <1>4, <3>1, <3>2
  <2>2. q \in Position
    <3> HIDE DEF p, closes
    <3> QED
      BY <2>1, <1>2 DEF Position
  <2>3. /\ q.tokenAmount = p.tokenAmount - sold
        /\ q.usdcCostBasis = p.usdcCostBasis - released
        /\ q.nextRuleIndex = idx /\ q.agentId = p.agentId /\ q.token = p.token
        /\ q.status = IF closes THEN "Closed" ELSE p.status
    <3> HIDE DEF p, closes
    <3> QED
      BY <1>2 DEF Position
  <2> QED
    BY <2>2, <2>3, <1>3
<1> HIDE DEF q
<1>8. /\ positions' \in Seq(Position) /\ Len(positions') = Len(positions)
      /\ DOMAIN positions' = DOMAIN positions
      /\ positions'[id] = q
      /\ \A k \in DOMAIN positions : k # id => positions'[k] = positions[k]
  BY <1>1, <1>5, <1>7, ExceptFacts
<1>9. OpenIds' = IF closes THEN OpenIds \ {id} ELSE OpenIds
  <2>1. \A k \in DOMAIN positions : k # id => (IsOpen(k)' <=> IsOpen(k))
    BY <1>8 DEF IsOpen
  <2>2. IsOpen(id)' <=> ~closes
    BY <1>7, <1>8 DEF IsOpen
  <2> QED
    BY <2>1, <2>2, <1>1, <1>8 DEF OpenIds, PositionIds
<1>10. /\ id \in OpenIds /\ openPositionId[a][t] = id /\ id # 0
       /\ \A k \in OpenIds : k \in DOMAIN positions /\ k \in Nat /\ k # 0
  BY <1>1 DEF PMInv, OnePositionPerToken, OpenIds, PositionIds
<1> HIDE DEF a, t, p, closes
<1>11. \A b \in AgentIds, u \in Tokens :
         /\ openPositionId'[b][u] = IF closes /\ b = a /\ u = t THEN 0 ELSE openPositionId[b][u]
         /\ agentTokenBalance'[b][u] = IF b = a /\ u = t THEN agentTokenBalance[b][u] - sold
                                       ELSE agentTokenBalance[b][u]
  <2>1. CASE closes
    <3>1. openPositionId' = [openPositionId EXCEPT ![a][t] = 0]
      BY <2>1, <1>6
    <3> QED
      BY <2>1, <3>1, <1>3, <1>5 DEF PMInv, PMTypeOK
  <2>2. CASE ~closes
    BY <2>2, <1>3, <1>5, <1>6 DEF PMInv, PMTypeOK
  <2> QED
    BY <2>1, <2>2
<1>12. PMTypeOK'
  <2>1. agentTokenBalance' \in [AgentIds -> [Tokens -> Nat]]
    <3>1. agentTokenBalance[a][t] - sold \in Nat
      BY <1>3, <1>5 DEF PMInv, PMTypeOK
    <3> QED
      BY <3>1, <1>3, <1>5 DEF PMInv, PMTypeOK
  <2>2. openPositionId' \in [AgentIds -> [Tokens -> Nat]]
    <3>1. CASE closes
      <4>1. openPositionId' = [openPositionId EXCEPT ![a][t] = 0]
        BY <3>1, <1>6
      <4> QED
        BY <4>1, <1>3 DEF PMInv, PMTypeOK
    <3>2. CASE ~closes
      BY <3>2, <1>6 DEF PMInv, PMTypeOK
    <3> QED
      BY <3>1, <3>2
  <2>3. totalTokenLedger' \in [Tokens -> Nat]
    <3>1. totalTokenLedger[t] - sold \in Nat
      BY <1>3, <1>5 DEF PMInv, PMTypeOK
    <3> QED
      BY <3>1, <1>3, <1>5 DEF PMInv, PMTypeOK
  <2>4. openPositionIdsByAgent' \in [AgentIds -> Seq(Nat)]
    <3>1. CASE closes
      <4> DEFINE ids == openPositionIdsByAgent[a]
      <4>1. /\ ids \in Seq(Nat)
            /\ \A i, j \in DOMAIN ids : ids[i] = ids[j] => i = j
            /\ \E k \in DOMAIN ids : ids[k] = id
        <5>1. PMTypeOK /\ OpenIndexExact
          BY DEF PMInv
        <5> QED
          BY <1>3, <1>10, <5>1 DEF PMTypeOK, OpenIndexExact, a, p
      <4> HIDE DEF ids
      <4>2. SwapAndPop(ids, id) \in Seq(Nat)
        BY <4>1, SwapAndPopFacts
      <4> QED
        BY <4>2, <3>1, <1>3, <1>6 DEF PMInv, PMTypeOK, ids
    <3>2. CASE ~closes
      BY <3>2, <1>6 DEF PMInv, PMTypeOK
    <3> QED
      BY <3>1, <3>2
  <2> QED
    BY <1>1, <1>5, <1>8, <2>1, <2>2, <2>3, <2>4 DEF PMTypeOK
<1>13. OnePositionPerToken'
  <2>1. ASSUME NEW b \in AgentIds, NEW u \in Tokens, openPositionId'[b][u] # 0
        PROVE  /\ openPositionId'[b][u] \in OpenIds'
               /\ positions'[openPositionId'[b][u]].agentId = b
               /\ positions'[openPositionId'[b][u]].token = u
    <3> DEFINE k == openPositionId[b][u]
    <3>1. openPositionId'[b][u] = k /\ k # 0 /\ ~(closes /\ b = a /\ u = t)
      BY <2>1, <1>11
    <3>2. k \in OpenIds /\ positions[k].agentId = b /\ positions[k].token = u
      BY <3>1 DEF PMInv, OnePositionPerToken
    <3>3. k = id => b = a /\ u = t
      BY <3>2 DEF a, t, p
    <3> QED
      BY <3>1, <3>2, <3>3, <1>7, <1>8, <1>9, <1>10
  <2>2. ASSUME NEW k \in OpenIds'
        PROVE  openPositionId'[positions'[k].agentId][positions'[k].token] = k
    <3>1. /\ k \in OpenIds /\ k \in DOMAIN positions /\ (k = id => ~closes)
          /\ positions'[k].agentId = positions[k].agentId
          /\ positions'[k].token = positions[k].token
      BY <1>7, <1>8, <1>9, <1>10 DEF a, t, p
    <3>2. positions[k] \in Position
      BY <3>1, <1>1
    <3>3. positions[k].agentId \in AgentIds /\ positions[k].token \in Tokens
      BY <3>2 DEF Position
    <3>4. openPositionId[positions[k].agentId][positions[k].token] = k
      BY <3>1 DEF PMInv, OnePositionPerToken
    <3> QED
      BY <3>1, <3>3, <3>4, <1>10, <1>11
  <2> QED
    BY <2>1, <2>2 DEF OnePositionPerToken
<1>14. OpenIndexExact'
  <2> SUFFICES ASSUME NEW b \in AgentIds
               PROVE  LET ids == openPositionIdsByAgent'[b]
                      IN  /\ \A i \in DOMAIN ids :
                                ids[i] \in OpenIds' /\ positions'[ids[i]].agentId = b
                          /\ \A i, j \in DOMAIN ids : ids[i] = ids[j] => i = j
                          /\ \A k \in OpenIds' : positions'[k].agentId = b
                               => \E i \in DOMAIN ids : ids[i] = k
    BY DEF OpenIndexExact
  <2> DEFINE old == openPositionIdsByAgent[b]
  <2>1. /\ old \in Seq(Nat)
        /\ \A i \in DOMAIN old : old[i] \in OpenIds /\ positions[old[i]].agentId = b
        /\ \A i, j \in DOMAIN old : old[i] = old[j] => i = j
        /\ \A k \in OpenIds : positions[k].agentId = b => \E i \in DOMAIN old : old[i] = k
    BY DEF PMInv, PMTypeOK, OpenIndexExact
  <2>2. \A k \in OpenIds : positions'[k].agentId = positions[k].agentId
    BY <1>7, <1>8, <1>10 DEF a, p
  <2>3. CASE b = a /\ closes
    <3> DEFINE new == SwapAndPop(old, id)
    <3>1. openPositionIdsByAgent'[b] = new
      BY <2>3, <1>6 DEF PMInv, PMTypeOK
    <3>2. PICK k \in DOMAIN old : old[k] = id
      BY <2>1, <2>3, <1>10 DEF a, p
    <3> HIDE DEF old
    <3>3. /\ \A i \in DOMAIN new : new[i] # id /\ \E j \in DOMAIN old : old[j] = new[i]
          /\ \A i, j \in DOMAIN new : new[i] = new[j] => i = j
          /\ \A j \in DOMAIN old : old[j] # id => \E i \in DOMAIN new : new[i] = old[j]
      <4>1. old \in Seq(Nat) /\ \A i, j \in DOMAIN old : old[i] = old[j] => i = j
        BY <2>1
      <4>2. k \in DOMAIN old /\ old[k] = id
        BY <3>2
      <4>3. new = SwapAndPop(old, id)
        OBVIOUS
      <4> HIDE DEF new
      <4> QED
        BY <4>1, <4>2, <4>3, SwapAndPopFacts
    <3> HIDE DEF new
    <3>4. OpenIds' = OpenIds \ {id}
      BY <2>3, <1>9
    <3>5. \A i \in DOMAIN new : new[i] \in OpenIds' /\ positions'[new[i]].agentId = b
      <4> SUFFICES ASSUME NEW i \in DOMAIN new
                   PROVE  new[i] \in OpenIds' /\ positions'[new[i]].agentId = b
        OBVIOUS
      <4>1. PICK j \in DOMAIN old : old[j] = new[i]
        BY <3>3
      <4>2. old[j] \in OpenIds /\ positions[old[j]].agentId = b /\ new[i] # id
        BY <4>1, <3>3, <2>1
      <4> QED
        BY <4>1, <4>2, <3>4, <2>2
    <3>6. \A j \in OpenIds' : positions'[j].agentId = b => \E i \in DOMAIN new : new[i] = j
      <4> SUFFICES ASSUME NEW j \in OpenIds', positions'[j].agentId = b
                   PROVE  \E i \in DOMAIN new : new[i] = j
        OBVIOUS
      <4>1. j \in OpenIds /\ j # id /\ positions[j].agentId = b
        BY <3>4, <2>2
      <4>2. \E i \in DOMAIN old : old[i] = j
        BY <4>1, <2>1
      <4> QED
        BY <4>1, <4>2, <3>3
    <3> QED
      BY <3>1, <3>3, <3>5, <3>6
  <2>4. CASE b # a \/ ~closes
    <3>1. openPositionIdsByAgent'[b] = old
      BY <2>4, <1>6 DEF PMInv, PMTypeOK
    <3>2. closes => positions[id].agentId # b
      BY <2>4 DEF a, p
    <3> HIDE DEF old
    <3> QED
      BY <3>1, <3>2, <2>1, <2>2, <1>9
  <2> QED
    BY <2>3, <2>4
<1>15. BalanceIsPosition'
  <2> SUFFICES ASSUME NEW b \in AgentIds, NEW u \in Tokens
               PROVE  agentTokenBalance'[b][u] =
                        IF openPositionId'[b][u] = 0 THEN 0
                        ELSE positions'[openPositionId'[b][u]].tokenAmount
    BY DEF BalanceIsPosition
  <2>1. agentTokenBalance[b][u] = IF openPositionId[b][u] = 0 THEN 0
                                  ELSE positions[openPositionId[b][u]].tokenAmount
    BY DEF PMInv, BalanceIsPosition
  <2>2. CASE b = a /\ u = t
    BY <2>1, <2>2, <1>3, <1>7, <1>8, <1>10, <1>11 DEF p, closes
  <2>3. CASE ~(b = a /\ u = t)
    <3>1. openPositionId[b][u] # 0 => /\ openPositionId[b][u] \in DOMAIN positions
                                      /\ openPositionId[b][u] # id
      BY <2>3 DEF PMInv, OnePositionPerToken, OpenIds, PositionIds, a, t, p
    <3> QED
      BY <3>1, <2>1, <2>3, <1>8, <1>11
  <2> QED
    BY <2>2, <2>3
<1>16. OpenIffFunded'
  <2> SUFFICES ASSUME NEW k \in DOMAIN positions
               PROVE  /\ IsOpen(k)' <=> positions'[k].tokenAmount > 0
                      /\ IsOpen(k)' <=> positions'[k].usdcCostBasis > 0
    BY <1>8 DEF OpenIffFunded, PositionIds
  <2>1. CASE k = id
    BY <2>1, <1>3, <1>4, <1>7, <1>8 DEF IsOpen, closes
  <2>2. CASE k # id
    BY <2>2, <1>8 DEF PMInv, OpenIffFunded, PositionIds, IsOpen
  <2> QED
    BY <2>1, <2>2
<1>17. LadderNeverExhausted'
  BY <1>5, <1>7, <1>8, <1>9, <1>10
     DEF PMInv, LadderNeverExhausted, HasNextExitRule, closes, p
<1>18. TotalLedgerIsSum'
  <2> DEFINE x == agentTokenBalance[a][t] - sold
             y == totalTokenLedger[t] - sold
  <2>1. /\ PMTypeOK /\ TotalLedgerIsSum
        /\ agentTokenBalance[a][t] \in Nat /\ totalTokenLedger[t] \in Nat
    BY <1>3 DEF PMInv, PMTypeOK
  <2>2. x \in Nat /\ y \in Nat /\ y - totalTokenLedger[t] = x - agentTokenBalance[a][t]
    BY <1>5, <2>1
  <2>3. /\ agentTokenBalance' = [agentTokenBalance EXCEPT ![a][t] = x]
        /\ totalTokenLedger' = [totalTokenLedger EXCEPT ![t] = y]
    BY <1>5
  <2> HIDE DEF x, y
  <2> QED
    BY <1>3, <2>1, <2>2, <2>3, LedgerMoves
<1> QED
  BY <1>12, <1>13, <1>14, <1>15, <1>16, <1>17, <1>18 DEF PMInv

LEMMA IncreaseKeeps ==
    ASSUME PMInv,
           NEW id \in PositionIds,
           NEW amt \in Nat, NEW usdc \in Nat, NEW slip \in Nat, NEW price \in Nat,
           increasePosition(id, amt, usdc, slip, price)
    PROVE  PMInv'
<1> DEFINE p == positions[id]
           q == [p EXCEPT !.tokenAmount = @ + amt,
                          !.usdcCostBasis = @ + usdc,
                          !.entryPriceUsdc = price,
                          !.maxSlippageBps = IF slip > @ THEN slip ELSE @]
           a == p.agentId
           t == p.token
<1>1. /\ positions \in Seq(Position) /\ exitRules \in Seq(Seq(ExitRule))
      /\ Len(exitRules) = Len(positions) /\ id \in DOMAIN positions
  BY DEF PMInv, PMTypeOK, PositionIds
<1>2. p \in Position
  BY <1>1
<1>3. /\ a \in AgentIds /\ t \in Tokens /\ p.status = "Open"
      /\ p.tokenAmount \in Nat /\ p.usdcCostBasis \in Nat /\ p.maxSlippageBps \in Nat
  BY <1>2 DEF Position, IsOpen, increasePosition, creditTokens
<1>4. /\ positions' = [positions EXCEPT ![id] = q]
      /\ agentTokenBalance' = [agentTokenBalance EXCEPT ![a][t] = @ + amt]
      /\ totalTokenLedger' = [totalTokenLedger EXCEPT ![t] = @ + amt]
      /\ exitRules' = exitRules /\ openPositionId' = openPositionId
      /\ openPositionIdsByAgent' = openPositionIdsByAgent
  BY DEF increasePosition, creditTokens
<1>5. /\ q \in Position /\ q.agentId = a /\ q.token = t /\ q.status = "Open"
      /\ q.tokenAmount = p.tokenAmount + amt
      /\ q.usdcCostBasis = p.usdcCostBasis + usdc
      /\ q.nextRuleIndex = p.nextRuleIndex
  <2>1. /\ p.tokenAmount + amt \in Nat /\ p.usdcCostBasis + usdc \in Nat
        /\ (IF slip > p.maxSlippageBps THEN slip ELSE p.maxSlippageBps) \in Nat
    BY <1>3
  <2> HIDE DEF p
  <2> QED
    BY <1>2, <1>3, <2>1 DEF Position
<1> HIDE DEF q
<1>6. /\ positions' \in Seq(Position) /\ Len(positions') = Len(positions)
      /\ DOMAIN positions' = DOMAIN positions
      /\ positions'[id] = q
      /\ \A k \in DOMAIN positions : k # id => positions'[k] = positions[k]
  BY <1>1, <1>4, <1>5, ExceptFacts
<1>7. /\ \A k \in DOMAIN positions : IsOpen(k)' <=> IsOpen(k)
      /\ OpenIds' = OpenIds
  BY <1>3, <1>5, <1>6 DEF IsOpen, OpenIds, PositionIds
<1>8. /\ id \in OpenIds /\ openPositionId[a][t] = id /\ id # 0
      /\ \A k \in OpenIds : k \in DOMAIN positions
  BY <1>1, <1>3 DEF PMInv, OnePositionPerToken, OpenIds, PositionIds, IsOpen
<1>9. \A k \in OpenIds : /\ positions'[k].agentId = positions[k].agentId
                         /\ positions'[k].token = positions[k].token
                         /\ positions'[k].nextRuleIndex = positions[k].nextRuleIndex
  BY <1>5, <1>6, <1>8
<1> HIDE DEF a, t, p
<1>10. PMTypeOK'
  <2>1. agentTokenBalance' \in [AgentIds -> [Tokens -> Nat]]
    BY <1>3, <1>4 DEF PMInv, PMTypeOK
  <2>2. totalTokenLedger' \in [Tokens -> Nat]
    BY <1>3, <1>4 DEF PMInv, PMTypeOK
  <2> QED
    BY <1>1, <1>4, <1>6, <2>1, <2>2 DEF PMInv, PMTypeOK
<1>11. OnePositionPerToken'
  BY <1>4, <1>7, <1>9 DEF PMInv, OnePositionPerToken
<1>12. OpenIndexExact'
  <2> SUFFICES ASSUME NEW b \in AgentIds
               PROVE  LET ids == openPositionIdsByAgent[b]
                      IN  /\ \A i \in DOMAIN ids :
                                ids[i] \in OpenIds /\ positions'[ids[i]].agentId = b
                          /\ \A i, j \in DOMAIN ids : ids[i] = ids[j] => i = j
                          /\ \A k \in OpenIds : positions'[k].agentId = b
                               => \E i \in DOMAIN ids : ids[i] = k
    BY <1>4, <1>7 DEF OpenIndexExact
  <2> DEFINE ids == openPositionIdsByAgent[b]
  <2>1. /\ \A i \in DOMAIN ids : ids[i] \in OpenIds /\ positions[ids[i]].agentId = b
        /\ \A i, j \in DOMAIN ids : ids[i] = ids[j] => i = j
        /\ \A k \in OpenIds : positions[k].agentId = b => \E i \in DOMAIN ids : ids[i] = k
    BY DEF PMInv, OpenIndexExact
  <2> HIDE DEF ids
  <2>2. /\ \A i \in DOMAIN ids : ids[i] \in OpenIds /\ positions'[ids[i]].agentId = b
        /\ \A k \in OpenIds : positions'[k].agentId = b => \E i \in DOMAIN ids : ids[i] = k
    BY <2>1, <1>9
  <2> QED
    BY <2>1, <2>2 DEF ids
<1>13. BalanceIsPosition'
  <2> SUFFICES ASSUME NEW b \in AgentIds, NEW u \in Tokens
               PROVE  agentTokenBalance'[b][u] =
                        IF openPositionId[b][u] = 0 THEN 0
                        ELSE positions'[openPositionId[b][u]].tokenAmount
    BY <1>4 DEF BalanceIsPosition
  <2>1. agentTokenBalance[b][u] = IF openPositionId[b][u] = 0 THEN 0
                                  ELSE positions[openPositionId[b][u]].tokenAmount
    BY DEF PMInv, BalanceIsPosition
  <2>2. agentTokenBalance'[b][u] = IF b = a /\ u = t THEN agentTokenBalance[b][u] + amt
                                   ELSE agentTokenBalance[b][u]
    BY <1>3, <1>4 DEF PMInv, PMTypeOK
  <2>3. CASE b = a /\ u = t
    BY <2>1, <2>2, <2>3, <1>5, <1>6, <1>8 DEF p
  <2>4. CASE ~(b = a /\ u = t)
    <3>1. openPositionId[b][u] # 0 => /\ openPositionId[b][u] \in DOMAIN positions
                                      /\ openPositionId[b][u] # id
      BY <2>4 DEF PMInv, OnePositionPerToken, OpenIds, PositionIds, a, t, p
    <3> QED
      BY <3>1, <2>1, <2>2, <2>4, <1>6
  <2> QED
    BY <2>3, <2>4
<1>14. OpenIffFunded'
  <2> SUFFICES ASSUME NEW k \in DOMAIN positions
               PROVE  /\ IsOpen(k)' <=> positions'[k].tokenAmount > 0
                      /\ IsOpen(k)' <=> positions'[k].usdcCostBasis > 0
    BY <1>6 DEF OpenIffFunded, PositionIds
  <2>1. CASE k = id
    <3>1. IsOpen(id)' <=> IsOpen(id)
      BY <1>1, <1>7 DEF PositionIds
    <3>2. /\ IsOpen(id) <=> p.tokenAmount > 0
          /\ IsOpen(id) <=> p.usdcCostBasis > 0
      BY <1>1 DEF PMInv, OpenIffFunded, PositionIds, p
    <3>3. /\ positions'[id].tokenAmount = p.tokenAmount + amt
          /\ positions'[id].usdcCostBasis = p.usdcCostBasis + usdc
      BY <1>5, <1>6
    <3>4. /\ IsOpen(id) /\ p.tokenAmount \in Nat /\ p.usdcCostBasis \in Nat
          /\ amt \in Nat /\ usdc \in Nat
      BY <1>3 DEF IsOpen, p
    <3> QED
      BY <2>1, <3>1, <3>2, <3>3, <3>4
  <2>2. CASE k # id
    BY <2>2, <1>6 DEF PMInv, OpenIffFunded, PositionIds, IsOpen
  <2> QED
    BY <2>1, <2>2
<1>15. LadderNeverExhausted'
  BY <1>4, <1>7, <1>9 DEF PMInv, LadderNeverExhausted, HasNextExitRule
<1>16. TotalLedgerIsSum'
  <2> DEFINE x == agentTokenBalance[a][t] + amt
             y == totalTokenLedger[t] + amt
  <2>1. /\ PMTypeOK /\ TotalLedgerIsSum
        /\ agentTokenBalance[a][t] \in Nat /\ totalTokenLedger[t] \in Nat
    BY <1>3 DEF PMInv, PMTypeOK
  <2>2. x \in Nat /\ y \in Nat /\ y - totalTokenLedger[t] = x - agentTokenBalance[a][t]
    BY <2>1
  <2>3. /\ agentTokenBalance' = [agentTokenBalance EXCEPT ![a][t] = x]
        /\ totalTokenLedger' = [totalTokenLedger EXCEPT ![t] = y]
    BY <1>4
  <2> HIDE DEF x, y
  <2> QED
    BY <1>3, <2>1, <2>2, <2>3, LedgerMoves
<1> QED
  BY <1>10, <1>11, <1>12, <1>13, <1>14, <1>15, <1>16 DEF PMInv

\* What the new ladder is: the consumed rules, then the new ones.
LEMMA PendingRulesFacts ==
    ASSUME NEW S, NEW old \in Seq(S), NEW new \in Seq(S), NEW k \in Nat, k < Len(old), Len(new) > 0
    PROVE  LET r == SubSeq(old, 1, k) \o new
           IN  /\ r \in Seq(S)
               /\ Len(r) = k + Len(new) /\ k < Len(r)
               /\ r[Len(r)] = new[Len(new)]
               /\ \A i \in 1 .. k : r[i] = old[i]
<1> DEFINE pre == SubSeq(old, 1, k)
<1>1. pre \in Seq(S) /\ Len(pre) = k /\ \A i \in 1 .. k : pre[i] = old[i]
  OBVIOUS
<1> HIDE DEF pre
<1>2. /\ pre \o new \in Seq(S) /\ Len(pre \o new) = k + Len(new)
      /\ (pre \o new)[k + Len(new)] = new[Len(new)]
      /\ \A i \in 1 .. k : (pre \o new)[i] = pre[i]
  <2>1. /\ pre \o new \in Seq(S) /\ Len(pre \o new) = Len(pre) + Len(new)
        /\ \A i \in 1 .. Len(pre) : (pre \o new)[i] = pre[i]
        /\ \A i \in 1 .. Len(new) : (pre \o new)[Len(pre) + i] = new[i]
    BY <1>1
  <2>2. Len(new) \in 1 .. Len(new)
    OBVIOUS
  <2> QED
    BY <1>1, <2>1, <2>2
<1> QED
  BY <1>1, <1>2 DEF pre

LEMMA UpdateRulesKeeps ==
    ASSUME PMInv,
           NEW id \in PositionIds, NEW new \in Seq(ExitRule),
           Len(new) > 0, new[Len(new)].exitBps = MAX_BPS,
           updatePendingExitRules(id, new)
    PROVE  PMInv'
<1> DEFINE k == positions[id].nextRuleIndex
           r == SubSeq(exitRules[id], 1, k) \o new
<1>1. /\ positions \in Seq(Position) /\ exitRules \in Seq(Seq(ExitRule))
      /\ Len(exitRules) = Len(positions) /\ id \in DOMAIN positions /\ id \in DOMAIN exitRules
      /\ id \in OpenIds /\ DOMAIN exitRules = DOMAIN positions
  BY DEF PMInv, PMTypeOK, PositionIds, OpenIds, updatePendingExitRules, consumedRules
<1>2. k \in Nat /\ k < Len(exitRules[id]) /\ exitRules[id] \in Seq(ExitRule)
  <2>1. positions[id] \in Position /\ exitRules[id] \in Seq(ExitRule)
    BY <1>1
  <2> QED
    BY <2>1, <1>1 DEF Position, PMInv, LadderNeverExhausted, HasNextExitRule
<1>3. /\ r \in Seq(ExitRule) /\ k < Len(r) /\ r[Len(r)] = new[Len(new)]
  <2> HIDE DEF k
  <2> QED
    BY <1>2, PendingRulesFacts
<1>4. /\ exitRules' = [exitRules EXCEPT ![id] = r]
      /\ UNCHANGED <<positions, agentTokenBalance, openPositionId,
                     openPositionIdsByAgent, totalTokenLedger>>
  BY DEF updatePendingExitRules, consumedRules
<1> HIDE DEF r
<1>5. /\ exitRules' \in Seq(Seq(ExitRule)) /\ Len(exitRules') = Len(exitRules)
      /\ exitRules'[id] = r
      /\ \A j \in DOMAIN exitRules : j # id => exitRules'[j] = exitRules[j]
  BY <1>1, <1>3, <1>4, ExceptFacts
<1>6. PMTypeOK'
  BY <1>4, <1>5 DEF PMInv, PMTypeOK
<1>7. OpenIds' = OpenIds
  BY <1>4 DEF OpenIds, PositionIds, IsOpen
<1>8. OnePositionPerToken' /\ BalanceIsPosition' /\ OpenIffFunded'
  BY <1>4, <1>7 DEF PMInv, OnePositionPerToken, BalanceIsPosition, OpenIffFunded, PositionIds,
                    IsOpen
<1>9. OpenIndexExact'
  BY <1>4, <1>7 DEF PMInv, OpenIndexExact
<1>10. LadderNeverExhausted'
  <2> SUFFICES ASSUME NEW j \in OpenIds
               PROVE  /\ positions[j].nextRuleIndex < Len(exitRules'[j])
                      /\ exitRules'[j][Len(exitRules'[j])].exitBps = MAX_BPS
    BY <1>4, <1>7 DEF LadderNeverExhausted, HasNextExitRule
  <2>1. CASE j = id
    BY <2>1, <1>3, <1>5
  <2>2. CASE j # id
    <3>1. exitRules'[j] = exitRules[j]
      BY <2>2, <1>1, <1>5 DEF OpenIds, PositionIds
    <3> QED
      BY <3>1 DEF PMInv, LadderNeverExhausted, HasNextExitRule
  <2> QED
    BY <2>1, <2>2
<1>11. TotalLedgerIsSum'
  BY <1>4 DEF PMInv, TotalLedgerIsSum
<1> QED
  BY <1>6, <1>8, <1>9, <1>10, <1>11 DEF PMInv

-----------------------------------------------------------------------------
(* The specification. *)

\* What an element of Ladders is, from PMAssumption.
LEMMA LadderFacts ==
    \A ladder \in Ladders : /\ ladder \in Seq(ExitRule) /\ Len(ladder) > 0
                            /\ ladder[Len(ladder)].exitBps = MAX_BPS
  BY PMAssumption

LEMMA PMNextKeeps == PMInv /\ [PMNext]_pmVars => PMInv'
<1> SUFFICES ASSUME PMInv, [PMNext]_pmVars PROVE PMInv'
  OBVIOUS
<1>0. Amounts \subseteq Nat /\ PnlDeltas \subseteq Int /\ EntryPrices \subseteq Nat
      /\ Slippages \subseteq Nat
  BY PMAssumption
<1>1. ASSUME NEW a \in AgentIds, NEW v \in Vaults, NEW t \in Tokens,
             NEW amt \in Amounts, NEW usdc \in Amounts, NEW price \in EntryPrices,
             NEW slip \in Slippages, NEW exits \in Ladders,
             CallOpen(a, v, t, amt, price, usdc, slip, exits)
      PROVE  PMInv'
  <2>1. amt > 0 /\ usdc > 0 /\ openPosition(a, v, t, amt, price, usdc, slip, exits)
    BY <1>1 DEF CallOpen
  <2> QED
    BY <1>0, <2>1, LadderFacts, OpenKeeps
<1>2. ASSUME NEW id \in PositionIds, NEW sold \in Amounts, NEW released \in Amounts,
             NEW delta \in PnlDeltas, CallLadderExit(id, sold, released, delta)
      PROVE  PMInv'
  <2> DEFINE k == positions[id].nextRuleIndex
  <2>1. /\ IsOpen(id) /\ Sale(id, sold, released) /\ HasNextExitRule(id)
        /\ reducePositionSize(id, sold, released, delta, k + 1)
        /\ getNextExitRule(id).exitBps = MAX_BPS => sold = positions[id].tokenAmount
    BY <1>2 DEF CallLadderExit, applyLadderExit
  <2>2. k \in Nat
    <3>1. positions[id] \in Position
      BY DEF PMInv, PMTypeOK, PositionIds
    <3> QED
      BY <3>1 DEF Position
  <2>3. /\ id \in OpenIds /\ k < Len(exitRules[id]) /\ Len(exitRules[id]) \in Nat
        /\ exitRules[id][Len(exitRules[id])].exitBps = MAX_BPS
    BY <2>1 DEF OpenIds, PMInv, PMTypeOK, PositionIds, LadderNeverExhausted, HasNextExitRule
  <2>4. sold # positions[id].tokenAmount => k + 1 < Len(exitRules[id])
    BY <2>1, <2>2, <2>3 DEF getNextExitRule
  <2> HIDE DEF k
  <2>5. k + 1 \in Nat
    BY <2>2
  <2> QED
    BY <1>0, <2>1, <2>4, <2>5, SaleKeeps
<1>3. ASSUME NEW id \in PositionIds, NEW sold \in Amounts, NEW released \in Amounts,
             NEW delta \in PnlDeltas, CallReduce(id, sold, released, delta)
      PROVE  PMInv'
  <2> DEFINE k == positions[id].nextRuleIndex
  <2>1. /\ IsOpen(id) /\ Sale(id, sold, released)
        /\ reducePositionSize(id, sold, released, delta, k)
    BY <1>3 DEF CallReduce, applyDiscretionaryReduce
  <2>2. k \in Nat
    <3>1. positions[id] \in Position
      BY DEF PMInv, PMTypeOK, PositionIds
    <3> QED
      BY <3>1 DEF Position
  <2>3. k < Len(exitRules[id])
    BY <2>1 DEF OpenIds, PMInv, LadderNeverExhausted, HasNextExitRule
  <2> HIDE DEF k
  <2> QED
    BY <1>0, <2>1, <2>2, <2>3, SaleKeeps
<1>4. ASSUME NEW id \in PositionIds, NEW amt \in Amounts, NEW usdc \in Amounts,
             NEW price \in EntryPrices, NEW slip \in Slippages,
             CallIncrease(id, amt, usdc, slip, price)
      PROVE  PMInv'
  BY <1>0, <1>4, IncreaseKeeps DEF CallIncrease
<1>5. ASSUME NEW id \in PositionIds, NEW new \in Ladders, CallUpdateRules(id, new)
      PROVE  PMInv'
  BY <1>5, LadderFacts, UpdateRulesKeeps DEF CallUpdateRules
<1>6. ASSUME UNCHANGED pmVars PROVE PMInv'
  BY <1>6 DEF pmVars, PMInv, PMTypeOK, OnePositionPerToken, OpenIndexExact, BalanceIsPosition,
              OpenIffFunded, LadderNeverExhausted, HasNextExitRule, OpenIds, PositionIds, IsOpen,
              TotalLedgerIsSum
<1> QED
  BY <1>1, <1>2, <1>3, <1>4, <1>5, <1>6 DEF PMNext

-----------------------------------------------------------------------------
(* What a handler leaves alone. *)

\* The storage as the lemmas below read it.
LEMMA StorageFacts ==
    ASSUME PMInv
    PROVE  /\ positions \in Seq(Position) /\ exitRules \in Seq(Seq(ExitRule))
           /\ DOMAIN exitRules = DOMAIN positions
           /\ \A id \in DOMAIN positions :
                /\ positions[id] \in Position /\ exitRules[id] \in Seq(ExitRule)
                /\ positions[id].nextRuleIndex \in Nat
<1>1. /\ positions \in Seq(Position) /\ exitRules \in Seq(Seq(ExitRule))
      /\ Len(exitRules) = Len(positions)
  BY DEF PMInv, PMTypeOK
<1>2. ASSUME NEW id \in DOMAIN positions
      PROVE  /\ positions[id] \in Position /\ exitRules[id] \in Seq(ExitRule)
             /\ positions[id].nextRuleIndex \in Nat
  <2>1. positions[id] \in Position /\ exitRules[id] \in Seq(ExitRule)
    BY <1>1
  <2> QED
    BY <2>1 DEF Position
<1> QED
  BY <1>1, <1>2

\* A new position leaves the others and their rules alone.
LEMMA OpenKeepsPast ==
    ASSUME PMInv, NEW a, NEW v, NEW t, NEW amt, NEW price, NEW usdc, NEW slip, NEW exits,
           openPosition(a, v, t, amt, price, usdc, slip, exits), NEW j \in PositionIds
    PROVE  PastKept(j)
<1> DEFINE p == [agentId |-> a, vault |-> v, token |-> t, tokenAmount |-> amt,
                 entryPriceUsdc |-> price, usdcCostBasis |-> usdc,
                 maxSlippageBps |-> slip, status |-> "Open",
                 nextRuleIndex |-> 0, realizedPnlUsdc |-> 0]
<1>1. positions' = Append(positions, p) /\ exitRules' = Append(exitRules, exits)
  BY DEF openPosition, recordPosition, storeRules, creditTokens
<1> HIDE DEF p
<1>2. positions'[j] = positions[j] /\ exitRules'[j] = exitRules[j]
  BY <1>1, StorageFacts DEF PositionIds
<1> QED
  BY <1>2, StorageFacts DEF PastKept, PositionIds

\* A sale writes an open position only and never moves its ladder back.
LEMMA SaleKeepsPast ==
    ASSUME PMInv, NEW id \in PositionIds, IsOpen(id),
           NEW sold, NEW released, NEW delta, NEW idx \in Nat,
           idx >= positions[id].nextRuleIndex,
           reducePositionSize(id, sold, released, delta, idx), NEW j \in PositionIds
    PROVE  PastKept(j)
<1>1. /\ exitRules' = exitRules
      /\ j # id => positions'[j] = positions[j]
      /\ positions'[id].nextRuleIndex = idx
  BY StorageFacts DEF reducePositionSize, PositionIds, Position
<1> QED
  BY <1>1, StorageFacts DEF PastKept, IsOpen, PositionIds

LEMMA IncreaseKeepsPast ==
    ASSUME PMInv, NEW id \in PositionIds, NEW amt, NEW usdc, NEW slip, NEW price,
           increasePosition(id, amt, usdc, slip, price), NEW j \in PositionIds
    PROVE  PastKept(j)
<1>1. /\ exitRules' = exitRules /\ positions[id].status = "Open"
      /\ j # id => positions'[j] = positions[j]
      /\ positions'[id].nextRuleIndex = positions[id].nextRuleIndex
  BY StorageFacts DEF increasePosition, creditTokens, IsOpen, PositionIds, Position
<1> QED
  BY <1>1, StorageFacts DEF PastKept, PositionIds

\* A new ladder starts behind the rules the position has consumed.
LEMMA UpdateRulesKeepsPast ==
    ASSUME PMInv, NEW id \in PositionIds, NEW new \in Seq(ExitRule),
           updatePendingExitRules(id, new), NEW j \in PositionIds
    PROVE  PastKept(j)
<1> DEFINE k == positions[j].nextRuleIndex
<1>1. /\ positions' = positions /\ positions[id].status = "Open"
      /\ exitRules' = [exitRules EXCEPT ![id] =
                         SubSeq(exitRules[id], 1, positions[id].nextRuleIndex) \o new]
      /\ Len(new) > 0
  BY DEF updatePendingExitRules, consumedRules, IsOpen
<1>2. CASE j # id
  BY <1>1, <1>2, StorageFacts DEF PastKept, PositionIds
<1>3. CASE j = id
  <2>1. /\ exitRules[j] \in Seq(ExitRule) /\ k \in Nat /\ k < Len(exitRules[j])
    BY <1>1, <1>3, StorageFacts
       DEF PMInv, LadderNeverExhausted, HasNextExitRule, OpenIds, PositionIds, IsOpen
  <2>2. exitRules'[j] = SubSeq(exitRules[j], 1, k) \o new
    BY <1>1, <1>3, StorageFacts DEF PositionIds
  <2> DEFINE old == exitRules[j]
  <2> HIDE DEF k, old
  <2>3. old \in Seq(ExitRule) /\ k \in Nat /\ k < Len(old) /\ Len(new) > 0
    BY <1>1, <2>1 DEF old
  <2>4. \A i \in 1 .. k : (SubSeq(old, 1, k) \o new)[i] = old[i]
    BY <2>3, PendingRulesFacts
  <2> QED
    <3>1. \A i \in 1 .. k : exitRules'[j][i] = exitRules[j][i]
      BY <2>2, <2>4 DEF old
    <3> QED
      <4>1. positions'[j] = positions[j] /\ k >= k
        BY <1>1, <2>3
      <4>2. positions'[j].nextRuleIndex >= positions[j].nextRuleIndex
        BY <4>1 DEF k
      <4> QED
        BY <4>1, <4>2, <3>1, Zenon DEF PastKept, k
<1> QED
  BY <1>2, <1>3

-----------------------------------------------------------------------------
(* Theorems of the specification. *)

\* Every reachable state satisfies the inductive invariant.
THEOREM PMInvariant == PMSpec => []PMInv
  BY InitHolds, PMNextKeeps, PTL DEF PMSpec

\* The contract's storage is well typed in every reachable state.
THEOREM PMTypeCorrect == PMSpec => []PMTypeOK
<1>1. PMInv => PMTypeOK
  BY DEF PMInv
<1> QED
  BY <1>1, PMInvariant, PTL

\* _openPositionId names exactly the open positions: one per agent and token.
THEOREM OnePositionCorrect == PMSpec => []OnePositionPerToken
<1>1. PMInv => OnePositionPerToken
  BY DEF PMInv
<1> QED
  BY <1>1, PMInvariant, PTL

\* The swap-and-pop array of an agent is exact through any order of opens and closes.
THEOREM OpenIndexCorrect == PMSpec => []OpenIndexExact
<1>1. PMInv => OpenIndexExact
  BY DEF PMInv
<1> QED
  BY <1>1, PMInvariant, PTL

\* No token is credited to an agent without a position or outlives its close.
THEOREM BalanceCorrect == PMSpec => []BalanceIsPosition
<1>1. PMInv => BalanceIsPosition
  BY DEF PMInv
<1> QED
  BY <1>1, PMInvariant, PTL

\* Tokens, cost basis and status of a position are exhausted together.
THEOREM FundingCorrect == PMSpec => []OpenIffFunded
<1>1. PMInv => OpenIffFunded
  BY DEF PMInv
<1> QED
  BY <1>1, PMInvariant, PTL

\* getNextExitRule never reverts for an open position.
THEOREM LadderCorrect == PMSpec => []LadderNeverExhausted
<1>1. PMInv => LadderNeverExhausted
  BY DEF PMInv
<1> QED
  BY <1>1, PMInvariant, PTL

\* The token ledger is the sum of the balances of all agents, however many they are.
THEOREM TotalLedgerCorrect == PMSpec => []TotalLedgerIsSum
<1>1. PMInv => TotalLedgerIsSum
  BY DEF PMInv
<1> QED
  BY <1>1, PMInvariant, PTL

\* No step rewrites a consumed rule, moves a ladder back or touches a closed position.
THEOREM HistoryKept == PMSpec => HistoryFrozen
<1>1. PMInv /\ [PMNext]_pmVars => [\A id \in PositionIds : PastKept(id)]_pmVars
  <2> SUFFICES ASSUME PMInv, PMNext, NEW j \in PositionIds PROVE PastKept(j)
    OBVIOUS
  <2>1. ASSUME NEW a \in AgentIds, NEW v \in Vaults, NEW t \in Tokens,
               NEW amt \in Amounts, NEW usdc \in Amounts, NEW price \in EntryPrices,
               NEW slip \in Slippages, NEW exits \in Ladders,
               CallOpen(a, v, t, amt, price, usdc, slip, exits)
        PROVE  PastKept(j)
    BY <2>1, OpenKeepsPast DEF CallOpen
  <2>2. ASSUME NEW id \in PositionIds, NEW sold \in Amounts, NEW released \in Amounts,
               NEW delta \in PnlDeltas,
               CallLadderExit(id, sold, released, delta) \/ CallReduce(id, sold, released, delta)
        PROVE  PastKept(j)
    <3>1. positions[id].nextRuleIndex \in Nat
      BY StorageFacts DEF PositionIds
    <3>2. PICK idx \in Nat : /\ idx >= positions[id].nextRuleIndex
                             /\ IsOpen(id)
                             /\ reducePositionSize(id, sold, released, delta, idx)
      BY <2>2, <3>1 DEF CallLadderExit, applyLadderExit, CallReduce, applyDiscretionaryReduce
    <3> QED
      BY <3>2, SaleKeepsPast
  <2>3. ASSUME NEW id \in PositionIds, NEW amt \in Amounts, NEW usdc \in Amounts,
               NEW price \in EntryPrices, NEW slip \in Slippages,
               CallIncrease(id, amt, usdc, slip, price)
        PROVE  PastKept(j)
    BY <2>3, IncreaseKeepsPast DEF CallIncrease
  <2>4. ASSUME NEW id \in PositionIds, NEW new \in Ladders, CallUpdateRules(id, new)
        PROVE  PastKept(j)
    BY <2>4, LadderFacts, UpdateRulesKeepsPast DEF CallUpdateRules
  <2> QED
    BY <2>1, <2>2, <2>3, <2>4 DEF PMNext
<1> QED
  BY <1>1, PMInvariant, PTL DEF PMSpec, HistoryFrozen
=============================================================================
