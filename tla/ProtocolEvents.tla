--------------------------- MODULE ProtocolEvents ---------------------------
(***************************************************************************)
(* The contracts as their log shows them: what the transactions of a block *)
(* emit, and in which order, next to the state the indexer can read with   *)
(* a call.  The modules of the contracts say which transactions go         *)
(* through; here a guard only keeps what the events depend on.  The log is *)
(* an immutable sequence that the indexer reads through a cursor; calls    *)
(* are answered for the block it works on, so the contracts stand still    *)
(* from its first event to its commit, however late it runs.               *)
(*                                                                         *)
(* Every token has the same size and price: cost basis and tokens of a     *)
(* position are the same number, a sale of n tokens gains n * (price - 1). *)
(***************************************************************************)
EXTENDS Integers, Sequences, FiniteSets, Functions

CONSTANTS MaxAgents, MaxPositions,  \* bounds
          MaxTokens,                \* bound: tokens of a position
          MaxPnl,                   \* bound: realized PnL of a position
          AgentStatuses, AllocationStatuses, \* those the operator sets
          Ladders,                  \* exit ladders: sequences of "half" and "all"
          CapOfTrack,               \* initial allocation of a track
          Prices,                   \* 0 for a stale one
          MaxEvents,                \* bound: events in a block
          MaxHistory                \* bound: transactions in all

ASSUME EventsAssumption ==
    /\ MaxAgents \in Nat /\ MaxPositions \in Nat /\ MaxTokens \in Nat /\ MaxPnl \in Nat
    /\ MaxEvents \in Nat /\ MaxHistory \in Nat
    /\ Ladders \subseteq Seq({"half", "all"}) /\ Prices \subseteq Nat
    /\ 0 \in DOMAIN CapOfTrack /\ DOMAIN CapOfTrack \subseteq 0..2
    /\ \A track \in DOMAIN CapOfTrack : CapOfTrack[track] \in Nat

VARIABLES agents,        \* AgentRegistry
          allocations,   \* AllocationManager, by agent
          positions,     \* PositionManager
          exitRules,     \* PositionManager, by position
          price,         \* the oracle
          log,           \* the events of the block, in the order of its transactions
          cursor,        \* how many of them the indexer has handled
          sent           \* transactions so far

contractVars == <<agents, allocations, positions, exitRules, price>>

AgentIds == 1..Len(agents)
PositionIds == 1..Len(positions)
PositionsOf(a) == {id \in PositionIds : positions[id].agent = a}
OpenOf(a) == {id \in PositionsOf(a) : positions[id].status = "Open"}

EventsInit ==
    /\ agents = <<>> /\ allocations = <<>> /\ positions = <<>> /\ exitRules = <<>>
    /\ price \in Prices
    /\ log = <<>> /\ cursor = 0 /\ sent = 0

-----------------------------------------------------------------------------
(* Views. *)

lifetimeRealizedPnl(a) ==
    SumFunctionOnSet([id \in PositionIds |-> positions[id].pnl], PositionsOf(a))
unrealizedPnl(a) ==
    SumFunctionOnSet([id \in PositionIds |-> positions[id].tokens * (price - 1)], OpenOf(a))
currentEquity(a) == allocations[a].cap + lifetimeRealizedPnl(a) + unrealizedPnl(a)

\* The lens values every open position: one stale price and the call reverts.
LensReverts(a) == price = 0 /\ OpenOf(a) # {}

-----------------------------------------------------------------------------
(* Transactions. *)

Emit(events) ==
    /\ cursor = 0 /\ Len(log) + Len(events) <= MaxEvents
    /\ log' = log \o events /\ cursor' = 0
    /\ sent < MaxHistory /\ sent' = sent + 1

AllocationUpdated(a) == [type |-> "AllocationUpdated", agent |-> a,
    cap |-> allocations'[a].cap, status |-> allocations'[a].status]

\* _registerAgent: the allocation is created before AgentRegistered is emitted.
RegisterAgent ==
    LET a == Len(agents) + 1 IN
    /\ Len(agents) < MaxAgents
    /\ agents' = Append(agents, [status |-> "Active", track |-> 0])
    /\ allocations' = Append(allocations, [cap |-> CapOfTrack[0], used |-> 0, status |-> "Active"])
    /\ Emit(<<[type |-> "AllocationCreated", agent |-> a, cap |-> CapOfTrack[0]],
              [type |-> "AgentRegistered", agent |-> a]>>)
    /\ UNCHANGED <<positions, exitRules, price>>

\* setAgentStatus: a terminal status removes the allocation after its own event.
SetAgentStatus(a, status) ==
    LET removes == status = "Exited" /\ allocations[a].status # "Removed" IN
    /\ removes => allocations[a].used = 0
    /\ agents' = [agents EXCEPT ![a].status = status]
    /\ allocations' = IF removes
                        THEN [allocations EXCEPT ![a].status = "Removed", ![a].cap = 0]
                        ELSE allocations
    /\ Emit(<<[type |-> "AgentStatusChanged", agent |-> a, status |-> status]>>
            \o IF removes THEN <<AllocationUpdated(a)>> ELSE <<>>)
    /\ UNCHANGED <<positions, exitRules, price>>

\* promoteAgent: the allocation first.
PromoteAgent(a) ==
    LET track == agents[a].track + 1 IN
    /\ track \in DOMAIN CapOfTrack
    /\ agents' = [agents EXCEPT ![a].track = track]
    /\ allocations' = [allocations EXCEPT ![a].cap = CapOfTrack[track]]
    /\ Emit(<<AllocationUpdated(a), [type |-> "AgentPromoted", agent |-> a, track |-> track]>>)
    /\ UNCHANGED <<positions, exitRules, price>>

SetAllocationStatus(a, status) ==
    /\ allocations' = [allocations EXCEPT ![a].status = status]
    /\ Emit(<<AllocationUpdated(a)>>)
    /\ UNCHANGED <<agents, positions, exitRules, price>>

\* setAllocationUsedByRouter, the end of every trade.
SetUsed(a, used) ==
    /\ used <= allocations[a].cap
    /\ allocations' = [allocations EXCEPT ![a].used = used]
UsedUpdated(a) == [type |-> "AllocationUsedUpdated", agent |-> a, used |-> allocations'[a].used]
Trade(type, id, a) == [type |-> type, position |-> id, agent |-> a]

OpenPosition(a, tokens, ladder) ==
    LET id == Len(positions) + 1 IN
    /\ id <= MaxPositions /\ price # 0 /\ agents[a].status = "Active"
    /\ positions' = Append(positions,
            [agent |-> a, tokens |-> tokens, status |-> "Open", next |-> 0, pnl |-> 0])
    /\ exitRules' = Append(exitRules, ladder)
    /\ SetUsed(a, allocations[a].used + tokens)
    /\ Emit(<<[type |-> "PositionOpened", position |-> id, agent |-> a, tokens |-> tokens],
              UsedUpdated(a), Trade("PositionOpenedFromIntent", id, a)>>)
    /\ UNCHANGED <<agents, price>>

AddToPosition(id) ==
    LET p == positions[id] IN
    /\ p.status = "Open" /\ p.tokens < MaxTokens /\ price # 0 /\ agents[p.agent].status = "Active"
    /\ positions' = [positions EXCEPT ![id].tokens = @ + 1]
    /\ SetUsed(p.agent, allocations[p.agent].used + 1)
    /\ Emit(<<Trade("PositionIncreased", id, p.agent), UsedUpdated(p.agent),
              Trade("PositionIncreasedFromIntent", id, p.agent)>>)
    /\ UNCHANGED <<agents, exitRules, price>>

\* _sell: _reducePositionSize emits PositionClosed before its caller emits the reduction.
Sell(id, n, next, reduction, trade) ==
    LET p == positions[id]
        closes == n = p.tokens
        gain == n * (price - 1)
        left == [agent |-> p.agent, tokens |-> p.tokens - n, next |-> next, pnl |-> p.pnl + gain,
                 status |-> IF closes THEN "Closed" ELSE "Open"]
    IN
    /\ p.status = "Open" /\ n \in 1..p.tokens /\ price # 0 /\ p.pnl + gain <= MaxPnl
    /\ positions' = [positions EXCEPT ![id] = left]
    /\ SetUsed(p.agent, allocations[p.agent].used - n)
    /\ Emit((IF closes THEN <<[type |-> "PositionClosed", position |-> id, agent |-> p.agent,
                               pnl |-> p.pnl + gain]>>
                       ELSE <<>>)
            \o <<Trade(reduction, id, p.agent), UsedUpdated(p.agent), Trade(trade, id, p.agent)>>)
    /\ UNCHANGED <<agents, exitRules, price>>

ReducePosition(id, n) ==
    /\ agents[positions[id].agent].status = "Active"
    /\ Sell(id, n, positions[id].next, "PositionReduced", "PositionReducedFromIntent")

ExecuteExit(id) ==
    LET p == positions[id] IN
    /\ p.next < Len(exitRules[id])
    /\ Sell(id, IF exitRules[id][p.next + 1] = "all" THEN p.tokens ELSE p.tokens \div 2, p.next + 1,
            "PositionLadderExitApplied", "ExitExecuted")

ForceClose(id) ==
    /\ agents[positions[id].agent].status = "Suspended"
    /\ Sell(id, positions[id].tokens, positions[id].next, "PositionReduced", "PositionForceClosed")

UpdateExitLadder(id, pending) ==
    LET p == positions[id] IN
    /\ p.status = "Open" /\ agents[p.agent].status = "Active"
    /\ p.next + Len(pending) <= 2
    /\ exitRules' = [exitRules EXCEPT ![id] = SubSeq(@, 1, p.next) \o pending]
    /\ Emit(<<Trade("PositionExitLadderUpdated", id, p.agent),
              Trade("PositionExitLadderUpdatedFromIntent", id, p.agent)>>)
    /\ UNCHANGED <<agents, allocations, positions, price>>

\* The feed publishes a price, or its last one goes stale: no event the subgraph handles.
PriceMoves(to) ==
    /\ cursor = 0 /\ to # price /\ price' = to
    /\ UNCHANGED <<agents, allocations, positions, exitRules, log, cursor, sent>>

ContractsNext ==
    \/ RegisterAgent
    \/ \E a \in AgentIds :
        \/ \E status \in AgentStatuses : SetAgentStatus(a, status)
        \/ \E status \in AllocationStatuses : SetAllocationStatus(a, status)
        \/ PromoteAgent(a)
        \/ \E tokens \in 1..MaxTokens, ladder \in Ladders : OpenPosition(a, tokens, ladder)
    \/ \E id \in PositionIds :
        \/ AddToPosition(id) \/ ExecuteExit(id) \/ ForceClose(id)
        \/ \E n \in 1..MaxTokens : ReducePosition(id, n)
        \/ \E pending \in Ladders : UpdateExitLadder(id, pending)
    \/ \E to \in Prices : PriceMoves(to)
=============================================================================
