------------------------------ MODULE Subgraph ------------------------------
(***************************************************************************)
(* The subgraph: one handler per event (subgraph/src), run over the events *)
(* of a block in the order of its log, and committed with the block.  A    *)
(* handler that reads a contract sees the state at the END of the block,   *)
(* while its event may be an earlier one of it; some fields are written    *)
(* from the event, some from the chain, and counters are incremented.      *)
(*                                                                         *)
(* Kept from the immutable entities: whether there is an activity of a     *)
(* type for a position, and the last equity snapshot of an agent in the    *)
(* block being indexed.                                                    *)
(***************************************************************************)
EXTENDS ProtocolEvents

VARIABLES agentRows,       \* entity Agent, by agent
          allocationRows,  \* entity Allocation, by agent
          positionRows,    \* entity Position
          ruleRows,        \* entity ExitRule, by position and index
          activities,      \* entity AgentActivity: <<position, type>>
          snapshots        \* entity AgentEquitySnapshot, by agent

entityVars == <<agentRows, allocationRows, positionRows, ruleRows, activities, snapshots>>
subgraphVars == <<contractVars, log, cursor, sent, entityVars>>

NewAgent == [status |-> "Active", track |-> 0,
             positionsOpened |-> 0, positionsClosed |-> 0, openPositionCount |-> 0]
NewAllocation == [cap |-> 0, used |-> 0, status |-> "Active"]
NewPosition(a) == [agent |-> a, tokens |-> 0, status |-> "Open", next |-> 0, pnl |-> 0]

SubgraphInit ==
    /\ EventsInit
    /\ agentRows = <<>> /\ allocationRows = <<>> /\ positionRows = <<>> /\ ruleRows = <<>>
    /\ activities = {} /\ snapshots = <<>>

-----------------------------------------------------------------------------
(* lib/entities.ts, lib/position.ts, lib/equity-snapshot.ts *)

Loaded(store, key, new) == IF key \in DOMAIN store THEN store[key] ELSE new
Saved(store, key, row) == [k \in DOMAIN store \cup {key} |-> IF k = key THEN row ELSE store[k]]

loadOrCreateAgent(a) == Loaded(agentRows, a, NewAgent)
loadOrCreateAllocation(a) == Loaded(allocationRows, a, NewAllocation)
loadOrCreatePosition(id, a) == Loaded(positionRows, id, NewPosition(a))

\* The rules there are now, one entity per index; none is ever removed.
syncExitRules(id) ==
    LET now == {<<id, i>> : i \in 1..Len(exitRules[id])} IN
    ruleRows' = [k \in DOMAIN ruleRows \cup now |->
                    IF k \in now THEN exitRules[id][k[2]] ELSE ruleRows[k]]

\* The lens and the router are read at the end of the block, the cap from the entity the
\* handler has saved.
recordEquitySnapshot(a, rows) ==
    LET cap == Loaded(rows, a, NewAllocation).cap IN
    snapshots' = IF LensReverts(a) THEN snapshots
                 ELSE Saved(snapshots, a,
                        [cap |-> cap, equity |-> currentEquity(a),
                         unrealized |-> currentEquity(a) - cap - lifetimeRealizedPnl(a)])

\* applyPositionFromChain; realizedPnlUsdc is written for a closed position only.
FromChain(id, old) ==
    LET record == positions[id] IN
    [agent |-> old.agent, tokens |-> record.tokens, status |-> record.status,
     next |-> record.next, pnl |-> IF record.status = "Closed" THEN record.pnl ELSE old.pnl]
applyPositionFromChain(id, a) ==
    /\ positionRows' = Saved(positionRows, id, FromChain(id, loadOrCreatePosition(id, a)))
    /\ syncExitRules(id)

-----------------------------------------------------------------------------
(* The handlers. *)

handleAgentRegistered(ev) ==
    /\ ev.type = "AgentRegistered"
    /\ agentRows' = Saved(agentRows, ev.agent, [loadOrCreateAgent(ev.agent) EXCEPT
            !.status = agents[ev.agent].status, !.track = agents[ev.agent].track])
    /\ UNCHANGED <<allocationRows, positionRows, ruleRows, activities, snapshots>>

handleAgentStatusChanged(ev) ==
    /\ ev.type = "AgentStatusChanged"
    /\ agentRows' = Saved(agentRows, ev.agent,
            [loadOrCreateAgent(ev.agent) EXCEPT !.status = ev.status])
    /\ UNCHANGED <<allocationRows, positionRows, ruleRows, activities, snapshots>>

handleAgentPromoted(ev) ==
    /\ ev.type = "AgentPromoted"
    /\ agentRows' = Saved(agentRows, ev.agent,
            [loadOrCreateAgent(ev.agent) EXCEPT !.track = ev.track])
    /\ UNCHANGED <<allocationRows, positionRows, ruleRows, activities, snapshots>>

handleAllocationCreated(ev) ==
    /\ ev.type = "AllocationCreated"
    /\ allocationRows' = Saved(allocationRows, ev.agent, [NewAllocation EXCEPT !.cap = ev.cap])
    /\ recordEquitySnapshot(ev.agent, allocationRows')
    /\ UNCHANGED <<agentRows, positionRows, ruleRows, activities>>

\* The cap is saved before the snapshot reads it.
SavedCap(ev) == Saved(allocationRows, ev.agent,
    [loadOrCreateAllocation(ev.agent) EXCEPT !.cap = ev.cap, !.status = ev.status])
UpdatedAfterSnapshot(ev) ==
    /\ ev.type = "AllocationUpdated"
    /\ recordEquitySnapshot(ev.agent, allocationRows)
    /\ allocationRows' = SavedCap(ev)
    /\ UNCHANGED <<agentRows, positionRows, ruleRows, activities>>
handleAllocationUpdated(ev) ==
    /\ ev.type = "AllocationUpdated"
    /\ allocationRows' = SavedCap(ev)
    /\ recordEquitySnapshot(ev.agent, allocationRows')
    /\ UNCHANGED <<agentRows, positionRows, ruleRows, activities>>

handleAllocationUsedUpdated(ev) ==
    /\ ev.type = "AllocationUsedUpdated"
    /\ allocationRows' = Saved(allocationRows, ev.agent,
            [loadOrCreateAllocation(ev.agent) EXCEPT !.used = ev.used])
    /\ UNCHANGED <<agentRows, positionRows, ruleRows, activities, snapshots>>

\* The event's values are saved before the chain's, which overwrite all of them.
handlePositionOpened(ev) ==
    /\ ev.type = "PositionOpened"
    /\ agentRows' = Saved(agentRows, ev.agent, [loadOrCreateAgent(ev.agent) EXCEPT
            !.positionsOpened = @ + 1, !.openPositionCount = @ + 1])
    /\ applyPositionFromChain(ev.position, ev.agent)
    /\ recordEquitySnapshot(ev.agent, allocationRows)
    /\ UNCHANGED <<allocationRows, activities>>

\* handlePositionIncreased, handlePositionReduced and handlePositionLadderExitApplied.
handlePositionChanged(ev) ==
    /\ ev.type \in {"PositionIncreased", "PositionReduced", "PositionLadderExitApplied"}
    /\ applyPositionFromChain(ev.position, positions[ev.position].agent)
    /\ recordEquitySnapshot(ev.agent, allocationRows)
    /\ UNCHANGED <<agentRows, allocationRows, activities>>

handlePositionExitLadderUpdated(ev) ==
    /\ ev.type = "PositionExitLadderUpdated"
    /\ applyPositionFromChain(ev.position, positions[ev.position].agent)
    /\ UNCHANGED <<agentRows, allocationRows, activities, snapshots>>

\* The agent's row of a closing: the counter never goes below zero.
CountedOnce(ev) ==
    LET agent == loadOrCreateAgent(ev.agent) IN
    IF positionRows[ev.position].status = "Closed"
      THEN [agent EXCEPT !.positionsClosed = @ + 1]
      ELSE [agent EXCEPT !.positionsClosed = @ + 1, !.openPositionCount = @ - 1]
CountedClosed(ev) ==
    LET agent == loadOrCreateAgent(ev.agent) IN
    [agent EXCEPT !.positionsClosed = @ + 1,
                  !.openPositionCount = IF @ > 0 THEN @ - 1 ELSE @]

\* Counters, the chain's values, then status and PnL of the event.
handlePositionClosed(ev) ==
    LET applied == FromChain(ev.position,
                        loadOrCreatePosition(ev.position, positions[ev.position].agent)) IN
    /\ ev.type = "PositionClosed"
    /\ agentRows' = Saved(agentRows, ev.agent, CountedClosed(ev))
    /\ positionRows' = Saved(positionRows, ev.position,
            [applied EXCEPT !.status = "Closed", !.pnl = ev.pnl])
    /\ syncExitRules(ev.position)
    /\ activities' = activities \cup {<<ev.position, ev.type>>}
    /\ recordEquitySnapshot(ev.agent, allocationRows)
    /\ UNCHANGED allocationRows

\* The six handlers of TradeRouter's events save an activity and nothing else.
handleTradeRouterEvent(ev) ==
    /\ ev.type \in {"PositionOpenedFromIntent", "PositionIncreasedFromIntent",
                    "PositionReducedFromIntent", "ExitExecuted", "PositionForceClosed",
                    "PositionExitLadderUpdatedFromIntent"}
    /\ activities' = activities \cup {<<ev.position, ev.type>>}
    /\ UNCHANGED <<agentRows, allocationRows, positionRows, ruleRows, snapshots>>

Handle(ev) ==
    \/ handleAgentRegistered(ev) \/ handleAgentStatusChanged(ev) \/ handleAgentPromoted(ev)
    \/ handleAllocationCreated(ev) \/ handleAllocationUpdated(ev)
    \/ handleAllocationUsedUpdated(ev)
    \/ handlePositionOpened(ev) \/ handlePositionChanged(ev)
    \/ handlePositionExitLadderUpdated(ev) \/ handlePositionClosed(ev)
    \/ handleTradeRouterEvent(ev)

\* The handler of the next event of the block.
HandleEvent ==
    /\ cursor < Len(log) /\ Handle(log[cursor + 1]) /\ cursor' = cursor + 1
    /\ UNCHANGED <<contractVars, log, sent>>

\* What the handlers saved is one commit, and the next block begins.  Nothing reads a
\* snapshot again, so it leaves the model.
CommitBlock ==
    /\ log # <<>> /\ cursor = Len(log)
    /\ log' = <<>> /\ cursor' = 0 /\ snapshots' = <<>>
    /\ UNCHANGED <<contractVars, sent, agentRows, allocationRows, positionRows, ruleRows,
                   activities>>

SubgraphNext == (ContractsNext /\ UNCHANGED entityVars) \/ HandleEvent \/ CommitBlock

SubgraphSpec == SubgraphInit /\ [][SubgraphNext]_subgraphVars

-----------------------------------------------------------------------------
(* Properties. *)

AgentsMatch ==
    \A a \in AgentIds :
        /\ a \in DOMAIN agentRows
        /\ agentRows[a] =
            [status |-> agents[a].status, track |-> agents[a].track,
             positionsOpened |-> Cardinality(PositionsOf(a)),
             positionsClosed |-> Cardinality(PositionsOf(a) \ OpenOf(a)),
             openPositionCount |-> Cardinality(OpenOf(a))]

AllocationsMatch ==
    \A a \in AgentIds : a \in DOMAIN allocationRows /\ allocationRows[a] = allocations[a]

PositionsMatch ==
    \A id \in PositionIds :
        LET row == positionRows[id] IN
        /\ id \in DOMAIN positionRows
        /\ row = [positions[id] EXCEPT !.pnl = row.pnl]
        /\ row.status = "Closed" => row.pnl = positions[id].pnl
        /\ \A i \in 1..Len(exitRules[id]) :
            <<id, i>> \in DOMAIN ruleRows /\ ruleRows[<<id, i>>] = exitRules[id][i]

TimelineMatches ==
    \A id \in PositionIds :
        /\ <<id, "PositionOpenedFromIntent">> \in activities
        /\ <<id, "PositionClosed">> \in activities <=> positions[id].status = "Closed"

\* With every block that is indexed the entities say what the contracts say: statuses,
\* tracks, caps, used, positions with their PnL and ladders, and the counters per agent,
\* though a block may hold any mix of transactions and every handler of it but the last
\* reads a state its event has not produced (handlePositionOpened, handlePositionClosed,
\* applyPositionFromChain, handleAllocationUpdated).
EntitiesMatchChain ==
    cursor = Len(log) => AgentsMatch /\ AllocationsMatch /\ PositionsMatch /\ TimelineMatches

\* The last snapshot an agent gets in a block splits its equity as the contracts do at the
\* end of that block; the cap comes from the indexed allocation, the equity and the
\* realized PnL from the chain, and earlier snapshots of the block mix the two
\* (recordEquitySnapshot).
SnapshotsSplitEquity ==
    cursor = Len(log) => \A a \in DOMAIN snapshots :
        snapshots[a] = [cap |-> allocations[a].cap, equity |-> currentEquity(a),
                        unrealized |-> unrealizedPnl(a)]
=============================================================================
