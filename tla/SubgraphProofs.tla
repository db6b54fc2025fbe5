--------------------------- MODULE SubgraphProofs ---------------------------
(***************************************************************************)
(* That the entities of the subgraph match the contracts, and that its     *)
(* snapshots split the equity, for every number of agents, positions,      *)
(* transactions and events of a block.  The invariant relates three        *)
(* things: what a handled event has written, what a pending one will       *)
(* write, and what the contracts say.                                      *)
(***************************************************************************)
EXTENDS Subgraph, DataProofs

-----------------------------------------------------------------------------
(* What the indexer still has to do, and what it has done. *)

Pending == cursor + 1 .. Len(log)

PositionEvents == {"PositionOpened", "PositionIncreased", "PositionReduced",
                   "PositionLadderExitApplied", "PositionExitLadderUpdated", "PositionClosed"}
TradeEvents == {"PositionOpenedFromIntent", "PositionIncreasedFromIntent",
                "PositionReducedFromIntent", "ExitExecuted", "PositionForceClosed",
                "PositionExitLadderUpdatedFromIntent"}

\* What the entities say, one field of one key: the last event that writes it decides.
AgentFields == {"status", "track", "cap", "used", "allocationStatus"}
Fields == AgentFields \cup {"position"}
Keys(f) == IF f = "position" THEN PositionIds ELSE AgentIds

Writers(f) ==
    CASE f = "status" -> {"AgentRegistered", "AgentStatusChanged"}
      [] f = "track" -> {"AgentRegistered", "AgentPromoted"}
      [] f = "cap" -> {"AllocationCreated", "AllocationUpdated"}
      [] f = "used" -> {"AllocationCreated", "AllocationUsedUpdated"}
      [] f = "allocationStatus" -> {"AllocationCreated", "AllocationUpdated"}
      [] OTHER -> PositionEvents
Writes(ev, f, k) == ev.type \in Writers(f) /\ k = IF f = "position" THEN ev.position ELSE ev.agent

\* The part of a position that is compared: PnL is indexed for a closed one only.
Shown(p) == <<p.tokens, p.status, p.next, IF p.status = "Closed" THEN p.pnl ELSE 0>>

Chain(f, k) ==
    CASE f = "status" -> agents[k].status
      [] f = "track" -> agents[k].track
      [] f = "cap" -> allocations[k].cap
      [] f = "used" -> allocations[k].used
      [] f = "allocationStatus" -> allocations[k].status
      [] OTHER -> Shown(positions[k])

\* What the handler of ev writes: some of it from the event, some of it from the chain.
Written(ev, f) ==
    CASE f = "status" -> IF ev.type = "AgentRegistered" THEN agents[ev.agent].status ELSE ev.status
      [] f = "track" -> IF ev.type = "AgentRegistered" THEN agents[ev.agent].track ELSE ev.track
      [] f = "cap" -> ev.cap
      [] f = "used" -> IF ev.type = "AllocationCreated" THEN 0 ELSE ev.used
      [] f = "allocationStatus" -> IF ev.type = "AllocationCreated" THEN "Active" ELSE ev.status
      [] OTHER -> LET c == Shown(positions[ev.position]) IN
                  IF ev.type = "PositionClosed" THEN <<c[1], "Closed", c[3], ev.pnl>> ELSE c

\* The value of the row, if there is a row.
Row(f, k) ==
    CASE f = "status" -> {agentRows[a].status : a \in {k} \cap DOMAIN agentRows}
      [] f = "track" -> {agentRows[a].track : a \in {k} \cap DOMAIN agentRows}
      [] f = "cap" -> {allocationRows[a].cap : a \in {k} \cap DOMAIN allocationRows}
      [] f = "used" -> {allocationRows[a].used : a \in {k} \cap DOMAIN allocationRows}
      [] f = "allocationStatus" -> {allocationRows[a].status : a \in {k} \cap DOMAIN allocationRows}
      [] OTHER -> {Shown(positionRows[id]) : id \in {k} \cap DOMAIN positionRows}

AgentState == [status : AgentStatuses \cup {"Active"}, track : Nat]
AllocationState == [cap : Int, used : Int,
                    status : AllocationStatuses \cup {"Active", "Removed"}]
PositionState == [agent : Nat, tokens : Int, status : {"Open", "Closed"}, next : Nat, pnl : Int]
AgentRow == [status : AgentStatuses \cup {"Active"}, track : Nat,
             positionsOpened : Nat, positionsClosed : Nat, openPositionCount : Nat]

ChainInv ==
    /\ agents \in Seq(AgentState)
    /\ allocations \in Seq(AllocationState) /\ Len(allocations) = Len(agents)
    /\ positions \in Seq(PositionState)
    /\ exitRules \in Seq(Seq({"half", "all"})) /\ Len(exitRules) = Len(positions)
    /\ price \in Nat
    /\ \A id \in PositionIds : /\ positions[id].agent \in AgentIds
                               /\ positions[id].next <= Len(exitRules[id])

RowsInv ==
    /\ agentRows \in [DOMAIN agentRows -> AgentRow]
    /\ allocationRows \in [DOMAIN allocationRows -> AllocationState]
    /\ positionRows \in [DOMAIN positionRows -> PositionState]

\* What an event says of the chain as it is now.
EventTrue(ev) ==
    /\ ev.agent \in AgentIds
    /\ ev.type = "AgentStatusChanged" => ev.status \in AgentStatuses \cup {"Active"}
    /\ ev.type = "AgentPromoted" => ev.track \in Nat
    /\ ev.type \in {"AllocationCreated", "AllocationUpdated"} => ev.cap \in Int
    /\ ev.type = "AllocationUpdated" => ev.status \in AllocationStatuses \cup {"Active", "Removed"}
    /\ ev.type = "AllocationUsedUpdated" => ev.used \in Int
    /\ ev.type \in PositionEvents \cup TradeEvents =>
          ev.position \in PositionIds /\ positions[ev.position].agent = ev.agent
    /\ ev.type = "PositionClosed" => ev.pnl \in Int /\ positions[ev.position].status = "Closed"

LogInv ==
    /\ \E S : log \in Seq(S)
    /\ cursor \in 0..Len(log)
    /\ \A i \in Pending : EventTrue(log[i])

Settled ==
    \A f \in Fields : \A k \in Keys(f) :
        /\ \A i \in Pending :
              Writes(log[i], f, k) /\ (\A j \in i + 1 .. Len(log) : ~Writes(log[j], f, k))
                => Written(log[i], f) = Chain(f, k)
        /\ (\A i \in Pending : ~Writes(log[i], f, k)) => Row(f, k) = {Chain(f, k)}

RulesSynced(id) ==
    \A i \in 1..Len(exitRules[id]) :
        <<id, i>> \in DOMAIN ruleRows /\ ruleRows[<<id, i>>] = exitRules[id][i]
RulesSettled ==
    \A id \in PositionIds :
        (\A i \in Pending : ~Writes(log[i], "position", id)) => RulesSynced(id)

Opens(ev, id) == ev.type = "PositionOpened" /\ ev.position = id
Closes(ev, id) == ev.type = "PositionClosed" /\ ev.position = id
Intends(ev, id) == ev.type = "PositionOpenedFromIntent" /\ ev.position = id

\* A position is indexed once, by its PositionOpened, which is the first event of it.
Openings ==
    /\ \A id \in DOMAIN positionRows :
          id \in PositionIds /\ positionRows[id].agent = positions[id].agent
    /\ \A id \in PositionIds : id \in DOMAIN positionRows \/ \E i \in Pending : Opens(log[i], id)
    /\ \A i \in Pending : \A id \in DOMAIN positionRows : ~Opens(log[i], id)
    /\ \A i, j \in Pending : \A id \in PositionIds :
          Opens(log[i], id) /\ Writes(log[j], "position", id) /\ i # j => i < j

\* ... and closed once, by its PositionClosed.
Closings ==
    /\ \A id : <<id, "PositionClosed">> \in activities =>
          id \in PositionIds \cap DOMAIN positionRows /\ positions[id].status = "Closed"
    /\ \A id \in PositionIds : positions[id].status = "Closed" =>
          <<id, "PositionClosed">> \in activities \/ \E i \in Pending : Closes(log[i], id)
    /\ \A i \in Pending : \A id \in PositionIds :
          Closes(log[i], id) => <<id, "PositionClosed">> \notin activities
    /\ \A i, j \in Pending : \A id \in PositionIds :
          Closes(log[i], id) /\ Closes(log[j], id) => i = j

Intents ==
    \A id \in PositionIds :
        \/ <<id, "PositionOpenedFromIntent">> \in activities
        \/ \E i \in Pending : Intends(log[i], id)

\* The counters of an agent are those of the rows its events have produced.
IndexedOf(a) == {id \in DOMAIN positionRows : positionRows[id].agent = a}
ClosedRows == {id \in DOMAIN positionRows : <<id, "PositionClosed">> \in activities}
Counts(row, a) ==
    /\ row.positionsOpened = Cardinality(IndexedOf(a))
    /\ row.positionsClosed = Cardinality(IndexedOf(a) \cap ClosedRows)
    /\ row.openPositionCount = Cardinality(IndexedOf(a) \ ClosedRows)
Counters == \A a \in Nat : Counts(loadOrCreateAgent(a), a)

\* A snapshot splits the equity as it is now by the cap of the entity, which is right
\* once every event that changes it is handled.
SnapshotsInv ==
    /\ cursor = 0 => DOMAIN snapshots = {}
    /\ \A a \in DOMAIN snapshots :
          /\ a \in AgentIds /\ ~LensReverts(a)
          /\ \E cap :
                /\ snapshots[a] = [cap |-> cap, equity |-> currentEquity(a),
                                   unrealized |-> currentEquity(a) - cap - lifetimeRealizedPnl(a)]
                /\ (\A i \in Pending : ~Writes(log[i], "cap", a)) => cap = allocations[a].cap

SubgraphInv ==
    /\ ChainInv /\ RowsInv /\ LogInv /\ Settled /\ RulesSettled
    /\ Openings /\ Closings /\ Intents /\ Counters /\ SnapshotsInv

-----------------------------------------------------------------------------
(* Transactions: the block gets their events. *)

\* What a transaction has to tell for the entities to follow it: its events are true at
\* its end, and the last of them that writes a field it changed carries the new value.
Told(events) ==
    /\ \E T : events \in Seq(T)
    /\ ChainInv'
    /\ \A a \in AgentIds : a \in AgentIds'
    /\ \A id \in PositionIds :
          /\ id \in PositionIds' /\ positions'[id].agent = positions[id].agent
          /\ positions[id].status = "Closed" => positions'[id].status = "Closed"
    /\ \A i \in 1..Len(events) : EventTrue(events[i])'
    /\ \A f \in Fields : \A k \in Keys(f)' :
          \/ /\ k \in Keys(f) /\ Chain(f, k)' = Chain(f, k)
             /\ \A i \in 1..Len(events) : ~Writes(events[i], f, k)
          \/ \E i \in 1..Len(events) :
                /\ Writes(events[i], f, k) /\ Written(events[i], f)' = Chain(f, k)'
                /\ \A j \in i + 1 .. Len(events) : ~Writes(events[j], f, k)
    /\ \A id \in PositionIds' :
          \/ id \in PositionIds /\ exitRules'[id] = exitRules[id]
          \/ \E i \in 1..Len(events) : Writes(events[i], "position", id)
    /\ \A id \in PositionIds' \ PositionIds :
          /\ \E i \in 1..Len(events) : Opens(events[i], id)
          /\ \E i \in 1..Len(events) : Intends(events[i], id)
    /\ \A i \in 1..Len(events) : \A id \in PositionIds : ~Opens(events[i], id)
    /\ \A i, j \in 1..Len(events) : \A id \in PositionIds' :
          Opens(events[i], id) /\ Writes(events[j], "position", id) /\ i # j => i < j
    /\ \A id \in PositionIds' : positions'[id].status = "Closed" =>
          \/ id \in PositionIds /\ positions[id].status = "Closed"
          \/ \E i \in 1..Len(events) : Closes(events[i], id)
    /\ \A i \in 1..Len(events) : \A id \in PositionIds :
          Closes(events[i], id) => positions[id].status # "Closed"
    /\ \A i, j \in 1..Len(events) : \A id \in PositionIds' :
          Closes(events[i], id) /\ Closes(events[j], id) => i = j

\* A field no event writes, of a row nobody touches, is as it was.
LEMMA RowsUntouched ==
    ASSUME UNCHANGED <<agentRows, allocationRows, positionRows>>, NEW f, NEW k
    PROVE  Row(f, k)' = Row(f, k)
  BY DEF Row

\* An old event writes what it wrote, as long as the transaction leaves the field alone.
LEMMA WrittenKept ==
    ASSUME NEW f \in Fields, NEW k, NEW ev, Writes(ev, f, k), Chain(f, k)' = Chain(f, k)
    PROVE  Written(ev, f)' = Written(ev, f) 
<1>1. CASE f = "status"
  BY <1>1 DEF Writes, Writers, Chain, Written
<1>2. CASE f = "track"
  BY <1>2 DEF Writes, Writers, Chain, Written
<1>3. CASE f \in {"cap", "used", "allocationStatus"}
  BY <1>3 DEF Writes, Writers, Chain, Written
<1>4. CASE f = "position"
  <2> DEFINE s == Shown(positions[k])
  <2>1. k = ev.position /\ s' = s
    BY <1>4 DEF Writes, Writers, Chain
  <2> HIDE DEF s
  <2>2. Written(ev, f) = IF ev.type = "PositionClosed" THEN <<s[1], "Closed", s[3], ev.pnl>> ELSE s
    BY <1>4, <2>1 DEF Written, s
  <2>3. Written(ev, f)' = IF ev.type = "PositionClosed" THEN <<s'[1], "Closed", s'[3], ev.pnl>> ELSE s'
    BY <1>4, <2>1 DEF Written, s
  <2> QED
    BY <2>1, <2>2, <2>3
<1> QED
  BY <1>1, <1>2, <1>3, <1>4 DEF Fields, AgentFields

LEMMA TransactionKeeps ==
    ASSUME SubgraphInv, NEW events, Emit(events), Told(events), UNCHANGED entityVars
    PROVE  SubgraphInv'
<1> DEFINE n == Len(log)
           m == Len(events)
<1>1. PICK S : log \in Seq(S)
  BY DEF SubgraphInv, LogInv
<1>2. PICK T : events \in Seq(T)
  BY DEF Told
<1>3. /\ cursor = 0 /\ cursor' = 0 /\ log' = log \o events /\ n \in Nat /\ m \in Nat
      /\ Pending = 1..n
  BY <1>1, <1>2 DEF Emit, Pending
<1>4. /\ log' \in Seq(S \cup T) /\ Len(log') = n + m
      /\ \A i \in 1..n : log'[i] = log[i]
      /\ \A i \in 1..m : log'[n + i] = events[i]
  BY <1>1, <1>2, <1>3, ConcatFacts
<1>5. Pending' = 1 .. n + m
  BY <1>3, <1>4 DEF Pending
<1>6. \A i \in Pending' : \/ i \in 1..n /\ log'[i] = log[i]
                          \/ i - n \in 1..m /\ log'[i] = events[i - n]
  <2> SUFFICES ASSUME NEW i \in Pending', i \notin 1..n PROVE i - n \in 1..m /\ log'[i] = events[i - n]
    BY <1>4
  <2>1. i \in Int /\ i - n \in 1..m /\ n + (i - n) = i
    BY <1>3, <1>5
  <2>2. log'[n + (i - n)] = events[i - n]
    BY <1>4, <2>1
  <2> QED
    BY <2>1, <2>2
<1>7. \A i \in 1..m : n + i \in Pending' /\ log'[n + i] = events[i]
  BY <1>3, <1>4, <1>5
<1>8. \A i \in 1..n : i \in Pending' /\ log'[i] = log[i]
  BY <1>3, <1>4, <1>5
<1> HIDE DEF n, m
<1>10. ChainInv'
  BY DEF Told
<1>11. RowsInv'
  BY DEF SubgraphInv, RowsInv, entityVars
<1>12. LogInv'
  <2>1. ASSUME NEW i \in Pending' PROVE EventTrue(log[i])'
    <3>1. CASE i \in 1..n /\ log'[i] = log[i]
      <4>1. EventTrue(log[i])
        BY <1>3, <3>1 DEF SubgraphInv, LogInv
      <4>2. /\ \A a \in AgentIds : a \in AgentIds'
            /\ \A id \in PositionIds :
                  /\ id \in PositionIds' /\ positions'[id].agent = positions[id].agent
                  /\ positions[id].status = "Closed" => positions'[id].status = "Closed"
        BY DEF Told
      <4>3. ASSUME NEW e, EventTrue(e) PROVE EventTrue(e)'
        <5>1. (e.agent \in AgentIds)'
          BY <4>2, <4>3 DEF EventTrue
        <5>2. (e.type \in PositionEvents \cup TradeEvents =>
                 e.position \in PositionIds /\ positions[e.position].agent = e.agent)'
          BY <4>2, <4>3 DEF EventTrue
        <5>3. (e.type = "PositionClosed" => e.pnl \in Int /\ positions[e.position].status = "Closed")'
          BY <4>2, <4>3 DEF EventTrue, PositionEvents
        <5> QED
          BY <4>3, <5>1, <5>2, <5>3 DEF EventTrue
      <4>4. PICK e : e = log[i]
        OBVIOUS
      <4>5. EventTrue(e)'
        BY <4>1, <4>3, <4>4
      <4> QED
        BY <3>1, <4>4, <4>5 DEF EventTrue
    <3>2. CASE i - n \in 1..m /\ log'[i] = events[i - n]
      BY <3>2 DEF Told, m, EventTrue
    <3> QED
      BY <1>6, <3>1, <3>2
  <2>2. (\E R : log \in Seq(R))'
    BY <1>4
  <2>3. (cursor \in 0..Len(log))'
    BY <1>3, <1>4
  <2> QED
    BY <2>1, <2>2, <2>3 DEF LogInv
<1>13. Settled'
  <2> SUFFICES ASSUME NEW f \in Fields, NEW k \in Keys(f)'
               PROVE  /\ \A i \in Pending' :
                            /\ Writes(log'[i], f, k)
                            /\ \A j \in i + 1 .. Len(log') : ~Writes(log'[j], f, k)
                            => Written(log[i], f)' = Chain(f, k)'
                      /\ (\A i \in Pending' : ~Writes(log'[i], f, k)) => Row(f, k)' = {Chain(f, k)'}
    BY DEF Settled, Writes
  <2>1. CASE /\ k \in Keys(f) /\ Chain(f, k)' = Chain(f, k)
             /\ \A i \in 1..m : ~Writes(events[i], f, k)
    <3>1. /\ \A i \in 1..n :
                Writes(log[i], f, k) /\ (\A j \in i + 1 .. n : ~Writes(log[j], f, k))
                  => Written(log[i], f) = Chain(f, k)
          /\ (\A i \in 1..n : ~Writes(log[i], f, k)) => Row(f, k) = {Chain(f, k)}
      BY <1>3, <2>1 DEF SubgraphInv, Settled, n
    <3>2. ASSUME NEW i \in Pending', Writes(log'[i], f, k),
                 \A j \in i + 1 .. Len(log') : ~Writes(log'[j], f, k)
          PROVE  Written(log[i], f)' = Chain(f, k)'
      <4>1. i \in 1..n /\ log'[i] = log[i]
        BY <1>6, <2>1, <3>2
      <4>2. \A j \in i + 1 .. n : ~Writes(log[j], f, k)
        BY <1>3, <1>4, <3>2, <4>1
      <4>3. Written(log[i], f) = Chain(f, k)
        BY <3>1, <3>2, <4>1, <4>2
      <4> DEFINE ev == log[i]
      <4>4. ev' = ev /\ Writes(ev, f, k)
        BY <4>1, <3>2
      <4> HIDE DEF ev
      <4>5. Written(ev, f)' = Written(ev, f)
        <5>1. PICK e : e = ev
          OBVIOUS
        <5>2. Written(e, f)' = Written(e, f)
          BY <2>1, <4>4, <5>1, WrittenKept
        <5> QED
          BY <5>1, <5>2, <4>4 DEF Written
      <4> QED
        BY <4>3, <4>5, <2>1 DEF ev
    <3>3. ASSUME \A i \in Pending' : ~Writes(log'[i], f, k) PROVE Row(f, k)' = {Chain(f, k)'}
      <4>1. \A i \in 1..n : ~Writes(log[i], f, k)
        BY <1>8, <3>3
      <4> QED
        BY <3>1, <4>1, <2>1, RowsUntouched DEF entityVars
    <3> QED
      BY <3>2, <3>3
  <2>2. ASSUME NEW l \in 1..m, Writes(events[l], f, k), Written(events[l], f)' = Chain(f, k)',
               \A j \in l + 1 .. m : ~Writes(events[j], f, k)
        PROVE  /\ \A i \in Pending' :
                     /\ Writes(log'[i], f, k)
                     /\ \A j \in i + 1 .. Len(log') : ~Writes(log'[j], f, k)
                     => Written(log[i], f)' = Chain(f, k)'
               /\ (\A i \in Pending' : ~Writes(log'[i], f, k)) => Row(f, k)' = {Chain(f, k)'}
    <3>1. n + l \in Pending' /\ log'[n + l] = events[l] /\ Writes(log'[n + l], f, k)
      BY <1>7, <2>2
    <3>2. ASSUME NEW i \in Pending', Writes(log'[i], f, k),
                 \A j \in i + 1 .. Len(log') : ~Writes(log'[j], f, k)
          PROVE  Written(log[i], f)' = Chain(f, k)'
      <4>1. ~(n + l \in i + 1 .. Len(log'))
        BY <3>1, <3>2
      <4>2. n + l <= i
        BY <1>3, <1>4, <1>5, <4>1, <3>1
      <4>3. i \in Int /\ i \notin 1..n /\ i - n >= l
        BY <1>3, <1>5, <4>2
      <4>5. i - n \in 1..m /\ log'[i] = events[i - n]
        BY <1>6, <4>3
      <4>4. i - n = l
        BY <2>2, <3>2, <4>3, <4>5, <1>3
      <4> QED
        BY <4>4, <4>5, <2>2 DEF Written
    <3> QED
      BY <3>1, <3>2
  <2> QED
    BY <2>1, <2>2 DEF Told, m
<1>14. RulesSettled'
  <2> SUFFICES ASSUME NEW id \in PositionIds', \A i \in Pending' : ~Writes(log'[i], "position", id)
               PROVE  RulesSynced(id)'
    BY DEF RulesSettled, Writes
  <2>1. id \in PositionIds /\ exitRules'[id] = exitRules[id]
    BY <1>7 DEF Told, m
  <2>2. RulesSynced(id)
    BY <2>1, <1>3, <1>8 DEF SubgraphInv, RulesSettled
  <2> QED
    BY <2>1, <2>2 DEF RulesSynced, entityVars
<1>15. Openings'
  <2>1. \A id \in DOMAIN positionRows' :
           id \in PositionIds' /\ positionRows'[id].agent = positions'[id].agent
    BY DEF SubgraphInv, Openings, Told, entityVars
  <2>2. ASSUME NEW id \in PositionIds'
        PROVE  id \in DOMAIN positionRows' \/ \E i \in Pending' : Opens(log'[i], id)
    <3>1. CASE id \in PositionIds
      BY <1>3, <1>8, <3>1 DEF SubgraphInv, Openings, entityVars
    <3>2. CASE id \notin PositionIds
      <4>1. PICK i \in 1..m : Opens(events[i], id)
        BY <3>2 DEF Told, m
      <4> QED
        BY <1>7, <4>1
    <3> QED
      BY <3>1, <3>2
  <2>3. \A i \in Pending' : \A id \in DOMAIN positionRows' : ~Opens(log'[i], id)
    BY <1>3, <1>6 DEF SubgraphInv, Openings, Told, entityVars, m
  <2>4. ASSUME NEW i \in Pending', NEW j \in Pending', NEW id \in PositionIds',
               Opens(log'[i], id), Writes(log'[j], "position", id), i # j
        PROVE  i < j
    <3>1. CASE i \in 1..n /\ log'[i] = log[i]
      <4>1. id \in PositionIds
        BY <3>1, <2>4, <1>3 DEF SubgraphInv, LogInv, EventTrue, Opens, PositionEvents
      <4>2. CASE j \in 1..n /\ log'[j] = log[j]
        BY <3>1, <4>1, <4>2, <2>4, <1>3 DEF SubgraphInv, Openings
      <4>3. CASE j - n \in 1..m
        BY <3>1, <4>3, <1>3, <1>5
      <4> QED
        BY <4>2, <4>3, <1>6
    <3>2. CASE i - n \in 1..m /\ log'[i] = events[i - n]
      <4>1. id \notin PositionIds
        BY <3>2, <2>4 DEF Told, m
      <4>2. CASE j \in 1..n /\ log'[j] = log[j]
        BY <4>1, <4>2, <2>4, <1>3 DEF SubgraphInv, LogInv, EventTrue, Writes, Writers
      <4>3. CASE j - n \in 1..m /\ log'[j] = events[j - n]
        <5>1. i - n # j - n
          BY <1>3, <1>5, <2>4
        <5>2. i - n < j - n
          BY <5>1, <3>2, <4>3, <2>4 DEF Told, m
        <5> QED
          BY <5>2, <1>3, <1>5
      <4> QED
        BY <4>2, <4>3, <1>6
    <3> QED
      BY <3>1, <3>2, <1>6
  <2> QED
    BY <2>1, <2>2, <2>3, <2>4 DEF Openings, Opens, Writes
<1>16. Closings'
  <2>1. \A id : <<id, "PositionClosed">> \in activities' =>
           id \in PositionIds' \cap DOMAIN positionRows' /\ positions'[id].status = "Closed"
    BY DEF SubgraphInv, Closings, Told, entityVars
  <2>2. \A id \in PositionIds' : positions'[id].status = "Closed" =>
           <<id, "PositionClosed">> \in activities' \/ \E i \in Pending' : Closes(log'[i], id)
    <3> SUFFICES ASSUME NEW id \in PositionIds', positions'[id].status = "Closed",
                        <<id, "PositionClosed">> \notin activities
                 PROVE  \E i \in Pending' : Closes(log'[i], id)
      BY DEF entityVars
    <3>1. CASE id \in PositionIds /\ positions[id].status = "Closed"
      <4>1. PICK i \in Pending : Closes(log[i], id)
        BY <3>1 DEF SubgraphInv, Closings
      <4> QED
        BY <4>1, <1>3, <1>8 DEF Closes
    <3>2. CASE ~(id \in PositionIds /\ positions[id].status = "Closed")
      <4>1. PICK i \in 1..m : Closes(events[i], id)
        BY <3>2 DEF Told, m
      <4> QED
        BY <4>1, <1>7 DEF Closes
    <3> QED
      BY <3>1, <3>2
  <2>3. \A i \in Pending' : \A id \in PositionIds' :
           Closes(log'[i], id) => <<id, "PositionClosed">> \notin activities'
    <3> SUFFICES ASSUME NEW i \in Pending', NEW id \in PositionIds', Closes(log'[i], id),
                        <<id, "PositionClosed">> \in activities
                 PROVE  FALSE
      BY DEF entityVars
    <3>1. id \in PositionIds /\ positions[id].status = "Closed"
      BY DEF SubgraphInv, Closings
    <3>2. CASE i \in 1..n /\ log'[i] = log[i]
      BY <3>1, <3>2, <1>3 DEF SubgraphInv, Closings
    <3>3. CASE i - n \in 1..m /\ log'[i] = events[i - n]
      BY <3>1, <3>3 DEF Told, m
    <3> QED
      BY <3>2, <3>3, <1>6
  <2>4. ASSUME NEW i \in Pending', NEW j \in Pending', NEW id \in PositionIds',
               Closes(log'[i], id), Closes(log'[j], id)
        PROVE  i = j
    <3>1. \A l \in 1..n : Closes(log[l], id) => id \in PositionIds /\ positions[id].status = "Closed"
      BY <1>3 DEF SubgraphInv, LogInv, EventTrue, Closes, PositionEvents
    <3>2. \A l \in 1..m : Closes(events[l], id) => ~(id \in PositionIds /\ positions[id].status = "Closed")
      BY DEF Told, m
    <3>3. CASE i \in 1..n /\ log'[i] = log[i] /\ j \in 1..n /\ log'[j] = log[j]
      BY <3>1, <3>3, <2>4, <1>3 DEF SubgraphInv, Closings
    <3>4. CASE /\ i - n \in 1..m /\ log'[i] = events[i - n] 
               /\ j - n \in 1..m /\ log'[j] = events[j - n]
      <4>1. i - n = j - n
        BY <3>4, <2>4 DEF Told, m
      <4> QED
        BY <4>1, <1>3, <1>5
    <3> QED
      BY <3>1, <3>2, <3>3, <3>4, <1>6, <2>4
  <2> QED
    BY <2>1, <2>2, <2>3, <2>4 DEF Closings, Closes
<1>17. Intents'
  <2>1. \A id \in PositionIds' : \/ <<id, "PositionOpenedFromIntent">> \in activities'
                                 \/ \E i \in Pending' : Intends(log'[i], id)
    <3> SUFFICES ASSUME NEW id \in PositionIds',
                        <<id, "PositionOpenedFromIntent">> \notin activities
                 PROVE  \E i \in Pending' : Intends(log'[i], id)
      BY DEF entityVars
    <3>1. CASE id \in PositionIds
      <4>1. PICK i \in Pending : Intends(log[i], id)
        BY <3>1 DEF SubgraphInv, Intents
      <4> QED
        BY <4>1, <1>3, <1>8 DEF Intends
    <3>2. CASE id \notin PositionIds
      <4>1. PICK i \in 1..m : Intends(events[i], id)
        BY <3>2 DEF Told, m
      <4> QED
        BY <4>1, <1>7 DEF Intends
    <3> QED
      BY <3>1, <3>2
  <2> QED
    BY <2>1 DEF Intents, Intends
<1>18. Counters'
  <2>1. /\ \A a : loadOrCreateAgent(a)' = loadOrCreateAgent(a) /\ IndexedOf(a)' = IndexedOf(a)
        /\ ClosedRows' = ClosedRows
    BY DEF loadOrCreateAgent, Loaded, IndexedOf, ClosedRows, entityVars
  <2> QED
    BY <2>1 DEF SubgraphInv, Counters, Counts
<1>19. SnapshotsInv'
  BY <1>3 DEF SubgraphInv, SnapshotsInv, entityVars
<1> QED
  BY <1>10, <1>11, <1>12, <1>13, <1>14, <1>15, <1>16, <1>17, <1>18, <1>19 DEF SubgraphInv

-----------------------------------------------------------------------------
(* Handlers: what each of them saves. *)

SnapshotEvents == {"AllocationCreated", "AllocationUpdated", "PositionOpened",
                   "PositionIncreased", "PositionReduced", "PositionLadderExitApplied",
                   "PositionClosed"}

\* What handling ev does to the entities, whichever handler it is.
Handled(ev) ==
    /\ RowsInv'
    /\ \A f \in Fields : \A k :
          IF Writes(ev, f, k) THEN Row(f, k)' = {Written(ev, f)}
                              ELSE Row(f, k)' = Row(f, k) \/ Row(f, k) = {}
    /\ \A id \in PositionIds :
          RulesSynced(id) \/ Writes(ev, "position", id) => RulesSynced(id)'
    /\ DOMAIN positionRows' =
          IF ev.type \in PositionEvents THEN DOMAIN positionRows \cup {ev.position}
                                        ELSE DOMAIN positionRows
    /\ \A id \in DOMAIN positionRows' :
          positionRows'[id].agent = IF id \in DOMAIN positionRows THEN positionRows[id].agent
                                                                  ELSE ev.agent
    /\ activities' = IF ev.type \in TradeEvents \cup {"PositionClosed"}
                     THEN activities \cup {<<ev.position, ev.type>>} ELSE activities
    /\ \A a \in Nat :
          LET old == loadOrCreateAgent(a)
              new == loadOrCreateAgent(a)'
          IN  /\ new.positionsOpened =
                    IF ev.type = "PositionOpened" /\ a = ev.agent
                    THEN old.positionsOpened + 1 ELSE old.positionsOpened
              /\ new.positionsClosed =
                    IF ev.type = "PositionClosed" /\ a = ev.agent
                    THEN old.positionsClosed + 1 ELSE old.positionsClosed
              /\ new.openPositionCount =
                    IF ev.type = "PositionOpened" /\ a = ev.agent
                    THEN old.openPositionCount + 1
                    ELSE IF ev.type = "PositionClosed" /\ a = ev.agent
                            /\ old.openPositionCount > 0
                    THEN old.openPositionCount - 1 ELSE old.openPositionCount
    /\ IF ev.type \in SnapshotEvents THEN recordEquitySnapshot(ev.agent, allocationRows')
                                     ELSE snapshots' = snapshots

LEMMA SavedFacts ==
    ASSUME NEW store, NEW key, NEW row
    PROVE  /\ DOMAIN Saved(store, key, row) = DOMAIN store \cup {key}
           /\ Saved(store, key, row)[key] = row
           /\ \A k \in DOMAIN store : k # key => Saved(store, key, row)[k] = store[k]
  BY DEF Saved

LEMMA SavedType ==
    ASSUME NEW store, NEW key, NEW S, NEW row \in S, store \in [DOMAIN store -> S]
    PROVE  Saved(store, key, row) \in [DOMAIN Saved(store, key, row) -> S]
  BY DEF Saved

LEMMA LoadedType ==
    ASSUME RowsInv, NEW k
    PROVE  /\ loadOrCreateAgent(k) \in AgentRow
           /\ loadOrCreateAllocation(k) \in AllocationState
           /\ \A a \in Nat : loadOrCreatePosition(k, a) \in PositionState
<1>1. NewAgent \in AgentRow
  BY DEF NewAgent, AgentRow
<1>2. NewAllocation \in AllocationState
  BY DEF NewAllocation, AllocationState
<1>3. \A a \in Nat : NewPosition(a) \in PositionState
  BY DEF NewPosition, PositionState
<1> QED
  BY <1>1, <1>2, <1>3
     DEF RowsInv, loadOrCreateAgent, loadOrCreateAllocation, loadOrCreatePosition, Loaded

\* The fields of a saved row are its own, those of the others stay.
LEMMA AgentSaved ==
    ASSUME NEW b, NEW r, agentRows' = Saved(agentRows, b, r), NEW k
    PROVE  /\ Row("status", k)' = IF k = b THEN {r.status} ELSE Row("status", k)
           /\ Row("track", k)' = IF k = b THEN {r.track} ELSE Row("track", k)
           /\ loadOrCreateAgent(k)' = IF k = b THEN r ELSE loadOrCreateAgent(k)
<1>1. /\ DOMAIN agentRows' = DOMAIN agentRows \cup {b} /\ agentRows'[b] = r
      /\ \A a \in DOMAIN agentRows : a # b => agentRows'[a] = agentRows[a]
  BY DEF Saved
<1> QED
  BY <1>1 DEF Row, loadOrCreateAgent, Loaded

LEMMA AgentKept ==
    ASSUME agentRows' = agentRows, NEW k
    PROVE  /\ Row("status", k)' = Row("status", k)
           /\ Row("track", k)' = Row("track", k)
           /\ loadOrCreateAgent(k)' = loadOrCreateAgent(k)
  BY DEF Row, loadOrCreateAgent, Loaded

LEMMA AllocationSaved ==
    ASSUME NEW b, NEW r, allocationRows' = Saved(allocationRows, b, r), NEW k
    PROVE  /\ Row("cap", k)' = IF k = b THEN {r.cap} ELSE Row("cap", k)
           /\ Row("used", k)' = IF k = b THEN {r.used} ELSE Row("used", k)
           /\ Row("allocationStatus", k)' =
                IF k = b THEN {r.status} ELSE Row("allocationStatus", k)
<1>1. /\ DOMAIN allocationRows' = DOMAIN allocationRows \cup {b} /\ allocationRows'[b] = r
      /\ \A a \in DOMAIN allocationRows : a # b => allocationRows'[a] = allocationRows[a]
  BY DEF Saved
<1> QED
  BY <1>1 DEF Row

LEMMA AllocationKept ==
    ASSUME allocationRows' = allocationRows, NEW k
    PROVE  /\ Row("cap", k)' = Row("cap", k)
           /\ Row("used", k)' = Row("used", k)
           /\ Row("allocationStatus", k)' = Row("allocationStatus", k)
  BY DEF Row

LEMMA PositionSaved ==
    ASSUME NEW b, NEW r, positionRows' = Saved(positionRows, b, r), NEW k
    PROVE  Row("position", k)' = IF k = b THEN {Shown(r)} ELSE Row("position", k)
<1>1. /\ DOMAIN positionRows' = DOMAIN positionRows \cup {b} /\ positionRows'[b] = r
      /\ \A a \in DOMAIN positionRows : a # b => positionRows'[a] = positionRows[a]
  BY DEF Saved
<1> QED
  BY <1>1 DEF Row, Shown

LEMMA PositionKept ==
    ASSUME positionRows' = positionRows, NEW k
    PROVE  Row("position", k)' = Row("position", k)
  BY DEF Row, Shown

LEMMA RulesKept ==
    ASSUME ruleRows' = ruleRows, exitRules' = exitRules, NEW id, RulesSynced(id)
    PROVE  RulesSynced(id)'
  BY DEF RulesSynced

\* The rules of a position that is synced are those of the chain, and no other's change.
LEMMA RulesSync ==
    ASSUME NEW b, syncExitRules(b), exitRules' = exitRules, NEW id, RulesSynced(id) \/ id = b
    PROVE  RulesSynced(id)'
<1> DEFINE now == {<<b, i>> : i \in 1..Len(exitRules[b])}
<1>1. /\ DOMAIN ruleRows' = DOMAIN ruleRows \cup now
      /\ \A k \in DOMAIN ruleRows \cup now :
            ruleRows'[k] = IF k \in now THEN exitRules[b][k[2]] ELSE ruleRows[k]
  BY DEF syncExitRules
<1>2. SUFFICES ASSUME NEW i \in 1..Len(exitRules[id])
               PROVE  <<id, i>> \in DOMAIN ruleRows' /\ ruleRows'[<<id, i>>] = exitRules[id][i]
  BY DEF RulesSynced
<1>3. CASE id = b
  <2>1. <<id, i>> \in now /\ <<id, i>>[2] = i
    BY <1>3
  <2> HIDE DEF now
  <2> QED
    BY <1>1, <1>3, <2>1
<1>4. CASE id # b
  <2>1. <<id, i>> \in DOMAIN ruleRows /\ ruleRows[<<id, i>>] = exitRules[id][i]
    BY <1>4 DEF RulesSynced
  <2>2. <<id, i>> \notin now
    BY <1>4
  <2> HIDE DEF now
  <2> QED
    BY <1>1, <2>1, <2>2
<1> QED
  BY <1>3, <1>4

LEMMA RowShown ==
    ASSUME NEW k
    PROVE  /\ Row("status", k) \in {{}, {loadOrCreateAgent(k).status}}
           /\ Row("track", k) \in {{}, {loadOrCreateAgent(k).track}}
           /\ Row("cap", k) \in {{}, {loadOrCreateAllocation(k).cap}}
           /\ Row("used", k) \in {{}, {loadOrCreateAllocation(k).used}}
           /\ Row("allocationStatus", k) \in {{}, {loadOrCreateAllocation(k).status}}
<1>1. /\ Row("status", k) \in {{}, {loadOrCreateAgent(k).status}}
      /\ Row("track", k) \in {{}, {loadOrCreateAgent(k).track}}
  <2>1. CASE k \in DOMAIN agentRows
    BY <2>1 DEF Row, loadOrCreateAgent, Loaded
  <2>2. CASE k \notin DOMAIN agentRows
    BY <2>2 DEF Row
  <2> QED
    BY <2>1, <2>2
<1>2. /\ Row("cap", k) \in {{}, {loadOrCreateAllocation(k).cap}}
      /\ Row("used", k) \in {{}, {loadOrCreateAllocation(k).used}}
      /\ Row("allocationStatus", k) \in {{}, {loadOrCreateAllocation(k).status}}
  <2>1. CASE k \in DOMAIN allocationRows
    BY <2>1 DEF Row, loadOrCreateAllocation, Loaded
  <2>2. CASE k \notin DOMAIN allocationRows
    BY <2>2 DEF Row
  <2> QED
    BY <2>1, <2>2
<1> QED
  BY <1>1, <1>2

\* AgentRegistered, AgentStatusChanged, AgentPromoted: one row of an agent.
LEMMA AgentHandled ==
    ASSUME RowsInv, NEW ev, ev.type \in {"AgentRegistered", "AgentStatusChanged", "AgentPromoted"},
           UNCHANGED <<contractVars, allocationRows, positionRows, ruleRows, activities, snapshots>>,
           NEW old, old = loadOrCreateAgent(ev.agent),
           NEW r \in AgentRow, agentRows' = Saved(agentRows, ev.agent, r),
           r.status = IF ev.type = "AgentPromoted" THEN old.status ELSE Written(ev, "status"),
           r.track = IF ev.type = "AgentStatusChanged" THEN old.track ELSE Written(ev, "track"),
           r.positionsOpened = old.positionsOpened, r.positionsClosed = old.positionsClosed,
           r.openPositionCount = old.openPositionCount
    PROVE  Handled(ev)
<1>1. RowsInv'
  <2>1. agentRows' \in [DOMAIN agentRows' -> AgentRow]
    BY SavedType DEF RowsInv
  <2> QED
    BY <2>1 DEF RowsInv
<1>2. ASSUME NEW f \in Fields, NEW k
      PROVE  IF Writes(ev, f, k) THEN Row(f, k)' = {Written(ev, f)}
                                 ELSE Row(f, k)' = Row(f, k) \/ Row(f, k) = {}
  <2>1. CASE f = "status"
    <3>1. Writes(ev, f, k) <=> ev.type # "AgentPromoted" /\ k = ev.agent
      BY <2>1 DEF Writes, Writers
    <3>2. Row("status", k)' = IF k = ev.agent THEN {r.status} ELSE Row("status", k)
      BY AgentSaved
    <3>3. Row("status", k) \in {{}, {loadOrCreateAgent(k).status}}
      BY RowShown
    <3> QED
      BY <2>1, <3>1, <3>2, <3>3
  <2>2. CASE f = "track"
    <3>1. Writes(ev, f, k) <=> ev.type # "AgentStatusChanged" /\ k = ev.agent
      BY <2>2 DEF Writes, Writers
    <3>2. Row("track", k)' = IF k = ev.agent THEN {r.track} ELSE Row("track", k)
      BY AgentSaved
    <3>3. Row("track", k) \in {{}, {loadOrCreateAgent(k).track}}
      BY RowShown
    <3> QED
      BY <2>2, <3>1, <3>2, <3>3
  <2>3. CASE f \in {"cap", "used", "allocationStatus", "position"}
    <3>1. ~Writes(ev, f, k)
      BY <2>3 DEF Writes, Writers, PositionEvents
    <3> QED
      BY <2>3, <3>1, AllocationKept, PositionKept
  <2> QED
    BY <2>1, <2>2, <2>3 DEF Fields, AgentFields
<1>3. \A id : ~Writes(ev, "position", id)
  BY DEF Writes, Writers, PositionEvents
<1>4. \A id \in PositionIds : RulesSynced(id) \/ Writes(ev, "position", id) => RulesSynced(id)'
  BY <1>3, RulesKept DEF contractVars
<1>5. \A a : loadOrCreateAgent(a)' = IF a = ev.agent THEN r ELSE loadOrCreateAgent(a)
  BY AgentSaved
<1>6. ev.type \notin PositionEvents \cup TradeEvents \cup SnapshotEvents
  BY DEF PositionEvents, TradeEvents, SnapshotEvents
<1>7. ev.type # "PositionOpened" /\ ev.type # "PositionClosed"
  OBVIOUS
<1> QED
  BY <1>1, <1>2, <1>4, <1>5, <1>6, <1>7 DEF Handled

LEMMA AgentHandlers ==
    ASSUME RowsInv, ChainInv, NEW ev, EventTrue(ev), UNCHANGED contractVars,
           handleAgentRegistered(ev) \/ handleAgentStatusChanged(ev) \/ handleAgentPromoted(ev)
    PROVE  Handled(ev)
<1> DEFINE old == loadOrCreateAgent(ev.agent)
<1>1. old \in AgentRow
  BY LoadedType
<1>2. ev.agent \in AgentIds /\ agents[ev.agent] \in AgentState
  BY DEF EventTrue, ChainInv, AgentIds
<1>3. CASE handleAgentRegistered(ev)
  <2> DEFINE r == [old EXCEPT !.status = agents[ev.agent].status, !.track = agents[ev.agent].track]
  <2>1. agentRows' = Saved(agentRows, ev.agent, r) /\ ev.type = "AgentRegistered"
    BY <1>3 DEF handleAgentRegistered
  <2>2. /\ r \in AgentRow /\ r.status = agents[ev.agent].status /\ r.track = agents[ev.agent].track
        /\ r.positionsOpened = old.positionsOpened /\ r.positionsClosed = old.positionsClosed
        /\ r.openPositionCount = old.openPositionCount
    <3> HIDE DEF old
    <3> QED
      BY <1>1, <1>2 DEF AgentRow, AgentState
  <2>3. Written(ev, "status") = r.status /\ Written(ev, "track") = r.track
    BY <2>1, <2>2 DEF Written
  <2>4. UNCHANGED <<allocationRows, positionRows, ruleRows, activities, snapshots>>
    BY <1>3 DEF handleAgentRegistered
  <2>5. old = loadOrCreateAgent(ev.agent)
    OBVIOUS
  <2> HIDE DEF r, old
  <2> QED
    BY <2>1, <2>2, <2>3, <2>4, <2>5, AgentHandled
<1>4. CASE handleAgentStatusChanged(ev)
  <2> DEFINE r == [old EXCEPT !.status = ev.status]
  <2>1. agentRows' = Saved(agentRows, ev.agent, r) /\ ev.type = "AgentStatusChanged"
    BY <1>4 DEF handleAgentStatusChanged
  <2>2. /\ r \in AgentRow /\ r.status = ev.status /\ r.track = old.track
        /\ r.positionsOpened = old.positionsOpened /\ r.positionsClosed = old.positionsClosed
        /\ r.openPositionCount = old.openPositionCount
    <3>1. ev.status \in AgentStatuses \cup {"Active"}
      BY <2>1 DEF EventTrue
    <3> HIDE DEF old
    <3> QED
      BY <1>1, <3>1 DEF AgentRow
  <2>3. Written(ev, "status") = r.status
    BY <2>1, <2>2 DEF Written
  <2>4. UNCHANGED <<allocationRows, positionRows, ruleRows, activities, snapshots>>
    BY <1>4 DEF handleAgentStatusChanged
  <2>5. old = loadOrCreateAgent(ev.agent)
    OBVIOUS
  <2> HIDE DEF r, old
  <2> QED
    BY <2>1, <2>2, <2>3, <2>4, <2>5, AgentHandled
<1>5. CASE handleAgentPromoted(ev)
  <2> DEFINE r == [old EXCEPT !.track = ev.track]
  <2>1. agentRows' = Saved(agentRows, ev.agent, r) /\ ev.type = "AgentPromoted"
    BY <1>5 DEF handleAgentPromoted
  <2>2. /\ r \in AgentRow /\ r.status = old.status /\ r.track = ev.track
        /\ r.positionsOpened = old.positionsOpened /\ r.positionsClosed = old.positionsClosed
        /\ r.openPositionCount = old.openPositionCount
    <3>1. ev.track \in Nat
      BY <2>1 DEF EventTrue
    <3> HIDE DEF old
    <3> QED
      BY <1>1, <3>1 DEF AgentRow
  <2>3. Written(ev, "track") = r.track
    BY <2>1, <2>2 DEF Written
  <2>4. UNCHANGED <<allocationRows, positionRows, ruleRows, activities, snapshots>>
    BY <1>5 DEF handleAgentPromoted
  <2>5. old = loadOrCreateAgent(ev.agent)
    OBVIOUS
  <2> HIDE DEF r, old
  <2> QED
    BY <2>1, <2>2, <2>3, <2>4, <2>5, AgentHandled
<1> QED
  BY <1>3, <1>4, <1>5

\* AllocationCreated, AllocationUpdated, AllocationUsedUpdated: one row of an allocation.
LEMMA AllocationHandled ==
    ASSUME RowsInv, NEW ev,
           ev.type \in {"AllocationCreated", "AllocationUpdated", "AllocationUsedUpdated"},
           UNCHANGED <<contractVars, agentRows, positionRows, ruleRows, activities>>,
           NEW old, old = loadOrCreateAllocation(ev.agent),
           NEW r \in AllocationState, allocationRows' = Saved(allocationRows, ev.agent, r),
           r.cap = IF ev.type = "AllocationUsedUpdated" THEN old.cap ELSE Written(ev, "cap"),
           r.used = IF ev.type = "AllocationUpdated" THEN old.used ELSE Written(ev, "used"),
           r.status = IF ev.type = "AllocationUsedUpdated" THEN old.status
                                                         ELSE Written(ev, "allocationStatus"),
           IF ev.type = "AllocationUsedUpdated" THEN snapshots' = snapshots
                                                ELSE recordEquitySnapshot(ev.agent, allocationRows')
    PROVE  Handled(ev)
<1>1. RowsInv'
  <2>1. allocationRows' \in [DOMAIN allocationRows' -> AllocationState]
    BY SavedType DEF RowsInv
  <2> QED
    BY <2>1 DEF RowsInv
<1>2. ASSUME NEW f \in Fields, NEW k
      PROVE  IF Writes(ev, f, k) THEN Row(f, k)' = {Written(ev, f)}
                                 ELSE Row(f, k)' = Row(f, k) \/ Row(f, k) = {}
  <2>1. CASE f = "cap"
    <3>1. Writes(ev, f, k) <=> ev.type # "AllocationUsedUpdated" /\ k = ev.agent
      BY <2>1 DEF Writes, Writers
    <3>2. Row("cap", k)' = IF k = ev.agent THEN {r.cap} ELSE Row("cap", k)
      BY AllocationSaved
    <3>3. Row("cap", k) \in {{}, {loadOrCreateAllocation(k).cap}}
      BY RowShown
    <3> QED
      BY <2>1, <3>1, <3>2, <3>3
  <2>2. CASE f = "used"
    <3>1. Writes(ev, f, k) <=> ev.type # "AllocationUpdated" /\ k = ev.agent
      BY <2>2 DEF Writes, Writers
    <3>2. Row("used", k)' = IF k = ev.agent THEN {r.used} ELSE Row("used", k)
      BY AllocationSaved
    <3>3. Row("used", k) \in {{}, {loadOrCreateAllocation(k).used}}
      BY RowShown
    <3> QED
      BY <2>2, <3>1, <3>2, <3>3
  <2>3. CASE f = "allocationStatus"
    <3>1. Writes(ev, f, k) <=> ev.type # "AllocationUsedUpdated" /\ k = ev.agent
      BY <2>3 DEF Writes, Writers
    <3>2. Row("allocationStatus", k)' =
             IF k = ev.agent THEN {r.status} ELSE Row("allocationStatus", k)
      BY AllocationSaved
    <3>3. Row("allocationStatus", k) \in {{}, {loadOrCreateAllocation(k).status}}
      BY RowShown
    <3> QED
      BY <2>3, <3>1, <3>2, <3>3
  <2>4. CASE f \in {"status", "track", "position"}
    <3>1. ~Writes(ev, f, k)
      BY <2>4 DEF Writes, Writers, PositionEvents
    <3> QED
      BY <2>4, <3>1, AgentKept, PositionKept
  <2> QED
    BY <2>1, <2>2, <2>3, <2>4 DEF Fields, AgentFields
<1>3. \A id : ~Writes(ev, "position", id)
  BY DEF Writes, Writers, PositionEvents
<1>4. \A id \in PositionIds : RulesSynced(id) \/ Writes(ev, "position", id) => RulesSynced(id)'
  BY <1>3, RulesKept DEF contractVars
<1>5. \A a : loadOrCreateAgent(a)' = loadOrCreateAgent(a)
  BY AgentKept
<1>6. /\ ev.type \notin PositionEvents \cup TradeEvents
      /\ ev.type \in SnapshotEvents <=> ev.type # "AllocationUsedUpdated"
  BY DEF PositionEvents, TradeEvents, SnapshotEvents
<1>7. ev.type # "PositionOpened" /\ ev.type # "PositionClosed"
  OBVIOUS
<1> QED
  BY <1>1, <1>2, <1>4, <1>5, <1>6, <1>7 DEF Handled

LEMMA AllocationHandlers ==
    ASSUME RowsInv, NEW ev, EventTrue(ev), UNCHANGED contractVars,
           \/ handleAllocationCreated(ev) \/ handleAllocationUpdated(ev)
           \/ handleAllocationUsedUpdated(ev)
    PROVE  Handled(ev)
<1> DEFINE old == loadOrCreateAllocation(ev.agent)
<1>1. old \in AllocationState
  BY LoadedType
<1>3. CASE handleAllocationCreated(ev)
  <2> DEFINE r == [NewAllocation EXCEPT !.cap = ev.cap]
  <2>1. allocationRows' = Saved(allocationRows, ev.agent, r) /\ ev.type = "AllocationCreated"
    BY <1>3 DEF handleAllocationCreated
  <2>2. r \in AllocationState /\ r.cap = ev.cap /\ r.used = 0 /\ r.status = "Active"
    <3>1. ev.cap \in Int
      BY <2>1 DEF EventTrue
    <3> QED
      BY <3>1 DEF NewAllocation, AllocationState
  <2>3. /\ Written(ev, "cap") = r.cap /\ Written(ev, "used") = r.used
        /\ Written(ev, "allocationStatus") = r.status
    BY <2>1, <2>2 DEF Written
  <2>4. /\ UNCHANGED <<agentRows, positionRows, ruleRows, activities>>
        /\ recordEquitySnapshot(ev.agent, allocationRows')
    BY <1>3 DEF handleAllocationCreated
  <2>5. old = loadOrCreateAllocation(ev.agent)
    OBVIOUS
  <2> HIDE DEF r, old
  <2> QED
    BY <2>1, <2>2, <2>3, <2>4, <2>5, AllocationHandled
<1>4. CASE handleAllocationUpdated(ev)
  <2> DEFINE r == [old EXCEPT !.cap = ev.cap, !.status = ev.status]
  <2>1. allocationRows' = Saved(allocationRows, ev.agent, r) /\ ev.type = "AllocationUpdated"
    BY <1>4 DEF handleAllocationUpdated, SavedCap
  <2>2. r \in AllocationState /\ r.cap = ev.cap /\ r.used = old.used /\ r.status = ev.status
    <3>1. ev.cap \in Int /\ ev.status \in AllocationStatuses \cup {"Active", "Removed"}
      BY <2>1 DEF EventTrue
    <3> HIDE DEF old
    <3> QED
      BY <1>1, <3>1 DEF AllocationState
  <2>3. Written(ev, "cap") = r.cap /\ Written(ev, "allocationStatus") = r.status
    BY <2>1, <2>2 DEF Written
  <2>4. /\ UNCHANGED <<agentRows, positionRows, ruleRows, activities>>
        /\ recordEquitySnapshot(ev.agent, allocationRows')
    BY <1>4 DEF handleAllocationUpdated
  <2>5. old = loadOrCreateAllocation(ev.agent)
    OBVIOUS
  <2> HIDE DEF r, old
  <2> QED
    BY <2>1, <2>2, <2>3, <2>4, <2>5, AllocationHandled
<1>5. CASE handleAllocationUsedUpdated(ev)
  <2> DEFINE r == [old EXCEPT !.used = ev.used]
  <2>1. allocationRows' = Saved(allocationRows, ev.agent, r) /\ ev.type = "AllocationUsedUpdated"
    BY <1>5 DEF handleAllocationUsedUpdated
  <2>2. r \in AllocationState /\ r.cap = old.cap /\ r.used = ev.used /\ r.status = old.status
    <3>1. ev.used \in Int
      BY <2>1 DEF EventTrue
    <3> HIDE DEF old
    <3> QED
      BY <1>1, <3>1 DEF AllocationState
  <2>3. Written(ev, "used") = r.used
    BY <2>1, <2>2 DEF Written
  <2>4. UNCHANGED <<agentRows, positionRows, ruleRows, activities, snapshots>>
    BY <1>5 DEF handleAllocationUsedUpdated
  <2>5. old = loadOrCreateAllocation(ev.agent)
    OBVIOUS
  <2> HIDE DEF r, old
  <2> QED
    BY <2>1, <2>2, <2>3, <2>4, <2>5, AllocationHandled
<1> QED
  BY <1>3, <1>4, <1>5

\* An event of PositionManager: the row of a position and its rules, and for the first
\* and the last event of a position the counters of its agent.
LEMMA PositionHandled ==
    ASSUME RowsInv, NEW ev, ev.type \in PositionEvents, ev.agent \in Nat,
           UNCHANGED <<contractVars, allocationRows>>,
           NEW r \in PositionState, positionRows' = Saved(positionRows, ev.position, r),
           Shown(r) = Written(ev, "position"),
           r.agent = IF ev.position \in DOMAIN positionRows THEN positionRows[ev.position].agent
                                                            ELSE ev.agent,
           syncExitRules(ev.position),
           NEW old, old = loadOrCreateAgent(ev.agent),
           \/ agentRows' = agentRows /\ ev.type \notin {"PositionOpened", "PositionClosed"}
           \/ \E q \in AgentRow :
                /\ ev.type \in {"PositionOpened", "PositionClosed"}
                /\ agentRows' = Saved(agentRows, ev.agent, q)
                /\ q.status = old.status /\ q.track = old.track
                /\ q.positionsOpened = IF ev.type = "PositionOpened"
                                       THEN old.positionsOpened + 1 ELSE old.positionsOpened
                /\ q.positionsClosed = IF ev.type = "PositionClosed"
                                       THEN old.positionsClosed + 1 ELSE old.positionsClosed
                /\ q.openPositionCount =
                      IF ev.type = "PositionOpened" THEN old.openPositionCount + 1
                      ELSE IF old.openPositionCount > 0 THEN old.openPositionCount - 1
                      ELSE old.openPositionCount,
           activities' = IF ev.type = "PositionClosed" THEN activities \cup {<<ev.position, ev.type>>}
                                                       ELSE activities,
           IF ev.type = "PositionExitLadderUpdated" THEN snapshots' = snapshots
                                                    ELSE recordEquitySnapshot(ev.agent, allocationRows')
    PROVE  Handled(ev)
<1>1. PICK q : \/ agentRows' = agentRows /\ ev.type \notin {"PositionOpened", "PositionClosed"}
               \/ /\ q \in AgentRow
                  /\ ev.type \in {"PositionOpened", "PositionClosed"}
                  /\ agentRows' = Saved(agentRows, ev.agent, q)
                  /\ q.status = old.status /\ q.track = old.track
                  /\ q.positionsOpened = IF ev.type = "PositionOpened"
                                         THEN old.positionsOpened + 1 ELSE old.positionsOpened
                  /\ q.positionsClosed = IF ev.type = "PositionClosed"
                                         THEN old.positionsClosed + 1 ELSE old.positionsClosed
                  /\ q.openPositionCount =
                        IF ev.type = "PositionOpened" THEN old.openPositionCount + 1
                        ELSE IF old.openPositionCount > 0 THEN old.openPositionCount - 1
                        ELSE old.openPositionCount
  OBVIOUS
<1>2. ASSUME NEW k
      PROVE  /\ Row("status", k)' = Row("status", k) \/ Row("status", k) = {}
             /\ Row("track", k)' = Row("track", k) \/ Row("track", k) = {}
             /\ loadOrCreateAgent(k)' = loadOrCreateAgent(k)
                  \/ (k = ev.agent /\ agentRows' # agentRows /\ loadOrCreateAgent(k)' = q)
  <2>1. CASE agentRows' = agentRows
    BY <2>1, AgentKept
  <2>2. CASE agentRows' = Saved(agentRows, ev.agent, q) /\ agentRows' # agentRows
    <3>1. /\ Row("status", k)' = IF k = ev.agent THEN {q.status} ELSE Row("status", k)
          /\ Row("track", k)' = IF k = ev.agent THEN {q.track} ELSE Row("track", k)
          /\ loadOrCreateAgent(k)' = IF k = ev.agent THEN q ELSE loadOrCreateAgent(k)
      BY <2>2, AgentSaved
    <3>2. /\ Row("status", k) \in {{}, {loadOrCreateAgent(k).status}}
          /\ Row("track", k) \in {{}, {loadOrCreateAgent(k).track}}
      BY RowShown
    <3>3. q.status = old.status /\ q.track = old.track
      BY <2>2, <1>1
    <3> QED
      BY <2>2, <3>1, <3>2, <3>3
  <2> QED
    BY <2>1, <2>2, <1>1
<1>3. RowsInv'
  <2>1. positionRows' \in [DOMAIN positionRows' -> PositionState]
    BY SavedType DEF RowsInv
  <2>2. agentRows' \in [DOMAIN agentRows' -> AgentRow]
    BY <1>1, SavedType DEF RowsInv
  <2> QED
    BY <2>1, <2>2 DEF RowsInv
<1>4. ASSUME NEW f \in Fields, NEW k
      PROVE  IF Writes(ev, f, k) THEN Row(f, k)' = {Written(ev, f)}
                                 ELSE Row(f, k)' = Row(f, k) \/ Row(f, k) = {}
  <2>1. CASE f = "position"
    <3>1. Writes(ev, f, k) <=> k = ev.position
      BY <2>1 DEF Writes, Writers
    <3> QED
      BY <2>1, <3>1, PositionSaved
  <2>2. CASE f \in AgentFields
    <3>1. ~Writes(ev, f, k)
      BY <2>2 DEF Writes, Writers, PositionEvents, AgentFields
    <3> QED
      BY <2>2, <3>1, <1>2, AllocationKept DEF AgentFields
  <2> QED
    BY <2>1, <2>2 DEF Fields
<1>5. \A id \in PositionIds : RulesSynced(id) \/ Writes(ev, "position", id) => RulesSynced(id)'
  <2>1. \A id : Writes(ev, "position", id) => id = ev.position
    BY DEF Writes
  <2> QED
    BY <2>1, RulesSync DEF contractVars
<1>6. /\ DOMAIN positionRows' = DOMAIN positionRows \cup {ev.position}
      /\ \A id \in DOMAIN positionRows' :
            positionRows'[id].agent = IF id \in DOMAIN positionRows THEN positionRows[id].agent
                                                                    ELSE ev.agent
  <2>1. /\ DOMAIN positionRows' = DOMAIN positionRows \cup {ev.position}
        /\ \A id \in DOMAIN positionRows' :
              positionRows'[id] = IF id = ev.position THEN r ELSE positionRows[id]
    BY DEF Saved
  <2> QED
    BY <2>1
<1>7. ASSUME NEW a \in Nat
      PROVE  /\ loadOrCreateAgent(a)'.positionsOpened =
                    IF ev.type = "PositionOpened" /\ a = ev.agent
                    THEN loadOrCreateAgent(a).positionsOpened + 1
                    ELSE loadOrCreateAgent(a).positionsOpened
             /\ loadOrCreateAgent(a)'.positionsClosed =
                    IF ev.type = "PositionClosed" /\ a = ev.agent
                    THEN loadOrCreateAgent(a).positionsClosed + 1
                    ELSE loadOrCreateAgent(a).positionsClosed
             /\ loadOrCreateAgent(a)'.openPositionCount =
                    IF ev.type = "PositionOpened" /\ a = ev.agent
                    THEN loadOrCreateAgent(a).openPositionCount + 1
                    ELSE IF ev.type = "PositionClosed" /\ a = ev.agent
                            /\ loadOrCreateAgent(a).openPositionCount > 0
                    THEN loadOrCreateAgent(a).openPositionCount - 1
                    ELSE loadOrCreateAgent(a).openPositionCount
  <2>1. CASE agentRows' = agentRows /\ ev.type \notin {"PositionOpened", "PositionClosed"}
    BY <2>1, AgentKept
  <2>2. CASE ev.type \in {"PositionOpened", "PositionClosed"}
    <3>1. loadOrCreateAgent(a)' = IF a = ev.agent THEN q ELSE loadOrCreateAgent(a)
      BY <1>1, <2>2, AgentSaved
    <3> QED
      BY <1>1, <2>2, <3>1
  <2> QED
    BY <2>1, <2>2, <1>1
<1>8. /\ ev.type \in TradeEvents \cup {"PositionClosed"} <=> ev.type = "PositionClosed"
      /\ ev.type \in SnapshotEvents <=> ev.type # "PositionExitLadderUpdated"
  BY DEF PositionEvents, TradeEvents, SnapshotEvents
<1> QED
  BY <1>3, <1>4, <1>5, <1>6, <1>7, <1>8 DEF Handled

\* What applyPositionFromChain saves.
LEMMA FromChainFacts ==
    ASSUME RowsInv, ChainInv, NEW id \in PositionIds, NEW a \in Nat
    PROVE  LET old == loadOrCreatePosition(id, a)
               r == FromChain(id, old)
           IN  /\ r \in PositionState /\ Shown(r) = Shown(positions[id])
               /\ r.tokens = positions[id].tokens /\ r.next = positions[id].next
               /\ r.agent = IF id \in DOMAIN positionRows THEN positionRows[id].agent ELSE a
<1> DEFINE old == loadOrCreatePosition(id, a)
           r == FromChain(id, old)
           p == positions[id]
<1>1. p \in PositionState
  BY DEF ChainInv, PositionIds
<1>2. old \in PositionState
  BY LoadedType
<1>3. old.agent = IF id \in DOMAIN positionRows THEN positionRows[id].agent ELSE a
  BY DEF loadOrCreatePosition, Loaded, NewPosition
<1>4. r = [agent |-> old.agent, tokens |-> p.tokens, status |-> p.status,
           next |-> p.next, pnl |-> IF p.status = "Closed" THEN p.pnl ELSE old.pnl]
  BY DEF FromChain
<1> HIDE DEF old, p, r
<1>5. r \in PositionState /\ r.agent = old.agent /\ r.tokens = p.tokens /\ r.next = p.next
      /\ r.status = p.status /\ (p.status = "Closed" => r.pnl = p.pnl)
  BY <1>1, <1>2, <1>4 DEF PositionState
<1>6. Shown(r) = Shown(p)
  BY <1>5 DEF Shown
<1> QED
  BY <1>3, <1>5, <1>6 DEF p, r, old

LEMMA CountersType ==
    ASSUME NEW old \in AgentRow, NEW x \in Nat, NEW y \in Nat
    PROVE  /\ [old EXCEPT !.positionsOpened = x, !.openPositionCount = y] \in AgentRow
           /\ [old EXCEPT !.positionsClosed = x, !.openPositionCount = y] \in AgentRow
  BY DEF AgentRow

LEMMA PositionHandlers ==
    ASSUME RowsInv, ChainInv, NEW ev, EventTrue(ev), UNCHANGED contractVars,
           \/ handlePositionOpened(ev) \/ handlePositionChanged(ev)
           \/ handlePositionExitLadderUpdated(ev) \/ handlePositionClosed(ev)
    PROVE  Handled(ev)
<1> DEFINE id == ev.position
           old == loadOrCreateAgent(ev.agent)
<1>1. ev.type \in PositionEvents
  BY DEF handlePositionOpened, handlePositionChanged, handlePositionExitLadderUpdated,
         handlePositionClosed, PositionEvents
<1>2. id \in PositionIds /\ positions[id].agent = ev.agent /\ ev.agent \in Nat
  BY <1>1 DEF EventTrue, AgentIds, ChainInv
<1>3. old \in AgentRow /\ old = loadOrCreateAgent(ev.agent)
  BY LoadedType
<1>4. ev.type # "PositionClosed" => Written(ev, "position") = Shown(positions[id])
  BY DEF Written
<1> DEFINE r == FromChain(id, loadOrCreatePosition(id, ev.agent))
<1>5. /\ r \in PositionState /\ Shown(r) = Shown(positions[id])
      /\ r.tokens = positions[id].tokens /\ r.next = positions[id].next
      /\ r.agent = IF id \in DOMAIN positionRows THEN positionRows[id].agent ELSE ev.agent
  BY <1>2, FromChainFacts
<1>6. CASE handlePositionOpened(ev)
  <2> DEFINE q == [old EXCEPT !.positionsOpened = @ + 1, !.openPositionCount = @ + 1]
  <2>1. /\ ev.type = "PositionOpened" /\ agentRows' = Saved(agentRows, ev.agent, q)
        /\ positionRows' = Saved(positionRows, id, r) /\ syncExitRules(id)
        /\ recordEquitySnapshot(ev.agent, allocationRows)
        /\ allocationRows' = allocationRows /\ activities' = activities
    BY <1>6 DEF handlePositionOpened, applyPositionFromChain
  <2>2. /\ q \in AgentRow /\ q.status = old.status /\ q.track = old.track
        /\ q.positionsOpened = old.positionsOpened + 1 /\ q.positionsClosed = old.positionsClosed
        /\ q.openPositionCount = old.openPositionCount + 1
    <3> HIDE DEF old
    <3>1. /\ old.positionsOpened \in Nat /\ old.positionsClosed \in Nat
          /\ old.openPositionCount \in Nat
      BY <1>3 DEF AgentRow
    <3>2. /\ q.status = old.status /\ q.track = old.track
      BY <1>3 DEF AgentRow
    <3>3. q.positionsOpened = old.positionsOpened + 1
      BY <1>3 DEF AgentRow
    <3>4. q.positionsClosed = old.positionsClosed
      BY <1>3 DEF AgentRow
    <3>5. q.openPositionCount = old.openPositionCount + 1
      BY <1>3 DEF AgentRow
    <3>6. q \in AgentRow
      <4>1. old.positionsOpened + 1 \in Nat /\ old.openPositionCount + 1 \in Nat
        BY <3>1
      <4> QED
        BY <1>3, <4>1, CountersType
    <3> QED
      BY <3>2, <3>3, <3>4, <3>5, <3>6
  <2>3. recordEquitySnapshot(ev.agent, allocationRows')
    BY <2>1
  <2> HIDE DEF q, old, r, id
  <2> QED
    BY <1>1, <1>2, <1>3, <1>4, <1>5, <2>1, <2>2, <2>3, PositionHandled DEF id
<1>7. CASE handlePositionChanged(ev)
  <2>1. /\ ev.type \in {"PositionIncreased", "PositionReduced", "PositionLadderExitApplied"}
        /\ positionRows' = Saved(positionRows, id, r) /\ syncExitRules(id)
        /\ recordEquitySnapshot(ev.agent, allocationRows)
        /\ agentRows' = agentRows /\ allocationRows' = allocationRows /\ activities' = activities
    BY <1>2, <1>7 DEF handlePositionChanged, applyPositionFromChain
  <2>2. recordEquitySnapshot(ev.agent, allocationRows')
    BY <2>1
  <2> HIDE DEF old, r, id
  <2> QED
    BY <1>1, <1>2, <1>3, <1>4, <1>5, <2>1, <2>2, PositionHandled DEF id
<1>8. CASE handlePositionExitLadderUpdated(ev)
  <2>1. /\ ev.type = "PositionExitLadderUpdated"
        /\ positionRows' = Saved(positionRows, id, r) /\ syncExitRules(id)
        /\ agentRows' = agentRows /\ allocationRows' = allocationRows /\ activities' = activities
        /\ snapshots' = snapshots
    BY <1>2, <1>8 DEF handlePositionExitLadderUpdated, applyPositionFromChain
  <2> HIDE DEF old, r, id
  <2> QED
    BY <1>1, <1>2, <1>3, <1>4, <1>5, <2>1, PositionHandled DEF id
<1>9. CASE handlePositionClosed(ev)
  <2> DEFINE q == [old EXCEPT !.positionsClosed = @ + 1,
                              !.openPositionCount = IF @ > 0 THEN @ - 1 ELSE @]
             s == [r EXCEPT !.status = "Closed", !.pnl = ev.pnl]
  <2>1. /\ ev.type = "PositionClosed" /\ agentRows' = Saved(agentRows, ev.agent, q)
        /\ positionRows' = Saved(positionRows, id, s) /\ syncExitRules(id)
        /\ recordEquitySnapshot(ev.agent, allocationRows)
        /\ allocationRows' = allocationRows
        /\ activities' = activities \cup {<<ev.position, ev.type>>}
    BY <1>2, <1>9 DEF handlePositionClosed, CountedClosed
  <2>2. /\ q \in AgentRow /\ q.status = old.status /\ q.track = old.track
        /\ q.positionsOpened = old.positionsOpened /\ q.positionsClosed = old.positionsClosed + 1
        /\ q.openPositionCount = IF old.openPositionCount > 0 THEN old.openPositionCount - 1
                                                              ELSE old.openPositionCount
    <3> HIDE DEF old
    <3>1. /\ old.positionsOpened \in Nat /\ old.positionsClosed \in Nat
          /\ old.openPositionCount \in Nat
      BY <1>3 DEF AgentRow
    <3>2. /\ q.status = old.status /\ q.track = old.track
      BY <1>3 DEF AgentRow
    <3>3. q.positionsOpened = old.positionsOpened
      BY <1>3 DEF AgentRow
    <3>4. q.positionsClosed = old.positionsClosed + 1
      BY <1>3 DEF AgentRow
    <3>5. q.openPositionCount = IF old.openPositionCount > 0 THEN old.openPositionCount - 1
                                                         ELSE old.openPositionCount
      BY <1>3 DEF AgentRow
    <3>6. q \in AgentRow
      <4> DEFINE left == IF old.openPositionCount > 0 THEN old.openPositionCount - 1
                                                      ELSE old.openPositionCount
      <4>1. old.positionsClosed + 1 \in Nat /\ left \in Nat
        BY <3>1
      <4>2. q = [old EXCEPT !.positionsClosed = old.positionsClosed + 1, !.openPositionCount = left]
        OBVIOUS
      <4> HIDE DEF left, q
      <4> QED
        BY <1>3, <4>1, <4>2, CountersType
    <3> QED
      BY <3>2, <3>3, <3>4, <3>5, <3>6
  <2>3. recordEquitySnapshot(ev.agent, allocationRows')
    BY <2>1
  <2>4. /\ s \in PositionState /\ s.agent = r.agent /\ s.tokens = r.tokens /\ s.next = r.next
        /\ s.status = "Closed" /\ s.pnl = ev.pnl
    <3>1. ev.pnl \in Int
      BY <2>1 DEF EventTrue
    <3> HIDE DEF r
    <3> QED
      BY <1>5, <3>1 DEF PositionState
  <2>5. Shown(s) = Written(ev, "position")
    <3> DEFINE c == Shown(positions[id])
    <3>1. Written(ev, "position") = <<c[1], "Closed", c[3], ev.pnl>>
      BY <2>1 DEF Written
    <3>2. c[1] = positions[id].tokens /\ c[3] = positions[id].next
      BY DEF Shown
    <3>3. Shown(s) = <<s.tokens, "Closed", s.next, ev.pnl>>
      BY <2>4 DEF Shown
    <3> HIDE DEF c, s, r, id
    <3> QED
      BY <3>1, <3>2, <3>3, <2>4, <1>5
  <2> HIDE DEF q, s, old, r, id
  <2> QED
    BY <1>1, <1>2, <1>3, <1>5, <2>1, <2>2, <2>3, <2>4, <2>5, PositionHandled DEF id
<1> QED
  BY <1>6, <1>7, <1>8, <1>9

LEMMA TradeHandler ==
    ASSUME RowsInv, NEW ev, UNCHANGED contractVars, handleTradeRouterEvent(ev)
    PROVE  Handled(ev)
<1>1. /\ ev.type \in TradeEvents /\ activities' = activities \cup {<<ev.position, ev.type>>}
      /\ UNCHANGED <<agentRows, allocationRows, positionRows, ruleRows, snapshots>>
  BY DEF handleTradeRouterEvent, TradeEvents
<1>2. RowsInv'
  BY <1>1 DEF RowsInv
<1>3. \A f \in Fields : \A k : ~Writes(ev, f, k)
  BY <1>1 DEF Fields, AgentFields, Writes, Writers, TradeEvents, PositionEvents
<1>4. \A f : \A k : Row(f, k)' = Row(f, k)
  BY <1>1, RowsUntouched
<1>5. \A id \in PositionIds : RulesSynced(id) \/ Writes(ev, "position", id) => RulesSynced(id)'
  <2>1. "position" \in Fields
    BY DEF Fields
  <2> QED
    BY <1>1, <1>3, <2>1, RulesKept DEF contractVars
<1>6. \A a : loadOrCreateAgent(a)' = loadOrCreateAgent(a)
  BY <1>1, AgentKept
<1>7. /\ ev.type \notin PositionEvents \cup SnapshotEvents
      /\ ev.type # "PositionOpened" /\ ev.type # "PositionClosed"
  BY <1>1 DEF TradeEvents, PositionEvents, SnapshotEvents
<1> QED
  BY <1>1, <1>2, <1>3, <1>4, <1>5, <1>6, <1>7 DEF Handled

-----------------------------------------------------------------------------
(* The handler of the next event keeps the invariant. *)

\* The contracts stand still.
LEMMA ChainStands ==
    ASSUME UNCHANGED <<contractVars, log>>
    PROVE  /\ \A f : Keys(f)' = Keys(f) /\ \A k : Chain(f, k)' = Chain(f, k)
           /\ \A e, f : Written(e, f)' = Written(e, f)
           /\ \A e : EventTrue(e) => EventTrue(e)'
           /\ \A a : LensReverts(a)' = LensReverts(a)
           /\ \A a : currentEquity(a)' = currentEquity(a)
           /\ \A a : lifetimeRealizedPnl(a)' = lifetimeRealizedPnl(a)
           /\ ChainInv => ChainInv'
<1>1. /\ agents' = agents /\ allocations' = allocations /\ positions' = positions
      /\ exitRules' = exitRules /\ price' = price
  BY DEF contractVars
<1>2. AgentIds' = AgentIds /\ PositionIds' = PositionIds
  BY <1>1 DEF AgentIds, PositionIds
<1>3. \A f : Keys(f)' = Keys(f) /\ \A k : Chain(f, k)' = Chain(f, k)
  BY <1>1, <1>2 DEF Keys, Chain
<1>4. \A e, f : Written(e, f)' = Written(e, f)
  BY <1>1 DEF Written
<1>5. \A e : EventTrue(e) => EventTrue(e)'
  BY <1>1, <1>2 DEF EventTrue
<1>6. \A a : /\ PositionsOf(a)' = PositionsOf(a) /\ OpenOf(a)' = OpenOf(a)
             /\ LensReverts(a)' = LensReverts(a)
  BY <1>1, <1>2 DEF PositionsOf, OpenOf, LensReverts
<1>7. \A a : lifetimeRealizedPnl(a)' = lifetimeRealizedPnl(a) /\ unrealizedPnl(a)' = unrealizedPnl(a)
  BY <1>1, <1>2, <1>6 DEF lifetimeRealizedPnl, unrealizedPnl
<1>8. \A a : currentEquity(a)' = currentEquity(a)
  BY <1>1, <1>7 DEF currentEquity
<1>9. ChainInv => ChainInv'
  BY <1>1, <1>2 DEF ChainInv
<1> QED
  BY <1>3, <1>4, <1>5, <1>6, <1>7, <1>8, <1>9

LEMMA IndexedFinite ==
    ASSUME ChainInv, Openings, NEW a
    PROVE  IsFiniteSet(IndexedOf(a))
<1>1. IndexedOf(a) \subseteq 1..Len(positions) /\ Len(positions) \in Nat
  BY DEF IndexedOf, Openings, PositionIds, ChainInv
<1>2. IsFiniteSet(1..Len(positions))
  BY <1>1, FS_Interval
<1> QED
  BY <1>1, <1>2, FS_Subset

LEMMA AddOne ==
    ASSUME NEW S, IsFiniteSet(S), NEW x, x \notin S
    PROVE  Cardinality(S \cup {x}) = Cardinality(S) + 1
  BY FS_AddElement

LEMMA RemoveOne ==
    ASSUME NEW S, IsFiniteSet(S), NEW x \in S
    PROVE  Cardinality(S) \in Nat /\ Cardinality(S) > 0 /\ Cardinality(S \ {x}) = Cardinality(S) - 1
<1>1. IsFiniteSet(S \ {x}) /\ (S \ {x}) \cup {x} = S /\ x \notin S \ {x}
  BY FS_Subset
<1>2. Cardinality(S \ {x}) \in Nat
  BY <1>1, FS_CardinalityType
<1>3. Cardinality(S) = Cardinality(S \ {x}) + 1
  BY <1>1, AddOne
<1> QED
  BY <1>2, <1>3

\* A handled event of a position that is not its PositionOpened finds the row.
LEMMA RowThere ==
    ASSUME SubgraphInv, cursor < Len(log), log[cursor + 1].type \in PositionEvents
    PROVE  LET ev == log[cursor + 1]
           IN  /\ ev.position \in PositionIds /\ positions[ev.position].agent = ev.agent
               /\ ev.position \in DOMAIN positionRows <=> ev.type # "PositionOpened"
<1> DEFINE c == cursor + 1
           ev == log[c]
           id == ev.position
<1>1. c \in Pending /\ \A i \in Pending : ~(i < c)
  BY DEF SubgraphInv, LogInv, Pending
<1>2. EventTrue(ev)
  BY <1>1 DEF SubgraphInv, LogInv
<1>3. id \in PositionIds /\ positions[id].agent = ev.agent
  BY <1>2 DEF EventTrue
<1>4. ev.type = "PositionOpened" => id \notin DOMAIN positionRows
  BY <1>1 DEF SubgraphInv, Openings, Opens
<1>5. ASSUME id \notin DOMAIN positionRows PROVE ev.type = "PositionOpened"
  <2>1. PICK i \in Pending : Opens(log[i], id)
    BY <1>3, <1>5 DEF SubgraphInv, Openings
  <2>2. Writes(ev, "position", id)
    BY DEF Writes, Writers
  <2>3. i = c
    BY <1>1, <1>3, <2>1, <2>2 DEF SubgraphInv, Openings
  <2> QED
    BY <2>1, <2>3 DEF Opens
<1> QED
  BY <1>3, <1>4, <1>5

LEMMA HandleKeeps ==
    ASSUME SubgraphInv, HandleEvent
    PROVE  SubgraphInv'
<1> DEFINE n == Len(log)
           c == cursor + 1
           ev == log[c]
<1>1. /\ n \in Nat /\ c \in 1..n /\ c \in Pending /\ c \notin Pending'
      /\ Pending = c .. n /\ Pending' = c + 1 .. n /\ cursor' = c /\ log' = log
      /\ UNCHANGED <<contractVars, log>>
  BY DEF SubgraphInv, LogInv, HandleEvent, Pending
<1>2. \A i \in Pending' : i \in Pending /\ i # c /\ ~(i < c)
  BY <1>1
<1>3. \A i \in Pending : i = c \/ i \in Pending'
  BY <1>1
<1>4. EventTrue(ev)
  BY <1>1 DEF SubgraphInv, LogInv
<1>5. Handle(ev) /\ UNCHANGED contractVars
  BY DEF HandleEvent
<1> HIDE DEF ev
<1>6. Handled(ev)
  BY <1>4, <1>5, AgentHandlers, AllocationHandlers, PositionHandlers, TradeHandler
     DEF SubgraphInv, Handle
<1> USE DEF ev
<1>7. ev.type \in PositionEvents =>
         /\ ev.position \in PositionIds /\ positions[ev.position].agent = ev.agent
         /\ ev.position \in DOMAIN positionRows <=> ev.type # "PositionOpened"
  BY RowThere DEF SubgraphInv, LogInv, HandleEvent
<1> HIDE DEF n, c, ev
<1>8. /\ agents' = agents /\ allocations' = allocations /\ positions' = positions
      /\ exitRules' = exitRules /\ price' = price
      /\ AgentIds' = AgentIds /\ PositionIds' = PositionIds
  BY <1>5 DEF contractVars, AgentIds, PositionIds
<1>10. ChainInv'
  BY <1>1, ChainStands DEF SubgraphInv
<1>11. RowsInv'
  BY <1>6 DEF Handled
<1>12. LogInv'
  <2>1. \A i \in Pending' : EventTrue(log[i])
    BY <1>2 DEF SubgraphInv, LogInv
  <2>2. \A e : EventTrue(e) => EventTrue(e)'
    BY <1>1, ChainStands
  <2>3. ASSUME NEW i \in Pending' PROVE EventTrue(log[i])'
    <3>1. PICK e : e = log[i]
      OBVIOUS
    <3>2. EventTrue(e)'
      BY <2>1, <2>2, <3>1
    <3> QED
      BY <1>1, <3>1, <3>2 DEF EventTrue
  <2>4. (\E S : log \in Seq(S))'
    BY <1>1 DEF SubgraphInv, LogInv
  <2>5. (cursor \in 0..Len(log))'
    BY <1>1 DEF n
  <2> QED
    BY <2>3, <2>4, <2>5 DEF LogInv
<1>13. Settled'
  <2> SUFFICES ASSUME NEW f \in Fields, NEW k \in Keys(f)
               PROVE  /\ \A i \in Pending' :
                            /\ Writes(log[i], f, k)
                            /\ \A j \in i + 1 .. n : ~Writes(log[j], f, k)
                            => Written(log[i], f) = Chain(f, k)
                      /\ (\A i \in Pending' : ~Writes(log[i], f, k)) => Row(f, k)' = {Chain(f, k)}
    <3>2. \A g \in Fields : Keys(g)' = Keys(g) /\ \A l : Chain(g, l)' = Chain(g, l)
      BY <1>1, ChainStands
    <3>3. \A g \in Fields : \A i : Written(log[i], g)' = Written(log[i], g)
      <4> TAKE g \in Fields
      <4> TAKE i
      <4>1. PICK e : e = log[i]
        OBVIOUS
      <4>2. Written(e, g)' = Written(e, g)
        BY <1>1, ChainStands
      <4> QED
        BY <1>1, <4>1, <4>2 DEF Written
    <3> QED
      BY <1>1, <3>2, <3>3 DEF Settled, Writes, n
  <2>1. /\ \A i \in Pending :
              Writes(log[i], f, k) /\ (\A j \in i + 1 .. n : ~Writes(log[j], f, k))
                => Written(log[i], f) = Chain(f, k)
        /\ (\A i \in Pending : ~Writes(log[i], f, k)) => Row(f, k) = {Chain(f, k)}
    BY DEF SubgraphInv, Settled, n
  <2>2. ASSUME \A i \in Pending' : ~Writes(log[i], f, k) PROVE Row(f, k)' = {Chain(f, k)}
    <3>1. CASE Writes(ev, f, k)
      <4>1. \A j \in c + 1 .. n : ~Writes(log[j], f, k)
        BY <1>1, <2>2
      <4>2. Written(ev, f) = Chain(f, k)
        BY <1>1, <2>1, <3>1, <4>1 DEF ev
      <4> QED
        BY <1>6, <3>1, <4>2 DEF Handled
    <3>2. CASE ~Writes(ev, f, k)
      <4>1. Row(f, k) = {Chain(f, k)}
        BY <1>3, <2>1, <2>2, <3>2 DEF ev
      <4> QED
        BY <1>6, <3>2, <4>1 DEF Handled
    <3> QED
      BY <3>1, <3>2
  <2> QED
    BY <1>2, <2>1, <2>2
<1>14. RulesSettled'
  <2> SUFFICES ASSUME NEW id \in PositionIds, \A i \in Pending' : ~Writes(log[i], "position", id)
               PROVE  RulesSynced(id)'
    BY <1>1, <1>8 DEF RulesSettled, Writes
  <2>1. RulesSynced(id) \/ Writes(ev, "position", id)
    BY <1>3 DEF SubgraphInv, RulesSettled, ev
  <2> QED
    BY <1>6, <2>1 DEF Handled
<1>15. Openings'
  <2>1. \A id \in DOMAIN positionRows' :
           id \in PositionIds /\ positionRows'[id].agent = positions[id].agent
    BY <1>6, <1>7 DEF SubgraphInv, Openings, Handled
  <2>2. \A id \in PositionIds : id \in DOMAIN positionRows' \/ \E i \in Pending' : Opens(log[i], id)
    <3> SUFFICES ASSUME NEW id \in PositionIds, id \notin DOMAIN positionRows'
                 PROVE  \E i \in Pending' : Opens(log[i], id)
      OBVIOUS
    <3>1. PICK i \in Pending : Opens(log[i], id)
      BY <1>6 DEF SubgraphInv, Openings, Handled
    <3>2. i # c
      BY <1>6, <3>1 DEF Handled, Opens, ev, PositionEvents
    <3> QED
      BY <1>3, <3>1, <3>2
  <2>3. ASSUME NEW i \in Pending', NEW id \in DOMAIN positionRows', Opens(log[i], id) PROVE FALSE
    <3>1. id \notin DOMAIN positionRows
      BY <1>2, <2>3 DEF SubgraphInv, Openings
    <3>2. ev.type \in PositionEvents /\ id = ev.position
      BY <1>6, <3>1 DEF Handled
    <3>3. Writes(ev, "position", id)
      BY <3>2 DEF Writes, Writers
    <3>4. i < c
      BY <1>1, <1>2, <1>7, <2>3, <3>2, <3>3 DEF SubgraphInv, Openings, ev
    <3> QED
      BY <1>2, <3>4
  <2>4. \A i, j \in Pending' : \A id \in PositionIds :
          Opens(log[i], id) /\ Writes(log[j], "position", id) /\ i # j => i < j
    BY <1>2 DEF SubgraphInv, Openings
  <2> QED
    BY <1>1, <1>8, <2>1, <2>2, <2>3, <2>4 DEF Openings, Opens, Writes
<1>16. Closings'
  <2>1. \A id : <<id, "PositionClosed">> \in activities' =>
          \/ <<id, "PositionClosed">> \in activities
          \/ Closes(ev, id) /\ id \in PositionIds /\ id \in DOMAIN positionRows
    BY <1>6, <1>7 DEF Handled, TradeEvents, PositionEvents, Closes
  <2>2. DOMAIN positionRows \subseteq DOMAIN positionRows' /\ activities \subseteq activities'
    BY <1>6 DEF Handled
  <2>3. \A id : <<id, "PositionClosed">> \in activities' =>
          id \in PositionIds \cap DOMAIN positionRows' /\ positions[id].status = "Closed"
    BY <1>4, <2>1, <2>2 DEF SubgraphInv, Closings, Closes, EventTrue
  <2>4. ASSUME NEW id \in PositionIds, positions[id].status = "Closed",
               <<id, "PositionClosed">> \notin activities'
        PROVE  \E i \in Pending' : Closes(log[i], id)
    <3>1. PICK i \in Pending : Closes(log[i], id)
      BY <2>2, <2>4 DEF SubgraphInv, Closings
    <3>2. i # c
      BY <1>6, <2>4, <3>1 DEF Handled, Closes, ev
    <3> QED
      BY <1>3, <3>1, <3>2
  <2>5. ASSUME NEW i \in Pending', NEW id \in PositionIds, Closes(log[i], id)
        PROVE  <<id, "PositionClosed">> \notin activities'
    <3>1. <<id, "PositionClosed">> \notin activities
      BY <1>2, <2>5 DEF SubgraphInv, Closings
    <3>2. ~Closes(ev, id)
      BY <1>1, <1>2, <2>5 DEF SubgraphInv, Closings, ev
    <3> QED
      BY <2>1, <3>1, <3>2
  <2>6. \A i, j \in Pending' : \A id \in PositionIds :
          Closes(log[i], id) /\ Closes(log[j], id) => i = j
    BY <1>2 DEF SubgraphInv, Closings
  <2> QED
    BY <1>1, <1>8, <2>3, <2>4, <2>5, <2>6 DEF Closings, Closes
<1>17. Intents'
  <2> SUFFICES ASSUME NEW id \in PositionIds, <<id, "PositionOpenedFromIntent">> \notin activities'
               PROVE  \E i \in Pending' : Intends(log[i], id)
    BY <1>1, <1>8 DEF Intents, Intends
  <2>1. PICK i \in Pending : Intends(log[i], id)
    BY <1>6 DEF Handled, SubgraphInv, Intents
  <2>2. i # c
    BY <1>6, <2>1 DEF Handled, Intends, TradeEvents, ev
  <2> QED
    BY <1>3, <2>1, <2>2
<1>18. Counters'
  <2> SUFFICES ASSUME NEW a \in Nat PROVE Counts(loadOrCreateAgent(a), a)'
    BY DEF Counters
  <2> DEFINE id == ev.position
             I == IndexedOf(a)
             C == ClosedRows
             old == loadOrCreateAgent(a)
             new == loadOrCreateAgent(a)'
  <2>1. /\ old.positionsOpened = Cardinality(I)
        /\ old.positionsClosed = Cardinality(I \cap C)
        /\ old.openPositionCount = Cardinality(I \ C)
    BY DEF SubgraphInv, Counters, Counts
  <2>2. IsFiniteSet(I) /\ IsFiniteSet(I \cap C) /\ IsFiniteSet(I \ C)
    BY IndexedFinite, FS_Subset DEF SubgraphInv
  <2>3. /\ new.positionsOpened =
              IF ev.type = "PositionOpened" /\ a = ev.agent
              THEN old.positionsOpened + 1 ELSE old.positionsOpened
        /\ new.positionsClosed =
              IF ev.type = "PositionClosed" /\ a = ev.agent
              THEN old.positionsClosed + 1 ELSE old.positionsClosed
        /\ new.openPositionCount =
              IF ev.type = "PositionOpened" /\ a = ev.agent
              THEN old.openPositionCount + 1
              ELSE IF ev.type = "PositionClosed" /\ a = ev.agent /\ old.openPositionCount > 0
              THEN old.openPositionCount - 1 ELSE old.openPositionCount
    BY <1>6 DEF Handled
  <2>4. \A x \in DOMAIN positionRows : x \in DOMAIN positionRows' /\ positionRows'[x].agent = positionRows[x].agent
    BY <1>6 DEF Handled
  <2>5. \A x : <<x, "PositionClosed">> \in activities => x \in DOMAIN positionRows
    BY DEF SubgraphInv, Closings
  <2> SUFFICES /\ new.positionsOpened = Cardinality(I')
               /\ new.positionsClosed = Cardinality(I' \cap C')
               /\ new.openPositionCount = Cardinality(I' \ C')
    BY DEF Counts
  <2>6. CASE ev.type = "PositionOpened"
    <3>1. /\ DOMAIN positionRows' = DOMAIN positionRows \cup {id} /\ id \notin DOMAIN positionRows
          /\ positionRows'[id].agent = ev.agent
          /\ \A x : <<x, "PositionClosed">> \in activities' <=> <<x, "PositionClosed">> \in activities
      BY <1>6, <1>7, <2>6 DEF Handled, PositionEvents, TradeEvents
    <3>2. C' = C
      BY <2>5, <3>1 DEF ClosedRows
    <3>3. id \notin I /\ id \notin C
      BY <3>1 DEF IndexedOf, ClosedRows
    <3>4. I' = IF a = ev.agent THEN I \cup {id} ELSE I
      BY <2>4, <3>1 DEF IndexedOf
    <3> HIDE DEF I, C, id, old, new
    <3>5. CASE a = ev.agent
      <4>1. I' \cap C' = I \cap C /\ I' \ C' = (I \ C) \cup {id} /\ I' = I \cup {id}
            /\ id \notin I \ C
        BY <3>2, <3>3, <3>4, <3>5
      <4>2. Cardinality(I \cup {id}) = Cardinality(I) + 1
            /\ Cardinality((I \ C) \cup {id}) = Cardinality(I \ C) + 1
        BY <2>2, <3>3, <4>1, AddOne
      <4> QED
        BY <2>1, <2>3, <2>6, <3>5, <4>1, <4>2
    <3>6. CASE a # ev.agent
      BY <2>1, <2>3, <2>6, <3>2, <3>4, <3>6
    <3> QED
      BY <3>5, <3>6
  <2>7. CASE ev.type = "PositionClosed"
    <3>1. /\ DOMAIN positionRows' = DOMAIN positionRows /\ id \in DOMAIN positionRows
          /\ positionRows[id].agent = ev.agent
          /\ \A x : <<x, "PositionClosed">> \in activities' <=>
                      <<x, "PositionClosed">> \in activities \/ x = id
      <4>1. id \in DOMAIN positionRows /\ positions[id].agent = ev.agent
        BY <1>7, <2>7 DEF PositionEvents
      <4>2. positionRows[id].agent = ev.agent
        BY <4>1 DEF SubgraphInv, Openings
      <4>3. DOMAIN positionRows' = DOMAIN positionRows
        BY <1>6, <2>7, <4>1 DEF Handled
      <4>4. activities' = activities \cup {<<id, "PositionClosed">>}
        BY <1>6, <2>7 DEF Handled
      <4> QED
        BY <4>1, <4>2, <4>3, <4>4
    <3>2. C' = C \cup {id}
      BY <3>1 DEF ClosedRows
    <3>3. <<id, "PositionClosed">> \notin activities
      BY <1>1, <1>7, <2>7 DEF SubgraphInv, Closings, Closes, ev, PositionEvents
    <3>4. id \notin C /\ I' = I /\ (id \in I <=> a = ev.agent)
      BY <2>4, <3>1, <3>3 DEF IndexedOf, ClosedRows
    <3> HIDE DEF I, C, id, old, new
    <3>5. CASE a = ev.agent
      <4>1. /\ I' \cap C' = (I \cap C) \cup {id} /\ I' \ C' = (I \ C) \ {id} /\ I' = I
            /\ id \notin I \cap C /\ id \in I \ C
        BY <3>2, <3>4, <3>5
      <4>2. Cardinality((I \cap C) \cup {id}) = Cardinality(I \cap C) + 1
        BY <2>2, <4>1, AddOne
      <4>3. /\ Cardinality(I \ C) > 0
            /\ Cardinality((I \ C) \ {id}) = Cardinality(I \ C) - 1
        BY <2>2, <4>1, RemoveOne
      <4> QED
        BY <2>1, <2>3, <2>7, <3>5, <4>1, <4>2, <4>3
    <3>6. CASE a # ev.agent
      <4>1. I' \cap C' = I \cap C /\ I' \ C' = I \ C /\ I' = I
        BY <3>2, <3>4, <3>6
      <4> QED
        BY <2>1, <2>3, <2>7, <3>6, <4>1
    <3> QED
      BY <3>5, <3>6
  <2>8. CASE ev.type \notin {"PositionOpened", "PositionClosed"}
    <3>1. DOMAIN positionRows' = DOMAIN positionRows
      BY <1>6, <1>7, <2>8 DEF Handled
    <3>2. \A x : <<x, "PositionClosed">> \in activities' <=> <<x, "PositionClosed">> \in activities
      BY <1>6, <2>8 DEF Handled, TradeEvents
    <3>3. I' = I /\ C' = C
      BY <2>4, <3>1, <3>2 DEF IndexedOf, ClosedRows
    <3> HIDE DEF I, C, id, old, new
    <3> QED
      BY <2>1, <2>3, <2>8, <3>3
  <2> QED
    BY <2>6, <2>7, <2>8
<1>19. SnapshotsInv'
  <2>1. cursor' # 0
    BY <1>1
  <2>2. ASSUME NEW a \in DOMAIN snapshots'
        PROVE  /\ a \in AgentIds /\ ~LensReverts(a)
               /\ \E cap :
                     /\ snapshots'[a] =
                           [cap |-> cap, equity |-> currentEquity(a),
                            unrealized |-> currentEquity(a) - cap - lifetimeRealizedPnl(a)]
                     /\ (\A i \in Pending' : ~Writes(log[i], "cap", a)) => cap = allocations[a].cap
    <3>1. CASE ev.type \in SnapshotEvents /\ ~LensReverts(ev.agent) /\ a = ev.agent
      <4> DEFINE cap == Loaded(allocationRows', a, NewAllocation).cap
                 s == [cap |-> cap, equity |-> currentEquity(a),
                       unrealized |-> currentEquity(a) - cap - lifetimeRealizedPnl(a)]
      <4>1. recordEquitySnapshot(ev.agent, allocationRows')
        BY <1>6, <3>1 DEF Handled
      <4>2. snapshots' = Saved(snapshots, a, s)
        BY <3>1, <4>1 DEF recordEquitySnapshot
      <4>3. snapshots'[a] = s
        <5> HIDE DEF s
        <5> QED
          BY <4>2 DEF Saved
      <4>4. a \in AgentIds
        BY <1>4, <3>1 DEF EventTrue
      <4>5. ASSUME \A i \in Pending' : ~Writes(log[i], "cap", a) PROVE cap = allocations[a].cap
        <5>1. "cap" \in Fields /\ a \in Keys("cap")'
          BY <1>8, <4>4 DEF Fields, AgentFields, Keys
        <5>2. Row("cap", a)' = {Chain("cap", a)'}
          BY <1>1, <1>13, <4>5, <5>1 DEF Settled, Writes
        <5>3. Row("cap", a)' = {allocations[a].cap}
          BY <1>8, <5>2 DEF Chain
        <5>4. Row("cap", a)' = {allocationRows'[x].cap : x \in {a} \cap DOMAIN allocationRows'}
          BY DEF Row
        <5> QED
          BY <5>3, <5>4 DEF Loaded
      <4> QED
        BY <3>1, <4>3, <4>4, <4>5
    <3>2. CASE ~(ev.type \in SnapshotEvents /\ ~LensReverts(ev.agent) /\ a = ev.agent)
      <4>1. a \in DOMAIN snapshots /\ snapshots'[a] = snapshots[a]
        <5>1. CASE ev.type \in SnapshotEvents /\ ~LensReverts(ev.agent)
          <6>1. recordEquitySnapshot(ev.agent, allocationRows')
            BY <1>6, <5>1 DEF Handled
          <6>2. \E s : snapshots' = Saved(snapshots, ev.agent, s)
            BY <5>1, <6>1 DEF recordEquitySnapshot
          <6> QED
            BY <3>2, <5>1, <6>2 DEF Saved
        <5>2. CASE ~(ev.type \in SnapshotEvents /\ ~LensReverts(ev.agent))
          BY <1>6, <5>2 DEF Handled, recordEquitySnapshot
        <5> QED
          BY <5>1, <5>2
      <4>2. /\ a \in AgentIds /\ ~LensReverts(a)
            /\ \E cap :
                  /\ snapshots[a] =
                        [cap |-> cap, equity |-> currentEquity(a),
                         unrealized |-> currentEquity(a) - cap - lifetimeRealizedPnl(a)]
                  /\ (\A i \in Pending : ~Writes(log[i], "cap", a)) => cap = allocations[a].cap
        BY <4>1 DEF SubgraphInv, SnapshotsInv
      <4>3. ~Writes(ev, "cap", a)
        BY <3>2, <4>2 DEF Writes, Writers, SnapshotEvents
      <4>4. (\A i \in Pending' : ~Writes(log[i], "cap", a)) => \A i \in Pending : ~Writes(log[i], "cap", a)
        BY <1>3, <4>3 DEF ev
      <4> QED
        BY <4>1, <4>2, <4>4
    <3> QED
      BY <3>1, <3>2
  <2>3. \A a : /\ LensReverts(a)' = LensReverts(a) /\ currentEquity(a)' = currentEquity(a)
               /\ lifetimeRealizedPnl(a)' = lifetimeRealizedPnl(a)
    BY <1>1, ChainStands
  <2>4. ASSUME NEW a \in DOMAIN snapshots'
        PROVE  (/\ a \in AgentIds /\ ~LensReverts(a)
                /\ \E cap :
                      /\ snapshots[a] =
                            [cap |-> cap, equity |-> currentEquity(a),
                             unrealized |-> currentEquity(a) - cap - lifetimeRealizedPnl(a)]
                      /\ (\A i \in Pending : ~Writes(log[i], "cap", a)) => cap = allocations[a].cap)'
    BY <1>1, <1>8, <2>2, <2>3 DEF Writes
  <2> QED
    BY <2>1, <2>4 DEF SnapshotsInv
<1> QED
  BY <1>10, <1>11, <1>12, <1>13, <1>14, <1>15, <1>16, <1>17, <1>18, <1>19 DEF SubgraphInv

-----------------------------------------------------------------------------
(* Every transaction tells what it changed. *)

\* Nothing happens but a new price before the block, or nothing at all.
LEMMA StandsStill ==
    ASSUME SubgraphInv, UNCHANGED <<agents, allocations, positions, exitRules, log, cursor>>,
           UNCHANGED entityVars, price' \in Nat, cursor = 0 \/ price' = price
    PROVE  SubgraphInv'
<1>1. /\ agents' = agents /\ allocations' = allocations /\ positions' = positions
      /\ exitRules' = exitRules /\ log' = log /\ cursor' = cursor
      /\ agentRows' = agentRows /\ allocationRows' = allocationRows
      /\ positionRows' = positionRows /\ ruleRows' = ruleRows /\ activities' = activities
      /\ snapshots' = snapshots
  BY DEF entityVars
<1>2. AgentIds' = AgentIds /\ PositionIds' = PositionIds /\ Pending' = Pending
  BY <1>1 DEF AgentIds, PositionIds, Pending
<1>3. ChainInv' /\ RowsInv'
  BY <1>1, <1>2 DEF SubgraphInv, ChainInv, RowsInv
<1>4. \A f : /\ Keys(f)' = Keys(f)
             /\ \A k : Chain(f, k)' = Chain(f, k) /\ Row(f, k)' = Row(f, k)
  BY <1>1, <1>2 DEF Keys, Chain, Row
<1>5. \A i \in Pending : EventTrue(log[i])' /\ \A f : Written(log[i], f)' = Written(log[i], f)
  BY <1>1, <1>2 DEF EventTrue, Written, SubgraphInv, LogInv
<1>6. LogInv'
  BY <1>1, <1>2, <1>5 DEF LogInv, SubgraphInv
<1>7. Settled'
  <2>1. Settled
    BY DEF SubgraphInv
  <2> SUFFICES ASSUME NEW f \in Fields, NEW k \in Keys(f)
               PROVE  /\ \A i \in Pending :
                            /\ Writes(log[i], f, k)
                            /\ \A j \in i + 1 .. Len(log) : ~Writes(log[j], f, k)
                            => Written(log[i], f) = Chain(f, k)
                      /\ (\A i \in Pending : ~Writes(log[i], f, k)) => Row(f, k) = {Chain(f, k)}
    <3>1. \A g \in Fields : Keys(g)' = Keys(g)
      BY <1>4
    <3>2. \A g \in Fields : \A l \in Keys(g) : Chain(g, l)' = Chain(g, l) /\ Row(g, l)' = Row(g, l)
      BY <1>4
    <3>3. \A i \in Pending : \A g \in Fields : Written(log[i], g)' = Written(log[i], g)
      BY <1>5
    <3> QED
      BY <1>1, <1>2, <3>1, <3>2, <3>3 DEF Settled, Writes
  <2> QED
    BY <2>1 DEF Settled
<1>8. RulesSettled'
  BY <1>1, <1>2 DEF RulesSettled, RulesSynced, SubgraphInv, Writes
<1>9. Openings' /\ Closings' /\ Intents'
  BY <1>1, <1>2 DEF Openings, Closings, Intents, SubgraphInv, Opens, Closes, Intends, Writes
<1>10. Counters'
  <2>1. /\ \A a : loadOrCreateAgent(a)' = loadOrCreateAgent(a) /\ IndexedOf(a)' = IndexedOf(a)
        /\ ClosedRows' = ClosedRows
    BY <1>1 DEF loadOrCreateAgent, Loaded, IndexedOf, ClosedRows
  <2> QED
    BY <2>1 DEF SubgraphInv, Counters, Counts
<1>11. SnapshotsInv'
  <2>1. CASE cursor = 0
    BY <1>1, <2>1 DEF SubgraphInv, SnapshotsInv
  <2>2. CASE price' = price
    <3>1. \A a : /\ LensReverts(a)' = LensReverts(a) /\ currentEquity(a)' = currentEquity(a)
                 /\ lifetimeRealizedPnl(a)' = lifetimeRealizedPnl(a)
      <4>1. UNCHANGED <<contractVars, log>>
        BY <1>1, <2>2 DEF contractVars
      <4> QED
        BY <4>1, ChainStands
    <3> QED
      BY <1>1, <1>2, <3>1 DEF SubgraphInv, SnapshotsInv, Writes
  <2> QED
    BY <2>1, <2>2
<1> QED
  BY <1>3, <1>6, <1>7, <1>8, <1>9, <1>10, <1>11 DEF SubgraphInv

LEMMA CommitKeeps ==
    ASSUME SubgraphInv, CommitBlock
    PROVE  SubgraphInv'
<1>1. /\ agents' = agents /\ allocations' = allocations /\ positions' = positions
      /\ exitRules' = exitRules /\ log' = <<>> /\ cursor' = 0 /\ price' = price
      /\ cursor = Len(log)
      /\ agentRows' = agentRows /\ allocationRows' = allocationRows
      /\ positionRows' = positionRows /\ ruleRows' = ruleRows /\ activities' = activities
      /\ snapshots' = <<>>
  BY DEF CommitBlock, contractVars
<1>2. AgentIds' = AgentIds /\ PositionIds' = PositionIds /\ Pending = {} /\ Pending' = {}
  BY <1>1 DEF AgentIds, PositionIds, Pending, SubgraphInv, LogInv
<1>3. ChainInv' /\ RowsInv'
  BY <1>1, <1>2 DEF SubgraphInv, ChainInv, RowsInv
<1>4. \A f : /\ Keys(f)' = Keys(f)
             /\ \A k : Chain(f, k)' = Chain(f, k) /\ Row(f, k)' = Row(f, k)
  BY <1>1, <1>2 DEF Keys, Chain, Row
<1>5. LogInv'
  <2>1. log' \in Seq({}) /\ Len(log') = 0
    BY <1>1
  <2> QED
    BY <1>1, <1>2, <2>1 DEF LogInv
<1>6. Settled'
  BY <1>2, <1>4 DEF Settled, SubgraphInv
<1>7. RulesSettled'
  BY <1>1, <1>2 DEF RulesSettled, RulesSynced, SubgraphInv
<1>8. Openings' /\ Closings' /\ Intents'
  BY <1>1, <1>2 DEF Openings, Closings, Intents, SubgraphInv
<1>9. Counters'
  <2>1. /\ \A a : loadOrCreateAgent(a)' = loadOrCreateAgent(a) /\ IndexedOf(a)' = IndexedOf(a)
        /\ ClosedRows' = ClosedRows
    BY <1>1 DEF loadOrCreateAgent, Loaded, IndexedOf, ClosedRows
  <2> QED
    BY <2>1 DEF SubgraphInv, Counters, Counts
<1>10. SnapshotsInv'
  <2>1. DOMAIN snapshots' = {}
    BY <1>1
  <2> QED
    BY <2>1 DEF SnapshotsInv
<1> QED
  BY <1>3, <1>5, <1>6, <1>7, <1>8, <1>9, <1>10 DEF SubgraphInv

LEMMA InitHolds ==
    ASSUME SubgraphInit, EventsAssumption
    PROVE  SubgraphInv
<1>1. /\ agents = <<>> /\ allocations = <<>> /\ positions = <<>> /\ exitRules = <<>>
      /\ log = <<>> /\ cursor = 0 /\ price \in Nat
      /\ agentRows = <<>> /\ allocationRows = <<>> /\ positionRows = <<>> /\ ruleRows = <<>>
      /\ activities = {} /\ snapshots = <<>>
  BY DEF SubgraphInit, EventsInit, EventsAssumption
<1>2. /\ AgentIds = {} /\ PositionIds = {} /\ Pending = {} /\ Len(log) = 0
      /\ DOMAIN agentRows = {} /\ DOMAIN allocationRows = {} /\ DOMAIN positionRows = {}
      /\ DOMAIN snapshots = {}
  BY <1>1 DEF AgentIds, PositionIds, Pending
<1>3. ChainInv
  <2>1. \A S : <<>> \in Seq(S)
    OBVIOUS
  <2> QED
    BY <1>1, <1>2, <2>1 DEF ChainInv
<1>4. RowsInv
  BY <1>2, <1>1 DEF RowsInv
<1>5. LogInv
  <2>1. log \in Seq({})
    BY <1>1
  <2> QED
    BY <1>1, <1>2, <2>1 DEF LogInv
<1>6. Settled /\ RulesSettled /\ Openings /\ Intents
  BY <1>2 DEF Settled, RulesSettled, Openings, Intents, Keys
<1>7. Closings
  BY <1>1, <1>2 DEF Closings
<1>8. Counters
  <2> SUFFICES ASSUME NEW a \in Nat PROVE Counts(loadOrCreateAgent(a), a)
    BY DEF Counters
  <2>1. loadOrCreateAgent(a) = NewAgent /\ IndexedOf(a) = {}
    BY <1>2 DEF loadOrCreateAgent, Loaded, IndexedOf
  <2>2. IndexedOf(a) \cap ClosedRows = {} /\ IndexedOf(a) \ ClosedRows = {}
    BY <2>1
  <2> QED
    BY <2>1, <2>2, FS_EmptySet DEF Counts, NewAgent
<1>9. SnapshotsInv
  BY <1>2 DEF SnapshotsInv
<1> QED
  BY <1>3, <1>4, <1>5, <1>6, <1>7, <1>8, <1>9 DEF SubgraphInv

\* A transaction of AgentRegistry or AllocationManager.
LEMMA AgentTold ==
    ASSUME SubgraphInv, NEW T, NEW events \in Seq(T), ChainInv', UNCHANGED <<positions, exitRules>>,
           \A a \in AgentIds : a \in AgentIds',
           \A i \in 1..Len(events) :
              EventTrue(events[i])' /\ events[i].type \notin PositionEvents \cup TradeEvents,
           \A f \in AgentFields : \A k \in AgentIds' :
              \/ /\ k \in AgentIds /\ Chain(f, k)' = Chain(f, k)
                 /\ \A i \in 1..Len(events) : ~Writes(events[i], f, k)
              \/ \E i \in 1..Len(events) :
                    /\ Writes(events[i], f, k) /\ Written(events[i], f)' = Chain(f, k)'
                    /\ \A j \in i + 1 .. Len(events) : ~Writes(events[j], f, k)
    PROVE  Told(events)
<1>1. PositionIds' = PositionIds /\ positions' = positions /\ exitRules' = exitRules
  BY DEF PositionIds
<1>2. \A i \in 1..Len(events) : \A id :
         ~Writes(events[i], "position", id) /\ ~Opens(events[i], id) /\ ~Closes(events[i], id)
  BY DEF Writes, Writers, Opens, Closes, PositionEvents
<1>3. \A k : Chain("position", k)' = Chain("position", k)
  BY <1>1 DEF Chain, Shown
<1>4. ASSUME NEW f \in Fields, NEW k \in Keys(f)'
      PROVE  \/ /\ k \in Keys(f) /\ Chain(f, k)' = Chain(f, k)
                /\ \A i \in 1..Len(events) : ~Writes(events[i], f, k)
             \/ \E i \in 1..Len(events) :
                   /\ Writes(events[i], f, k) /\ Written(events[i], f)' = Chain(f, k)'
                   /\ \A j \in i + 1 .. Len(events) : ~Writes(events[j], f, k)
  <2>1. CASE f = "position"
    BY <2>1, <1>1, <1>2, <1>3 DEF Keys
  <2>2. CASE f \in AgentFields
    <3>1. Keys(f) = AgentIds /\ Keys(f)' = AgentIds'
      BY <2>2 DEF Keys, AgentFields
    <3> QED
      BY <2>2, <3>1
  <2> QED
    BY <2>1, <2>2 DEF Fields
<1>5. \A id \in PositionIds : positions'[id].agent = positions[id].agent
  BY <1>1
<1> QED
  BY <1>1, <1>2, <1>4, <1>5 DEF Told

LEMMA RegisterAgentTold ==
    ASSUME SubgraphInv, RegisterAgent, EventsAssumption
    PROVE  \E events : Emit(events) /\ Told(events)
<1>0. PICK a : a = Len(agents) + 1
  OBVIOUS
<1> DEFINE x == [status |-> "Active", track |-> 0]
           y == [cap |-> CapOfTrack[0], used |-> 0, status |-> "Active"]
           c == [type |-> "AllocationCreated", agent |-> a, cap |-> CapOfTrack[0]]
           r == [type |-> "AgentRegistered", agent |-> a]
           events == <<c, r>>
<1>1. /\ agents' = Append(agents, x) /\ allocations' = Append(allocations, y)
      /\ Emit(events) /\ UNCHANGED <<positions, exitRules, price>>
  BY <1>0 DEF RegisterAgent
<1>2. x \in AgentState /\ y \in AllocationState
  BY DEF AgentState, AllocationState, EventsAssumption
<1>3. /\ agents \in Seq(AgentState) /\ allocations \in Seq(AllocationState)
      /\ Len(allocations) = Len(agents)
  BY DEF SubgraphInv, ChainInv
<1>4. /\ agents' \in Seq(AgentState) /\ allocations' \in Seq(AllocationState)
      /\ Len(agents') = a /\ Len(allocations') = a
      /\ AgentIds' = AgentIds \cup {a} /\ a \notin AgentIds
      /\ \A k \in AgentIds : agents'[k] = agents[k] /\ allocations'[k] = allocations[k]
      /\ agents'[a] = x /\ allocations'[a] = y
  BY <1>0, <1>1, <1>2, <1>3, AppendFacts DEF AgentIds
<1>5. ChainInv'
  BY <1>1, <1>4 DEF SubgraphInv, ChainInv, PositionIds
<1>6. /\ events \in Seq({c, r}) /\ Len(events) = 2 /\ events[1] = c /\ events[2] = r
  OBVIOUS
<1>7. /\ c.type = "AllocationCreated" /\ c.agent = a /\ c.cap = CapOfTrack[0]
      /\ r.type = "AgentRegistered" /\ r.agent = a
  OBVIOUS
<1>8. CapOfTrack[0] \in Int /\ y.cap = CapOfTrack[0] /\ y.used = 0 /\ y.status = "Active"
  BY DEF EventsAssumption
<1> HIDE DEF x, y, c, r, events
<1>9. EventTrue(c)' /\ EventTrue(r)'
  BY <1>4, <1>7, <1>8 DEF EventTrue, PositionEvents, TradeEvents
<1>10. ASSUME NEW i \in 1..Len(events)
       PROVE  EventTrue(events[i])' /\ events[i].type \notin PositionEvents \cup TradeEvents
  <2>1. i = 1 \/ i = 2
    BY <1>6
  <2> QED
    BY <2>1, <1>6, <1>7, <1>9 DEF PositionEvents, TradeEvents
<1>11. ASSUME NEW f \in AgentFields, NEW k \in AgentIds'
       PROVE  \/ /\ k \in AgentIds /\ Chain(f, k)' = Chain(f, k)
                 /\ \A i \in 1..Len(events) : ~Writes(events[i], f, k)
              \/ \E i \in 1..Len(events) :
                    /\ Writes(events[i], f, k) /\ Written(events[i], f)' = Chain(f, k)'
                    /\ \A j \in i + 1 .. Len(events) : ~Writes(events[j], f, k)
  <2>1. CASE k \in AgentIds
    <3>1. Chain(f, k)' = Chain(f, k)
      BY <2>1, <1>4 DEF Chain, AgentFields
    <3>2. \A i \in 1..Len(events) : ~Writes(events[i], f, k)
      BY <2>1, <1>4, <1>6, <1>7 DEF Writes, AgentFields
    <3> QED
      BY <2>1, <3>1, <3>2
  <2>2. CASE k = a /\ f \in {"status", "track"}
    <3>1. Writes(events[2], f, k) /\ Written(events[2], f)' = Chain(f, k)'
      BY <2>2, <1>6, <1>7 DEF Writes, Writers, Written, Chain
    <3> QED
      BY <3>1, <1>6
  <2>3. CASE k = a /\ f \in {"cap", "used", "allocationStatus"}
    <3>1. Writes(events[1], f, k) /\ Written(events[1], f)' = Chain(f, k)'
      BY <2>3, <1>4, <1>6, <1>7, <1>8 DEF Writes, Writers, Written, Chain
    <3>2. ~Writes(events[2], f, k)
      BY <2>3, <1>6, <1>7 DEF Writes, Writers
    <3> QED
      BY <3>1, <3>2, <1>6
  <2> QED
    BY <2>1, <2>2, <2>3, <1>4 DEF AgentFields
<1>12. Told(events)
  BY <1>1, <1>4, <1>5, <1>6, <1>10, <1>11, AgentTold
<1> QED
  BY <1>1, <1>12

\* One of an agent that is there: each of its fields that changes has one event, with
\* the new value.
LEMMA AgentStepTold ==
    ASSUME SubgraphInv, NEW a \in AgentIds, NEW T, NEW events \in Seq(T),
           NEW x \in AgentState, agents' = [agents EXCEPT ![a] = x],
           NEW y \in AllocationState, allocations' = [allocations EXCEPT ![a] = y],
           UNCHANGED <<positions, exitRules, price>>,
           \A i \in 1..Len(events) :
              /\ events[i].type \in {"AgentStatusChanged", "AgentPromoted", "AllocationUpdated"}
              /\ events[i].agent = a
              /\ events[i].type = "AgentStatusChanged" => events[i].status = x.status
              /\ events[i].type = "AgentPromoted" => events[i].track = x.track
              /\ events[i].type = "AllocationUpdated" =>
                    events[i].cap = y.cap /\ events[i].status = y.status,
           \A i, j \in 1..Len(events) : events[i].type = events[j].type => i = j,
           \/ x.status = agents[a].status
           \/ \E i \in 1..Len(events) : events[i].type = "AgentStatusChanged",
           \/ x.track = agents[a].track
           \/ \E i \in 1..Len(events) : events[i].type = "AgentPromoted",
           \/ y.cap = allocations[a].cap /\ y.status = allocations[a].status
           \/ \E i \in 1..Len(events) : events[i].type = "AllocationUpdated",
           y.used = allocations[a].used
    PROVE  Told(events)
<1>1. /\ agents \in Seq(AgentState) /\ allocations \in Seq(AllocationState)
      /\ Len(allocations) = Len(agents) /\ a \in DOMAIN agents /\ a \in DOMAIN allocations
  BY DEF SubgraphInv, ChainInv, AgentIds
<1>2. /\ agents' \in Seq(AgentState) /\ Len(agents') = Len(agents)
      /\ \A k \in AgentIds : agents'[k] = IF k = a THEN x ELSE agents[k]
  BY <1>1, ExceptFacts DEF AgentIds
<1>3. /\ allocations' \in Seq(AllocationState) /\ Len(allocations') = Len(allocations)
      /\ \A k \in AgentIds : allocations'[k] = IF k = a THEN y ELSE allocations[k]
  BY <1>1, ExceptFacts DEF AgentIds
<1>4. AgentIds' = AgentIds
  BY <1>2 DEF AgentIds
<1>5. ChainInv'
  BY <1>1, <1>2, <1>3, <1>4 DEF SubgraphInv, ChainInv, PositionIds
<1>6. x.status \in AgentStatuses \cup {"Active"} /\ x.track \in Nat
  BY DEF AgentState
<1>7. y.cap \in Int /\ y.status \in AllocationStatuses \cup {"Active", "Removed"}
  BY DEF AllocationState
<1>8. ASSUME NEW i \in 1..Len(events)
      PROVE  EventTrue(events[i])' /\ events[i].type \notin PositionEvents \cup TradeEvents
  BY <1>4, <1>6, <1>7 DEF EventTrue, PositionEvents, TradeEvents
<1>9. ASSUME NEW f \in AgentFields, NEW k \in AgentIds
      PROVE  \/ /\ Chain(f, k)' = Chain(f, k)
                /\ \A i \in 1..Len(events) : ~Writes(events[i], f, k)
             \/ \E i \in 1..Len(events) :
                   /\ Writes(events[i], f, k) /\ Written(events[i], f)' = Chain(f, k)'
                   /\ \A j \in i + 1 .. Len(events) : ~Writes(events[j], f, k)
  <2>1. CASE \A i \in 1..Len(events) : ~Writes(events[i], f, k)
    <3> SUFFICES Chain(f, k)' = Chain(f, k)
      BY <2>1
    <3>1. CASE k # a
      BY <3>1, <1>2, <1>3 DEF Chain, AgentFields
    <3>2. CASE k = a /\ f = "status"
      BY <2>1, <3>2, <1>2 DEF Chain, Writes, Writers
    <3>3. CASE k = a /\ f = "track"
      BY <2>1, <3>3, <1>2 DEF Chain, Writes, Writers
    <3>4. CASE k = a /\ f = "cap"
      BY <2>1, <3>4, <1>3 DEF Chain, Writes, Writers
    <3>5. CASE k = a /\ f = "allocationStatus"
      BY <2>1, <3>5, <1>3 DEF Chain, Writes, Writers
    <3>6. CASE k = a /\ f = "used"
      BY <3>6, <1>3 DEF Chain
    <3> QED
      BY <3>1, <3>2, <3>3, <3>4, <3>5, <3>6 DEF AgentFields
  <2>2. ASSUME NEW i \in 1..Len(events), Writes(events[i], f, k)
        PROVE  /\ Written(events[i], f)' = Chain(f, k)'
               /\ \A j \in i + 1 .. Len(events) : ~Writes(events[j], f, k)
    <3>0. k = a /\ events[i].type \in Writers(f)
      BY <2>2 DEF Writes, AgentFields
    <3>1. Written(events[i], f)' = Chain(f, k)'
      <4>1. CASE f = "status"
        BY <3>0, <4>1, <1>2 DEF Writers, Written, Chain
      <4>2. CASE f = "track"
        BY <3>0, <4>2, <1>2 DEF Writers, Written, Chain
      <4>3. CASE f = "cap"
        BY <3>0, <4>3, <1>3 DEF Writers, Written, Chain
      <4>4. CASE f = "allocationStatus"
        BY <3>0, <4>4, <1>3 DEF Writers, Written, Chain
      <4>5. CASE f = "used"
        BY <3>0, <4>5 DEF Writers
      <4> QED
        BY <4>1, <4>2, <4>3, <4>4, <4>5 DEF AgentFields
    <3>2. ASSUME NEW j \in i + 1 .. Len(events), Writes(events[j], f, k) PROVE FALSE
      <4>1. j \in 1..Len(events) /\ j # i
        OBVIOUS
      <4>2. events[j].type \in Writers(f) /\ events[i].type \in Writers(f)
        BY <3>0, <3>2 DEF Writes
      <4>3. events[j].type = events[i].type
        BY <4>1, <4>2 DEF Writers, AgentFields
      <4> QED
        BY <4>1, <4>3
    <3> QED
      BY <3>1, <3>2
  <2> QED
    BY <2>1, <2>2
<1>10. \A b \in AgentIds : b \in AgentIds'
  BY <1>4
<1> QED
  BY <1>4, <1>5, <1>8, <1>9, <1>10, AgentTold

LEMMA AllocationExcept ==
    ASSUME NEW old \in AllocationState, NEW cap \in Int,
           NEW status \in AllocationStatuses \cup {"Active", "Removed"}
    PROVE  LET y == [old EXCEPT !.status = status, !.cap = cap]
           IN  y \in AllocationState /\ y.status = status /\ y.cap = cap /\ y.used = old.used
  BY DEF AllocationState

LEMMA SetAgentStatusTold ==
    ASSUME SubgraphInv, NEW a \in AgentIds, NEW status \in AgentStatuses, SetAgentStatus(a, status)
    PROVE  \E events : Emit(events) /\ Told(events)
<1>1. /\ agents \in Seq(AgentState) /\ allocations \in Seq(AllocationState)
      /\ a \in DOMAIN agents /\ a \in DOMAIN allocations
      /\ agents[a] \in AgentState /\ allocations[a] \in AllocationState
  BY DEF SubgraphInv, ChainInv, AgentIds
<1> DEFINE x == [agents[a] EXCEPT !.status = status]
           y == [allocations[a] EXCEPT !.status = "Removed", !.cap = 0]
           s == [type |-> "AgentStatusChanged", agent |-> a, status |-> status]
<1>2. agents' = [agents EXCEPT ![a] = x] /\ UNCHANGED <<positions, exitRules, price>>
  BY DEF SetAgentStatus
<1>3. x \in AgentState /\ x.status = status /\ x.track = agents[a].track
  BY <1>1 DEF AgentState
<1>4. s.type = "AgentStatusChanged" /\ s.agent = a /\ s.status = status
  OBVIOUS
<1>5. CASE status = "Exited" /\ allocations[a].status # "Removed"
  <2>1. allocations' = [allocations EXCEPT ![a] = y]
    BY <1>5 DEF SetAgentStatus
  <2>2. /\ y \in AllocationState /\ y.status = "Removed" /\ y.cap = 0
        /\ y.used = allocations[a].used
    <3>1. "Removed" \in AllocationStatuses \cup {"Active", "Removed"} /\ 0 \in Int
      OBVIOUS
    <3> QED
      BY <1>1, <3>1, AllocationExcept
  <2>3. allocations'[a] = y
    BY <1>1, <2>1
  <2>4. PICK u : u = AllocationUpdated(a)
    OBVIOUS
  <2>5. u.type = "AllocationUpdated" /\ u.agent = a /\ u.cap = y.cap /\ u.status = y.status
    BY <2>3, <2>4 DEF AllocationUpdated
  <2> DEFINE events == <<s>> \o <<u>>
  <2>6. Emit(events)
    <3>1. Emit(<<s>> \o <<AllocationUpdated(a)>>)
      BY <1>5 DEF SetAgentStatus
    <3> QED
      BY <2>4, <3>1
  <2>7. /\ events \in Seq({s} \cup {u}) /\ Len(events) = 2
        /\ events[1] = s /\ events[2] = u
    <3>1. /\ <<s>> \in Seq({s}) /\ <<u>> \in Seq({u}) /\ Len(<<s>>) = 1 /\ Len(<<u>>) = 1
          /\ <<s>>[1] = s /\ <<u>>[1] = u
      OBVIOUS
    <3> QED
      BY <3>1, ConcatFacts
  <2> HIDE DEF x, y, s, events
  <2>20. /\ \A i \in 1..Len(events) :
             /\ events[i].type \in {"AgentStatusChanged", "AgentPromoted", "AllocationUpdated"}
             /\ events[i].agent = a
             /\ events[i].type = "AgentStatusChanged" => events[i].status = x.status
             /\ events[i].type = "AgentPromoted" => events[i].track = x.track
             /\ events[i].type = "AllocationUpdated" =>
                   events[i].cap = y.cap /\ events[i].status = y.status
         /\ \A i, j \in 1..Len(events) : events[i].type = events[j].type => i = j
    BY <1>3, <1>4, <2>5, <2>7
  <2>21. /\ \E i \in 1..Len(events) : events[i].type = "AgentStatusChanged"
         /\ \E i \in 1..Len(events) : events[i].type = "AllocationUpdated"
    BY <1>4, <2>5, <2>7
  <2>8. Told(events)
    BY <1>2, <1>3, <2>1, <2>2, <2>7, <2>20, <2>21, AgentStepTold
  <2> QED
    BY <2>6, <2>8
<1>6. CASE ~(status = "Exited" /\ allocations[a].status # "Removed")
  <2> DEFINE events == <<s>>
             z == allocations[a]
  <2>1. allocations' = [allocations EXCEPT ![a] = z]
    BY <1>1, <1>6 DEF SetAgentStatus
  <2>2. Emit(events)
    <3>1. Emit(<<s>> \o <<>>)
      BY <1>6 DEF SetAgentStatus
    <3> QED
      BY <3>1
  <2>3. events \in Seq({s}) /\ Len(events) = 1 /\ events[1] = s
    OBVIOUS
  <2>4. z \in AllocationState /\ z = allocations[a]
    BY <1>1
  <2> HIDE DEF x, s, events, z
  <2>20. /\ \A i \in 1..Len(events) :
             /\ events[i].type \in {"AgentStatusChanged", "AgentPromoted", "AllocationUpdated"}
             /\ events[i].agent = a
             /\ events[i].type = "AgentStatusChanged" => events[i].status = x.status
             /\ events[i].type = "AgentPromoted" => events[i].track = x.track
             /\ events[i].type = "AllocationUpdated" =>
                   events[i].cap = z.cap /\ events[i].status = z.status
         /\ \A i, j \in 1..Len(events) : events[i].type = events[j].type => i = j
    BY <1>3, <1>4, <2>3
  <2>21. /\ \E i \in 1..Len(events) : events[i].type = "AgentStatusChanged"
         /\ z.cap = allocations[a].cap /\ z.status = allocations[a].status
         /\ z.used = allocations[a].used
    BY <1>4, <2>3, <2>4
  <2>5. Told(events)
    <3>1. z \in AllocationState
      BY <2>4
    <3>2. \A i \in 1..Len(events) :
             /\ events[i].type \in {"AgentStatusChanged", "AgentPromoted", "AllocationUpdated"}
             /\ events[i].agent = a
             /\ events[i].type = "AgentStatusChanged" => events[i].status = x.status
             /\ events[i].type = "AgentPromoted" => events[i].track = x.track
             /\ events[i].type = "AllocationUpdated" =>
                   events[i].cap = z.cap /\ events[i].status = z.status
      BY <2>20
    <3> QED
      BY <1>2, <1>3, <2>1, <2>3, <2>20, <2>21, <3>1, <3>2, AgentStepTold
  <2> QED
    BY <2>2, <2>5
<1> QED
  BY <1>5, <1>6

LEMMA PromoteAgentTold ==
    ASSUME SubgraphInv, EventsAssumption, NEW a \in AgentIds, PromoteAgent(a)
    PROVE  \E events : Emit(events) /\ Told(events)
<1>1. /\ agents \in Seq(AgentState) /\ allocations \in Seq(AllocationState)
      /\ a \in DOMAIN agents /\ a \in DOMAIN allocations
      /\ agents[a] \in AgentState /\ allocations[a] \in AllocationState
  BY DEF SubgraphInv, ChainInv, AgentIds
<1> DEFINE track == agents[a].track + 1
           x == [agents[a] EXCEPT !.track = track]
           y == [allocations[a] EXCEPT !.cap = CapOfTrack[track]]
<1>2. agents' = [agents EXCEPT ![a] = x] /\ UNCHANGED <<positions, exitRules, price>>
      /\ allocations' = [allocations EXCEPT ![a] = y]
  BY DEF PromoteAgent
<1>3. track \in Nat /\ CapOfTrack[track] \in Int
  BY <1>1 DEF PromoteAgent, AgentState, EventsAssumption
<1>4. x \in AgentState /\ x.status = agents[a].status /\ x.track = track
  <2> HIDE DEF track
  <2> QED
    BY <1>1, <1>3 DEF AgentState
<1>5. /\ y \in AllocationState /\ y.cap = CapOfTrack[track] /\ y.used = allocations[a].used
      /\ y.status = allocations[a].status
  <2> HIDE DEF track
  <2> QED
    BY <1>1, <1>3 DEF AllocationState
<1>6. PICK u : u = AllocationUpdated(a)
  OBVIOUS
<1>7. allocations'[a] = y
  BY <1>1, <1>2
<1>8. u.type = "AllocationUpdated" /\ u.agent = a /\ u.cap = y.cap /\ u.status = y.status
  BY <1>6, <1>7 DEF AllocationUpdated
<1>9. PICK p : p = [type |-> "AgentPromoted", agent |-> a, track |-> track]
  OBVIOUS
<1>10. p.type = "AgentPromoted" /\ p.agent = a /\ p.track = track
  BY <1>9
<1> DEFINE events == <<u, p>>
<1>11. Emit(events)
  BY <1>6, <1>9 DEF PromoteAgent
<1>12. events \in Seq({u, p}) /\ Len(events) = 2 /\ events[1] = u /\ events[2] = p
  OBVIOUS
<1> HIDE DEF x, y, events, track
<1>20. /\ \A i \in 1..Len(events) :
           /\ events[i].type \in {"AgentStatusChanged", "AgentPromoted", "AllocationUpdated"}
           /\ events[i].agent = a
           /\ events[i].type = "AgentStatusChanged" => events[i].status = x.status
           /\ events[i].type = "AgentPromoted" => events[i].track = x.track
           /\ events[i].type = "AllocationUpdated" =>
                 events[i].cap = y.cap /\ events[i].status = y.status
       /\ \A i, j \in 1..Len(events) : events[i].type = events[j].type => i = j
  BY <1>4, <1>8, <1>10, <1>12
<1>21. /\ \E i \in 1..Len(events) : events[i].type = "AgentPromoted"
       /\ \E i \in 1..Len(events) : events[i].type = "AllocationUpdated"
  BY <1>8, <1>10, <1>12
<1>13. Told(events)
  BY <1>2, <1>4, <1>5, <1>12, <1>20, <1>21, AgentStepTold
<1> QED
  BY <1>11, <1>13

LEMMA SetAllocationStatusTold ==
    ASSUME SubgraphInv, NEW a \in AgentIds, NEW status \in AllocationStatuses,
           SetAllocationStatus(a, status)
    PROVE  \E events : Emit(events) /\ Told(events)
<1>1. /\ agents \in Seq(AgentState) /\ allocations \in Seq(AllocationState)
      /\ a \in DOMAIN agents /\ a \in DOMAIN allocations
      /\ agents[a] \in AgentState /\ allocations[a] \in AllocationState
  BY DEF SubgraphInv, ChainInv, AgentIds
<1> DEFINE x == agents[a]
           y == [allocations[a] EXCEPT !.status = status]
<1>2. agents' = [agents EXCEPT ![a] = x] /\ UNCHANGED <<positions, exitRules, price>>
      /\ allocations' = [allocations EXCEPT ![a] = y]
  BY <1>1 DEF SetAllocationStatus
<1>3. /\ y \in AllocationState /\ y.cap = allocations[a].cap /\ y.used = allocations[a].used
      /\ y.status = status
  BY <1>1 DEF AllocationState
<1>4. PICK u : u = AllocationUpdated(a)
  OBVIOUS
<1>5. allocations'[a] = y
  BY <1>1, <1>2
<1>6. u.type = "AllocationUpdated" /\ u.agent = a /\ u.cap = y.cap /\ u.status = y.status
  BY <1>4, <1>5 DEF AllocationUpdated
<1> DEFINE events == <<u>>
<1>7. Emit(events)
  BY <1>4 DEF SetAllocationStatus
<1>8. events \in Seq({u}) /\ Len(events) = 1 /\ events[1] = u
  OBVIOUS
<1>9. x \in AgentState /\ x = agents[a]
  BY <1>1
<1> HIDE DEF x, y, events
<1>20. /\ \A i \in 1..Len(events) :
           /\ events[i].type \in {"AgentStatusChanged", "AgentPromoted", "AllocationUpdated"}
           /\ events[i].agent = a
           /\ events[i].type = "AgentStatusChanged" => events[i].status = x.status
           /\ events[i].type = "AgentPromoted" => events[i].track = x.track
           /\ events[i].type = "AllocationUpdated" =>
                 events[i].cap = y.cap /\ events[i].status = y.status
       /\ \A i, j \in 1..Len(events) : events[i].type = events[j].type => i = j
  BY <1>6, <1>8
<1>21. \E i \in 1..Len(events) : events[i].type = "AllocationUpdated"
  BY <1>6, <1>8
<1>10. Told(events)
  BY <1>2, <1>3, <1>8, <1>9, <1>20, <1>21, AgentStepTold
<1> QED
  BY <1>7, <1>10

\* A transaction of TradeRouter: one position of one agent, and what the agent uses.
TradeSteps(id, a) ==
    /\ UNCHANGED <<agents, price>> /\ ChainInv'
    /\ PositionIds' = PositionIds \cup {id} /\ positions'[id].agent = a
    /\ id \in PositionIds => positions[id].agent = a /\ positions[id].status = "Open"
    /\ \A j \in PositionIds :
          j # id => positions'[j] = positions[j] /\ exitRules'[j] = exitRules[j]
    /\ \A k \in AgentIds : /\ allocations'[k].cap = allocations[k].cap
                           /\ allocations'[k].status = allocations[k].status
                           /\ k # a => allocations'[k].used = allocations[k].used

TradeEvent(ev, id, a) ==
    /\ ev.type \in PositionEvents \cup TradeEvents \cup {"AllocationUsedUpdated"}
    /\ ev.agent = a
    /\ ev.type = "AllocationUsedUpdated" => ev.used = allocations'[a].used
    /\ ev.type # "AllocationUsedUpdated" => ev.position = id
    /\ ev.type = "PositionClosed" => ev.pnl \in Int /\ positions'[id].status = "Closed"
    /\ ev.type = "PositionOpened" => id \notin PositionIds

\* Its events: one of each type, an opening alone, the last of the position not its closing.
TradeTells(events, id, a) ==
    LET Has(type) == \E i \in 1..Len(events) : events[i].type = type IN
    /\ \A i \in 1..Len(events) : TradeEvent(events[i], id, a)
    /\ \A i, j \in 1..Len(events) : events[i].type = events[j].type => i = j
    /\ \A i, j \in 1..Len(events) :
          events[i].type = "PositionOpened" /\ events[j].type \in PositionEvents => i = j
    /\ allocations'[a].used = allocations[a].used \/ Has("AllocationUsedUpdated")
    /\ \E l \in 1..Len(events) :
          /\ events[l].type \in PositionEvents \ {"PositionClosed"}
          /\ \A j \in l + 1 .. Len(events) : events[j].type \notin PositionEvents
    /\ id \notin PositionIds => Has("PositionOpened") /\ Has("PositionOpenedFromIntent")
    /\ positions'[id].status = "Closed" => Has("PositionClosed")

LEMMA PositionTold ==
    ASSUME SubgraphInv, NEW T, NEW events \in Seq(T), NEW id, NEW a \in AgentIds,
           TradeSteps(id, a), TradeTells(events, id, a)
    PROVE  Told(events)
<1>20. /\ UNCHANGED <<agents, price>> /\ ChainInv'
       /\ PositionIds' = PositionIds \cup {id} /\ positions'[id].agent = a
       /\ id \in PositionIds => positions[id].agent = a /\ positions[id].status = "Open"
       /\ \A j \in PositionIds :
             j # id => positions'[j] = positions[j] /\ exitRules'[j] = exitRules[j]
  BY DEF TradeSteps
<1>21. \A k \in AgentIds : /\ allocations'[k].cap = allocations[k].cap
                           /\ allocations'[k].status = allocations[k].status
                           /\ k # a => allocations'[k].used = allocations[k].used
  BY DEF TradeSteps
<1>22. ASSUME NEW i \in 1..Len(events)
       PROVE  /\ events[i].type \in PositionEvents \cup TradeEvents \cup {"AllocationUsedUpdated"}
              /\ events[i].agent = a
              /\ events[i].type = "AllocationUsedUpdated" => events[i].used = allocations'[a].used
              /\ events[i].type # "AllocationUsedUpdated" => events[i].position = id
              /\ events[i].type = "PositionClosed" =>
                    events[i].pnl \in Int /\ positions'[id].status = "Closed"
              /\ events[i].type = "PositionOpened" => id \notin PositionIds
  BY DEF TradeTells, TradeEvent
<1>23. /\ \A i, j \in 1..Len(events) : events[i].type = events[j].type => i = j
       /\ \A i, j \in 1..Len(events) :
             events[i].type = "PositionOpened" /\ events[j].type \in PositionEvents => i = j
  BY DEF TradeTells
<1>24. /\ \/ allocations'[a].used = allocations[a].used
          \/ \E i \in 1..Len(events) : events[i].type = "AllocationUsedUpdated"
       /\ id \notin PositionIds =>
            /\ \E i \in 1..Len(events) : events[i].type = "PositionOpened"
            /\ \E i \in 1..Len(events) : events[i].type = "PositionOpenedFromIntent"
       /\ positions'[id].status = "Closed" =>
            \E i \in 1..Len(events) : events[i].type = "PositionClosed"
  BY DEF TradeTells
<1>25. PICK l \in 1..Len(events) :
          /\ events[l].type \in PositionEvents \ {"PositionClosed"}
          /\ \A j \in l + 1 .. Len(events) : events[j].type \notin PositionEvents
  BY DEF TradeTells
<1>1. AgentIds' = AgentIds /\ agents' = agents
  BY <1>20 DEF AgentIds
<1>2. Len(events) \in Nat /\ allocations'[a].used \in Int
  <2>1. allocations' \in Seq(AllocationState) /\ a \in DOMAIN allocations'
    BY <1>1, <1>20 DEF ChainInv, AgentIds
  <2>2. allocations'[a] \in AllocationState
    BY <2>1
  <2> QED
    BY <2>2 DEF AllocationState
<1>3. ASSUME NEW i \in 1..Len(events) PROVE EventTrue(events[i])'
  <2>1. /\ events[i].type \in PositionEvents \cup TradeEvents \cup {"AllocationUsedUpdated"}
        /\ events[i].agent = a /\ id \in PositionIds'
        /\ events[i].type # "AllocationUsedUpdated" => events[i].position = id
    BY <1>20, <1>22
  <2>2. events[i].type \notin {"AgentStatusChanged", "AgentPromoted", "AllocationCreated",
                              "AllocationUpdated"}
    BY <2>1 DEF PositionEvents, TradeEvents
  <2>3. events[i].type \in PositionEvents \cup TradeEvents => events[i].type # "AllocationUsedUpdated"
    BY DEF PositionEvents, TradeEvents
  <2> QED
    BY <1>1, <1>2, <1>20, <1>22, <2>1, <2>2, <2>3 DEF EventTrue
<1>4. ASSUME NEW i \in 1..Len(events)
      PROVE  \A k : Writes(events[i], "position", k) <=> events[i].type \in PositionEvents /\ k = id
  <2>1. events[i].type # "AllocationUsedUpdated" => events[i].position = id
    BY <1>22
  <2> QED
    BY <2>1 DEF Writes, Writers, PositionEvents
<1>14. ASSUME NEW i \in 1..Len(events)
       PROVE  \A k : Writes(events[i], "used", k) <=>
                        events[i].type = "AllocationUsedUpdated" /\ k = a
  <2>1. /\ events[i].type \in PositionEvents \cup TradeEvents \cup {"AllocationUsedUpdated"}
        /\ events[i].agent = a
    BY <1>22
  <2> QED
    BY <2>1 DEF Writes, Writers, PositionEvents, TradeEvents
<1>15. ASSUME NEW i \in 1..Len(events), NEW f \in {"status", "track", "cap", "allocationStatus"}
       PROVE  \A k : ~Writes(events[i], f, k)
  <2>1. events[i].type \in PositionEvents \cup TradeEvents \cup {"AllocationUsedUpdated"}
    BY <1>22
  <2> QED
    BY <2>1 DEF Writes, Writers, PositionEvents, TradeEvents
<1>16. ASSUME NEW i \in 1..Len(events)
       PROVE  \A k : /\ Opens(events[i], k) <=> events[i].type = "PositionOpened" /\ k = id
                     /\ Closes(events[i], k) <=> events[i].type = "PositionClosed" /\ k = id
                     /\ Intends(events[i], k) <=>
                           events[i].type = "PositionOpenedFromIntent" /\ k = id
  <2>1. events[i].type # "AllocationUsedUpdated" => events[i].position = id
    BY <1>22
  <2> QED
    BY <2>1 DEF Opens, Closes, Intends
<1>18. ASSUME NEW i \in 1..Len(events), NEW k, Writes(events[i], "position", k)
       PROVE  k = id
  <2>1. events[i].type # "AllocationUsedUpdated" => events[i].position = id
    BY <1>22
  <2> QED
    BY <1>18, <2>1 DEF Writes, Writers, PositionEvents
<1>17. {"PositionOpened", "PositionClosed"} \subseteq PositionEvents
  BY DEF PositionEvents
<1>5. ASSUME NEW f \in Fields, NEW k \in Keys(f)'
      PROVE  \/ /\ k \in Keys(f) /\ Chain(f, k)' = Chain(f, k)
                /\ \A i \in 1..Len(events) : ~Writes(events[i], f, k)
             \/ \E i \in 1..Len(events) :
                   /\ Writes(events[i], f, k) /\ Written(events[i], f)' = Chain(f, k)'
                   /\ \A j \in i + 1 .. Len(events) : ~Writes(events[j], f, k)
  <2>1. CASE f \in {"status", "track", "cap", "allocationStatus"}
    <3>1. k \in AgentIds /\ Keys(f) = AgentIds
      BY <2>1, <1>1 DEF Keys
    <3>2. Chain(f, k)' = Chain(f, k)
      BY <2>1, <3>1, <1>1, <1>21 DEF Chain
    <3> QED
      BY <2>1, <3>1, <3>2, <1>15
  <2>2. CASE f = "used" /\ (k # a \/ \A i \in 1..Len(events) : events[i].type # "AllocationUsedUpdated")
    <3>1. k \in AgentIds /\ Keys(f) = AgentIds
      BY <2>2, <1>1 DEF Keys
    <3>2. Chain(f, k)' = Chain(f, k)
      BY <2>2, <3>1, <1>1, <1>21, <1>24 DEF Chain
    <3>3. ASSUME NEW i \in 1..Len(events), Writes(events[i], f, k) PROVE FALSE
      BY <2>2, <3>3, <1>14
    <3> QED
      BY <3>1, <3>2, <3>3
  <2>3. CASE f = "used" /\ k = a /\ \E i \in 1..Len(events) : events[i].type = "AllocationUsedUpdated"
    <3>1. PICK i \in 1..Len(events) : events[i].type = "AllocationUsedUpdated"
      BY <2>3
    <3>2. Writes(events[i], f, k) /\ Written(events[i], f)' = Chain(f, k)'
      BY <2>3, <3>1, <1>14, <1>22 DEF Written, Chain
    <3>3. \A j \in i + 1 .. Len(events) : j \in 1..Len(events) /\ j # i
      BY <1>2
    <3>4. ASSUME NEW j \in i + 1 .. Len(events), Writes(events[j], f, k) PROVE FALSE
      <4>1. j \in 1..Len(events) /\ j # i
        BY <3>3
      <4>2. events[j].type = "AllocationUsedUpdated"
        BY <2>3, <3>4, <4>1, <1>14
      <4> QED
        BY <3>1, <4>1, <4>2, <1>23
    <3> QED
      BY <3>2, <3>4
  <2>4. CASE f = "position" /\ k # id
    <3>1. k \in PositionIds /\ Keys(f) = PositionIds
      BY <2>4, <1>20 DEF Keys
    <3>2. Chain(f, k)' = Chain(f, k)
      BY <2>4, <3>1, <1>20 DEF Chain, Shown
    <3>3. ASSUME NEW i \in 1..Len(events), Writes(events[i], f, k) PROVE FALSE
      <4>1. Writes(events[i], "position", k)
        BY <2>4, <3>3
      <4>2. k = id
        BY <4>1, <1>18
      <4> QED
        BY <2>4, <4>2
    <3> QED
      BY <3>1, <3>2, <3>3
  <2>5. CASE f = "position" /\ k = id
    <3>1. Writes(events[l], f, k)
      BY <2>5, <1>4, <1>25
    <3>2. Written(events[l], f)' = Chain(f, k)'
      <4>1. events[l].type # "PositionClosed" /\ events[l].position = id
        BY <1>22, <1>25 DEF PositionEvents
      <4> QED
        BY <2>5, <4>1 DEF Written, Chain
    <3>3. \A j \in l + 1 .. Len(events) : j \in 1..Len(events)
      BY <1>2
    <3>4. \A j \in l + 1 .. Len(events) : ~Writes(events[j], f, k)
      BY <2>5, <3>3, <1>4, <1>25
    <3> QED
      BY <3>1, <3>2, <3>4
  <2> QED
    BY <2>1, <2>2, <2>3, <2>4, <2>5 DEF Fields, AgentFields
<1>6. ASSUME NEW j \in PositionIds
      PROVE  /\ j \in PositionIds' /\ positions'[j].agent = positions[j].agent
             /\ positions[j].status = "Closed" => positions'[j].status = "Closed"
  <2>1. CASE j = id
    BY <2>1, <1>20
  <2>2. CASE j # id
    BY <2>2, <1>20
  <2> QED
    BY <2>1, <2>2
<1>7. ASSUME NEW j \in PositionIds'
      PROVE  \/ j \in PositionIds /\ exitRules'[j] = exitRules[j]
             \/ \E i \in 1..Len(events) : Writes(events[i], "position", j)
  <2>1. CASE j = id
    BY <2>1, <1>4, <1>25
  <2>2. CASE j # id
    BY <2>2, <1>20
  <2> QED
    BY <2>1, <2>2
<1>8. ASSUME NEW j \in PositionIds', positions'[j].status = "Closed"
      PROVE  \/ j \in PositionIds /\ positions[j].status = "Closed"
             \/ \E i \in 1..Len(events) : Closes(events[i], j)
  <2>1. CASE j = id
    BY <2>1, <1>8, <1>16, <1>24
  <2>2. CASE j # id
    BY <2>2, <1>8, <1>20
  <2> QED
    BY <2>1, <2>2
<1>9. ASSUME NEW j \in PositionIds' \ PositionIds
      PROVE  /\ \E i \in 1..Len(events) : Opens(events[i], j)
             /\ \E i \in 1..Len(events) : Intends(events[i], j)
  BY <1>16, <1>20, <1>24
<1>10. \A i \in 1..Len(events) : \A j \in PositionIds : ~Opens(events[i], j)
  BY <1>16, <1>22
<1>11. \A i, j \in 1..Len(events) : \A k \in PositionIds' :
          Opens(events[i], k) /\ Writes(events[j], "position", k) /\ i # j => i < j
  BY <1>4, <1>16, <1>23
<1>12. \A i \in 1..Len(events) : \A k \in PositionIds :
          Closes(events[i], k) => positions[k].status # "Closed"
  <2>1. \A i \in 1..Len(events) : \A k : Closes(events[i], k) => k = id
    BY <1>16
  <2> QED
    BY <2>1, <1>20
<1>13. \A i, j \in 1..Len(events) : \A k \in PositionIds' :
          Closes(events[i], k) /\ Closes(events[j], k) => i = j
  <2>1. \A i \in 1..Len(events) : \A k : Closes(events[i], k) => events[i].type = "PositionClosed"
    BY <1>16
  <2> QED
    BY <2>1, <1>23
<1> QED
  BY <1>1, <1>3, <1>20, <1>5, <1>6, <1>7, <1>8, <1>9, <1>10, <1>11, <1>12, <1>13 DEF Told

\* What the router writes to the allocation of an agent, when it has traded.
LEMMA UsedSet ==
    ASSUME SubgraphInv, NEW a \in AgentIds, NEW used \in Int, SetUsed(a, used),
           UNCHANGED agents
    PROVE  /\ allocations' \in Seq(AllocationState) /\ Len(allocations') = Len(agents')
           /\ allocations'[a].used = used
           /\ \A k \in AgentIds : /\ allocations'[k].cap = allocations[k].cap
                                  /\ allocations'[k].status = allocations[k].status
                                  /\ k # a => allocations'[k].used = allocations[k].used
<1> DEFINE y == [allocations[a] EXCEPT !.used = used]
<1>1. /\ allocations \in Seq(AllocationState) /\ Len(allocations) = Len(agents)
      /\ a \in DOMAIN allocations /\ allocations[a] \in AllocationState
      /\ \A k \in AgentIds : k \in 1..Len(allocations)
  BY DEF SubgraphInv, ChainInv, AgentIds
<1>2. allocations' = [allocations EXCEPT ![a] = y]
  BY DEF SetUsed
<1>3. /\ y \in AllocationState /\ y.used = used /\ y.cap = allocations[a].cap
      /\ y.status = allocations[a].status
  BY <1>1 DEF AllocationState
<1> HIDE DEF y
<1>4. /\ allocations' \in Seq(AllocationState) /\ Len(allocations') = Len(allocations)
      /\ \A k \in 1..Len(allocations) : allocations'[k] = IF k = a THEN y ELSE allocations[k]
  BY <1>1, <1>2, <1>3, ExceptFacts
<1> QED
  BY <1>1, <1>3, <1>4

\* A position that is there gets another record and another ladder.
LEMMA PositionSet ==
    ASSUME SubgraphInv, NEW id \in PositionIds, UNCHANGED <<agents, price>>,
           allocations' \in Seq(AllocationState), Len(allocations') = Len(agents'),
           NEW x \in PositionState, positions' = [positions EXCEPT ![id] = x],
           NEW r \in Seq({"half", "all"}), exitRules' = [exitRules EXCEPT ![id] = r],
           x.agent = positions[id].agent, x.next <= Len(r)
    PROVE  /\ ChainInv' /\ PositionIds' = PositionIds /\ positions'[id] = x
           /\ \A j \in PositionIds :
                 j # id => positions'[j] = positions[j] /\ exitRules'[j] = exitRules[j]
<1>1. /\ positions \in Seq(PositionState) /\ Len(exitRules) = Len(positions)
      /\ exitRules \in Seq(Seq({"half", "all"})) /\ id \in DOMAIN positions /\ id \in DOMAIN exitRules
  BY DEF SubgraphInv, ChainInv, PositionIds
<1>2. /\ positions' \in Seq(PositionState) /\ Len(positions') = Len(positions)
      /\ \A j \in PositionIds : positions'[j] = IF j = id THEN x ELSE positions[j]
  BY <1>1, ExceptFacts DEF PositionIds
<1>3. /\ exitRules' \in Seq(Seq({"half", "all"})) /\ Len(exitRules') = Len(exitRules)
      /\ \A j \in PositionIds : exitRules'[j] = IF j = id THEN r ELSE exitRules[j]
  BY <1>1, ExceptFacts DEF PositionIds
<1>4. PositionIds' = PositionIds /\ AgentIds' = AgentIds
  BY <1>2 DEF PositionIds, AgentIds
<1>5. \A j \in PositionIds' : /\ positions'[j].agent \in AgentIds'
                              /\ positions'[j].next <= Len(exitRules'[j])
  BY <1>2, <1>3, <1>4 DEF SubgraphInv, ChainInv
<1>6. ChainInv'
  BY <1>1, <1>2, <1>3, <1>5 DEF SubgraphInv, ChainInv
<1> QED
  BY <1>2, <1>3, <1>4, <1>6

LEMMA OpenPositionTold ==
    ASSUME SubgraphInv, EventsAssumption, NEW a \in AgentIds, NEW tokens \in 1..MaxTokens,
           NEW ladder \in Ladders, OpenPosition(a, tokens, ladder)
    PROVE  \E events : Emit(events) /\ Told(events)
<1> DEFINE id == Len(positions) + 1
           x == [agent |-> a, tokens |-> tokens, status |-> "Open", next |-> 0, pnl |-> 0]
<1>1. /\ positions \in Seq(PositionState) /\ Len(exitRules) = Len(positions)
      /\ exitRules \in Seq(Seq({"half", "all"})) /\ Len(positions) \in Nat /\ a \in Nat
      /\ \A j \in PositionIds : j # id
  BY DEF SubgraphInv, ChainInv, PositionIds, AgentIds
<1>2. /\ positions' = Append(positions, x) /\ exitRules' = Append(exitRules, ladder)
      /\ SetUsed(a, allocations[a].used + tokens) /\ UNCHANGED <<agents, price>>
  BY DEF OpenPosition
<1>3. x \in PositionState /\ x.agent = a /\ x.status = "Open" /\ x.next = 0
  BY <1>1, tokens \in Int DEF PositionState, EventsAssumption
<1>4. ladder \in Seq({"half", "all"}) /\ 0 <= Len(ladder)
  BY DEF EventsAssumption
<1>5. allocations[a].used + tokens \in Int
  <2>1. allocations[a] \in AllocationState
    BY DEF SubgraphInv, ChainInv, AgentIds
  <2> QED
    BY <2>1 DEF AllocationState, EventsAssumption
<1>6. PICK u : u = UsedUpdated(a)
  OBVIOUS
<1>7. u.type = "AllocationUsedUpdated" /\ u.agent = a /\ u.used = allocations'[a].used
  BY <1>6 DEF UsedUpdated
<1>8. PICK o : o = [type |-> "PositionOpened", position |-> id, agent |-> a, tokens |-> tokens]
  OBVIOUS
<1>9. o.type = "PositionOpened" /\ o.position = id /\ o.agent = a
  BY <1>8
<1>10. PICK t : t = Trade("PositionOpenedFromIntent", id, a)
  OBVIOUS
<1>11. t.type = "PositionOpenedFromIntent" /\ t.position = id /\ t.agent = a
  BY <1>10 DEF Trade
<1> DEFINE events == <<o, u, t>>
<1>12. Emit(events)
  BY <1>6, <1>8, <1>10 DEF OpenPosition
<1>13. /\ events \in Seq({o, u, t}) /\ Len(events) = 3
       /\ events[1] = o /\ events[2] = u /\ events[3] = t
  OBVIOUS
<1> HIDE DEF x, events, id
<1>14. /\ positions' \in Seq(PositionState) /\ Len(positions') = id /\ positions'[id] = x
       /\ \A j \in PositionIds : positions'[j] = positions[j]
       /\ exitRules' \in Seq(Seq({"half", "all"})) /\ Len(exitRules') = id
       /\ exitRules'[id] = ladder
       /\ \A j \in PositionIds : exitRules'[j] = exitRules[j]
  BY <1>1, <1>2, <1>3, <1>4, AppendFacts DEF PositionIds, id
<1>15. /\ allocations' \in Seq(AllocationState) /\ Len(allocations') = Len(agents')
       /\ \A k \in AgentIds : /\ allocations'[k].cap = allocations[k].cap
                              /\ allocations'[k].status = allocations[k].status
                              /\ k # a => allocations'[k].used = allocations[k].used
  BY <1>2, <1>5, UsedSet
<1>16. PositionIds' = PositionIds \cup {id} /\ AgentIds' = AgentIds /\ id \notin PositionIds
  BY <1>1, <1>2, <1>14 DEF PositionIds, AgentIds, id
<1>17. \A j \in PositionIds' : /\ positions'[j].agent \in AgentIds'
                               /\ positions'[j].next <= Len(exitRules'[j])
  BY <1>3, <1>4, <1>14, <1>16 DEF SubgraphInv, ChainInv
<1>18. ChainInv'
  BY <1>2, <1>14, <1>15, <1>17 DEF SubgraphInv, ChainInv
<1>19. \A i \in 1..Len(events) : i = 1 \/ i = 2 \/ i = 3
  BY <1>13
<1>20. ASSUME NEW i \in 1..Len(events) PROVE TradeEvent(events[i], id, a)
  BY <1>7, <1>9, <1>11, <1>13, <1>16, <1>19 DEF TradeEvent, PositionEvents, TradeEvents
<1>21. /\ \A i, j \in 1..Len(events) : events[i].type = events[j].type => i = j
       /\ \A i, j \in 1..Len(events) :
             events[i].type = "PositionOpened" /\ events[j].type \in PositionEvents => i = j
  BY <1>7, <1>9, <1>11, <1>13, <1>19 DEF PositionEvents
<1>22. /\ \E i \in 1..Len(events) : events[i].type = "AllocationUsedUpdated"
       /\ \E i \in 1..Len(events) : events[i].type = "PositionOpened"
       /\ \E i \in 1..Len(events) : events[i].type = "PositionOpenedFromIntent"
  BY <1>7, <1>9, <1>11, <1>13
<1>23. /\ 1 \in 1..Len(events) /\ events[1].type \in PositionEvents \ {"PositionClosed"}
       /\ \A j \in 1 + 1 .. Len(events) : events[j].type \notin PositionEvents
  BY <1>7, <1>9, <1>11, <1>13 DEF PositionEvents
<1>24. /\ positions'[id].agent = a /\ positions'[id].status # "Closed"
       /\ \A j \in PositionIds : positions'[j] = positions[j] /\ exitRules'[j] = exitRules[j]
  BY <1>3, <1>14
<1>25. TradeSteps(id, a)
  BY <1>2, <1>15, <1>16, <1>18, <1>24 DEF TradeSteps
<1>26. TradeTells(events, id, a)
  BY <1>20, <1>21, <1>22, <1>23, <1>24 DEF TradeTells
<1>27. Told(events)
  BY <1>13, <1>25, <1>26, PositionTold
<1> QED
  BY <1>12, <1>27

LEMMA AddToPositionTold ==
    ASSUME SubgraphInv, NEW id \in PositionIds, AddToPosition(id)
    PROVE  \E events : Emit(events) /\ Told(events)
<1> DEFINE a == positions[id].agent
           x == [positions[id] EXCEPT !.tokens = positions[id].tokens + 1]
<1>1. /\ positions[id] \in PositionState /\ a \in AgentIds /\ id \in DOMAIN exitRules
      /\ exitRules[id] \in Seq({"half", "all"}) /\ positions[id].next <= Len(exitRules[id])
      /\ allocations[a] \in AllocationState
  BY DEF SubgraphInv, ChainInv, PositionIds, AgentIds
<1>2. /\ positions[id].status = "Open" /\ positions' = [positions EXCEPT ![id] = x]
      /\ SetUsed(a, allocations[a].used + 1) /\ UNCHANGED <<agents, price, exitRules>>
  BY DEF AddToPosition
<1>3. x \in PositionState /\ x.agent = a /\ x.status = "Open" /\ x.next = positions[id].next
  <2>1. PICK n \in Int : n = positions[id].tokens + 1
    BY <1>1 DEF PositionState
  <2>2. x = [positions[id] EXCEPT !.tokens = n]
    BY <2>1
  <2> QED
    BY <1>1, <1>2, <2>2 DEF PositionState
<1>4. allocations[a].used + 1 \in Int
  BY <1>1 DEF AllocationState
<1>5. exitRules' = [exitRules EXCEPT ![id] = exitRules[id]]
  <2>1. exitRules \in Seq(Seq({"half", "all"}))
    BY DEF SubgraphInv, ChainInv
  <2> QED
    BY <1>1, <1>2, <2>1
<1>6. PICK u : u = UsedUpdated(a)
  OBVIOUS
<1>7. u.type = "AllocationUsedUpdated" /\ u.agent = a /\ u.used = allocations'[a].used
  BY <1>6 DEF UsedUpdated
<1>8. PICK e : e = Trade("PositionIncreased", id, a)
  OBVIOUS
<1>9. e.type = "PositionIncreased" /\ e.position = id /\ e.agent = a
  BY <1>8 DEF Trade
<1>10. PICK t : t = Trade("PositionIncreasedFromIntent", id, a)
  OBVIOUS
<1>11. t.type = "PositionIncreasedFromIntent" /\ t.position = id /\ t.agent = a
  BY <1>10 DEF Trade
<1> DEFINE events == <<e, u, t>>
<1>12. Emit(events)
  BY <1>6, <1>8, <1>10 DEF AddToPosition
<1>13. /\ events \in Seq({e, u, t}) /\ Len(events) = 3
       /\ events[1] = e /\ events[2] = u /\ events[3] = t
  OBVIOUS
<1> HIDE DEF x, events
<1>15. /\ allocations' \in Seq(AllocationState) /\ Len(allocations') = Len(agents')
       /\ \A k \in AgentIds : /\ allocations'[k].cap = allocations[k].cap
                              /\ allocations'[k].status = allocations[k].status
                              /\ k # a => allocations'[k].used = allocations[k].used
  <2> HIDE DEF a
  <2> QED
    BY <1>1, <1>2, <1>4, UsedSet
<1>16. /\ ChainInv' /\ PositionIds' = PositionIds /\ positions'[id] = x
       /\ \A j \in PositionIds :
             j # id => positions'[j] = positions[j] /\ exitRules'[j] = exitRules[j]
  <2>1. x.agent = positions[id].agent /\ x.next <= Len(exitRules[id])
    BY <1>1, <1>3
  <2> QED
    BY <1>1, <1>2, <1>3, <1>5, <1>15, <2>1, PositionSet
<1>19. \A i \in 1..Len(events) : i = 1 \/ i = 2 \/ i = 3
  BY <1>13
<1>20. ASSUME NEW i \in 1..Len(events) PROVE TradeEvent(events[i], id, a)
  BY <1>7, <1>9, <1>11, <1>13, <1>19 DEF TradeEvent, PositionEvents, TradeEvents
<1>21. /\ \A i, j \in 1..Len(events) : events[i].type = events[j].type => i = j
       /\ \A i \in 1..Len(events) : events[i].type # "PositionOpened"
       /\ \E i \in 1..Len(events) : events[i].type = "AllocationUsedUpdated"
  BY <1>7, <1>9, <1>11, <1>13, <1>19
<1>22. /\ 1 \in 1..Len(events) /\ events[1].type \in PositionEvents \ {"PositionClosed"}
       /\ \A j \in 1 + 1 .. Len(events) : events[j].type \notin PositionEvents
  BY <1>7, <1>9, <1>11, <1>13 DEF PositionEvents
<1>23. /\ positions'[id].agent = a /\ positions'[id].status # "Closed"
       /\ PositionIds' = PositionIds \cup {id} /\ positions[id].agent = a
  BY <1>3, <1>16
<1>24. TradeSteps(id, a)
  BY <1>2, <1>15, <1>16, <1>23 DEF TradeSteps
<1>25. TradeTells(events, id, a)
  BY <1>20, <1>21, <1>22, <1>23 DEF TradeTells
<1>26. Told(events)
  BY <1>1, <1>13, <1>24, <1>25, PositionTold
<1> QED
  BY <1>12, <1>26

LEMMA SellTold ==
    ASSUME SubgraphInv, NEW id \in PositionIds, NEW n, NEW next \in Nat,
           next <= Len(exitRules[id]),
           NEW reduction \in {"PositionReduced", "PositionLadderExitApplied"},
           NEW trade \in TradeEvents \ {"PositionOpenedFromIntent"},
           Sell(id, n, next, reduction, trade)
    PROVE  \E events : Emit(events) /\ Told(events)
<1> DEFINE p == positions[id]
           a == p.agent
           closes == n = p.tokens
           status == IF closes THEN "Closed" ELSE "Open"
<1>1. /\ p \in PositionState /\ a \in AgentIds /\ id \in DOMAIN exitRules
      /\ exitRules[id] \in Seq({"half", "all"})
      /\ exitRules \in Seq(Seq({"half", "all"}))
      /\ allocations[a] \in AllocationState /\ price \in Int
  BY DEF SubgraphInv, ChainInv, PositionIds, AgentIds
<1>2. /\ p.tokens \in Int /\ p.pnl \in Int /\ p.agent \in Nat
      /\ allocations[a].used \in Int
  BY <1>1 DEF PositionState, AllocationState
<1>3. p.status = "Open" /\ n \in 1..p.tokens
  BY DEF Sell
<1>4. n \in Int
  BY <1>2, <1>3
<1>5. p.pnl + n * (price - 1) \in Int
  BY <1>1, <1>2, <1>4
<1>6. PICK pnl \in Int : pnl = p.pnl + n * (price - 1)
  BY <1>5
<1>7. PICK left \in Int : left = p.tokens - n
  BY <1>2, <1>4
<1> DEFINE x == [agent |-> a, tokens |-> left, next |-> next, pnl |-> pnl, status |-> status]
<1>8. /\ positions' = [positions EXCEPT ![id] = x] /\ SetUsed(a, allocations[a].used - n)
      /\ UNCHANGED <<agents, exitRules, price>>
  BY <1>6, <1>7 DEF Sell
<1>9. /\ x \in PositionState /\ x.agent = a /\ x.next = next
      /\ x.status = "Closed" <=> closes
  BY <1>2 DEF PositionState
<1>10. allocations[a].used - n \in Int
  BY <1>2, <1>4
<1>11. exitRules' = [exitRules EXCEPT ![id] = exitRules[id]]
  BY <1>1, <1>8
<1>12. PICK u : u = UsedUpdated(a)
  OBVIOUS
<1>13. u.type = "AllocationUsedUpdated" /\ u.agent = a /\ u.used = allocations'[a].used
  BY <1>12 DEF UsedUpdated
<1>14. PICK e : e = Trade(reduction, id, a)
  OBVIOUS
<1>15. e.type = reduction /\ e.position = id /\ e.agent = a
  BY <1>14 DEF Trade
<1>16. PICK t : t = Trade(trade, id, a)
  OBVIOUS
<1>17. t.type = trade /\ t.position = id /\ t.agent = a
  BY <1>16 DEF Trade
<1>18. PICK c : c = [type |-> "PositionClosed", position |-> id, agent |-> a, pnl |-> pnl]
  OBVIOUS
<1>19. c.type = "PositionClosed" /\ c.position = id /\ c.agent = a /\ c.pnl \in Int
  BY <1>18
<1>20. Emit((IF closes THEN <<c>> ELSE <<>>) \o <<e, u, t>>)
  BY <1>6, <1>12, <1>14, <1>16, <1>18 DEF Sell
<1>21. /\ <<e, u, t>> \in Seq({e, u, t}) /\ Len(<<e, u, t>>) = 3
       /\ <<e, u, t>>[1] = e /\ <<e, u, t>>[2] = u /\ <<e, u, t>>[3] = t
  OBVIOUS
<1>22. reduction \in PositionEvents \ {"PositionClosed", "PositionOpened"}
       /\ trade \notin PositionEvents /\ trade # "PositionOpenedFromIntent"
       /\ trade # "AllocationUsedUpdated" /\ trade \in TradeEvents
       /\ "PositionClosed" \in PositionEvents /\ "AllocationUsedUpdated" \notin PositionEvents
       /\ reduction # "AllocationUsedUpdated" /\ "PositionOpened" \in PositionEvents
  BY DEF PositionEvents, TradeEvents
<1> HIDE DEF x
<1>23. /\ allocations' \in Seq(AllocationState) /\ Len(allocations') = Len(agents')
       /\ \A k \in AgentIds : /\ allocations'[k].cap = allocations[k].cap
                              /\ allocations'[k].status = allocations[k].status
                              /\ k # a => allocations'[k].used = allocations[k].used
  <2> HIDE DEF a, p
  <2> QED
    BY <1>1, <1>8, <1>10, UsedSet
<1>24. /\ ChainInv' /\ PositionIds' = PositionIds /\ positions'[id] = x
       /\ \A j \in PositionIds :
             j # id => positions'[j] = positions[j] /\ exitRules'[j] = exitRules[j]
  <2>1. x.agent = positions[id].agent /\ x.next <= Len(exitRules[id])
    BY <1>9
  <2>2. UNCHANGED <<agents, price>> /\ positions' = [positions EXCEPT ![id] = x]
    BY <1>8
  <2>3. allocations' \in Seq(AllocationState) /\ Len(allocations') = Len(agents')
    BY <1>23
  <2>4. x \in PositionState /\ exitRules[id] \in Seq({"half", "all"})
    BY <1>1, <1>9
  <2> HIDE DEF a, p, status
  <2> QED
    BY <1>11, <2>1, <2>2, <2>3, <2>4, PositionSet
<1>25. /\ positions'[id].agent = a
       /\ positions'[id].status = "Closed" <=> closes
       /\ PositionIds' = PositionIds \cup {id} /\ positions[id].agent = a
  BY <1>9, <1>24
<1>26. TradeSteps(id, a)
  BY <1>3, <1>8, <1>23, <1>24, <1>25, <1>9 DEF TradeSteps
<1> HIDE DEF closes
<1>27. CASE closes
  <2> DEFINE events == <<c>> \o <<e, u, t>>
  <2>1. Emit(events)
    BY <1>20, <1>27
  <2>2. /\ events \in Seq({c} \cup {e, u, t}) /\ Len(events) = 4
        /\ events[1] = c /\ events[2] = e /\ events[3] = u /\ events[4] = t
    <3>1. <<c>> \in Seq({c}) /\ Len(<<c>>) = 1 /\ <<c>>[1] = c
      OBVIOUS
    <3> HIDE DEF events
    <3>2. /\ events \in Seq({c} \cup {e, u, t}) /\ Len(events) = 1 + 3
          /\ \A i \in 1..1 : events[i] = <<c>>[i]
          /\ \A i \in 1..3 : events[1 + i] = <<e, u, t>>[i]
      BY <1>21, <3>1, ConcatFacts DEF events
    <3> QED
      BY <1>21, <3>1, <3>2
  <2> HIDE DEF events
  <2>3. \A i \in 1..Len(events) : i = 1 \/ i = 2 \/ i = 3 \/ i = 4
    BY <2>2
  <2>4. ASSUME NEW i \in 1..Len(events) PROVE TradeEvent(events[i], id, a)
    BY <1>13, <1>15, <1>17, <1>19, <1>22, <1>25, <1>27, <2>2, <2>3 DEF TradeEvent
  <2>5. /\ \A i, j \in 1..Len(events) : events[i].type = events[j].type => i = j
        /\ \A i \in 1..Len(events) : events[i].type # "PositionOpened"
        /\ \E i \in 1..Len(events) : events[i].type = "AllocationUsedUpdated"
        /\ \E i \in 1..Len(events) : events[i].type = "PositionClosed"
    BY <1>13, <1>15, <1>17, <1>19, <1>22, <2>2, <2>3 DEF PositionEvents, TradeEvents
  <2>6. /\ 2 \in 1..Len(events) /\ events[2].type \in PositionEvents \ {"PositionClosed"}
        /\ \A j \in 2 + 1 .. Len(events) : events[j].type \notin PositionEvents
    BY <1>13, <1>15, <1>17, <1>22, <2>2
  <2>7. TradeTells(events, id, a)
    BY <2>4, <2>5, <2>6 DEF TradeTells
  <2>8. Told(events)
    BY <1>1, <1>26, <2>2, <2>7, PositionTold
  <2> QED
    BY <2>1, <2>8
<1>28. CASE ~closes
  <2> DEFINE events == <<e, u, t>>
  <2>1. Emit(events)
    <3>1. Emit(<<>> \o <<e, u, t>>)
      BY <1>20, <1>28
    <3>2. <<>> \o <<e, u, t>> = <<e, u, t>>
      OBVIOUS
    <3> QED
      BY <3>1, <3>2
  <2>2. /\ events \in Seq({e, u, t}) /\ Len(events) = 3
        /\ events[1] = e /\ events[2] = u /\ events[3] = t
    BY <1>21
  <2> HIDE DEF events
  <2>3. \A i \in 1..Len(events) : i = 1 \/ i = 2 \/ i = 3
    BY <2>2
  <2>4. ASSUME NEW i \in 1..Len(events) PROVE TradeEvent(events[i], id, a)
    BY <1>13, <1>15, <1>17, <1>22, <1>25, <2>2, <2>3 DEF TradeEvent
  <2>5. /\ \A i, j \in 1..Len(events) : events[i].type = events[j].type => i = j
        /\ \A i \in 1..Len(events) : events[i].type # "PositionOpened"
        /\ \E i \in 1..Len(events) : events[i].type = "AllocationUsedUpdated"
    BY <1>13, <1>15, <1>17, <1>22, <2>2, <2>3 DEF PositionEvents, TradeEvents
  <2>6. /\ 1 \in 1..Len(events) /\ events[1].type \in PositionEvents \ {"PositionClosed"}
        /\ \A j \in 1 + 1 .. Len(events) : events[j].type \notin PositionEvents
    BY <1>13, <1>15, <1>17, <1>22, <2>2
  <2>7. TradeTells(events, id, a)
    BY <1>25, <1>28, <2>4, <2>5, <2>6 DEF TradeTells
  <2>8. Told(events)
    BY <1>1, <1>26, <2>2, <2>7, PositionTold
  <2> QED
    BY <2>1, <2>8
<1> QED
  BY <1>27, <1>28

\* The three ways to sell.
LEMMA SalesTold ==
    ASSUME SubgraphInv, NEW id \in PositionIds,
           \/ \E n \in 1..MaxTokens : ReducePosition(id, n)
           \/ ExecuteExit(id) \/ ForceClose(id)
    PROVE  \E events : Emit(events) /\ Told(events)
<1>1. /\ positions[id].next \in Nat /\ positions[id].next <= Len(exitRules[id])
      /\ Len(exitRules[id]) \in Nat
  <2>1. /\ positions[id] \in PositionState /\ exitRules[id] \in Seq({"half", "all"})
        /\ positions[id].next <= Len(exitRules[id])
    BY DEF SubgraphInv, ChainInv, PositionIds
  <2> QED
    BY <2>1 DEF PositionState
<1>2. {"PositionReducedFromIntent", "ExitExecuted", "PositionForceClosed"}
        \subseteq TradeEvents \ {"PositionOpenedFromIntent"}
  BY DEF TradeEvents
<1>3. CASE \E n \in 1..MaxTokens : ReducePosition(id, n)
  <2>1. PICK n : Sell(id, n, positions[id].next, "PositionReduced", "PositionReducedFromIntent")
    BY <1>3 DEF ReducePosition
  <2> QED
    BY <1>1, <1>2, <2>1, SellTold
<1>4. CASE ExecuteExit(id)
  <2>1. PICK n : Sell(id, n, positions[id].next + 1, "PositionLadderExitApplied", "ExitExecuted")
    BY <1>4 DEF ExecuteExit
  <2>2. positions[id].next + 1 \in Nat /\ positions[id].next + 1 <= Len(exitRules[id])
    BY <1>1, <1>4 DEF ExecuteExit
  <2> QED
    BY <1>2, <2>1, <2>2, SellTold
<1>5. CASE ForceClose(id)
  <2>1. PICK n : Sell(id, n, positions[id].next, "PositionReduced", "PositionForceClosed")
    BY <1>5 DEF ForceClose
  <2> QED
    BY <1>1, <1>2, <2>1, SellTold
<1> QED
  BY <1>3, <1>4, <1>5

LEMMA UpdateExitLadderTold ==
    ASSUME SubgraphInv, EventsAssumption, NEW id \in PositionIds, NEW pending \in Ladders,
           UpdateExitLadder(id, pending)
    PROVE  \E events : Emit(events) /\ Told(events)
<1> DEFINE x == positions[id]
           a == x.agent
           r == SubSeq(exitRules[id], 1, x.next) \o pending
<1>1. /\ x \in PositionState /\ a \in AgentIds /\ id \in DOMAIN exitRules
      /\ exitRules[id] \in Seq({"half", "all"}) /\ x.next <= Len(exitRules[id])
      /\ exitRules \in Seq(Seq({"half", "all"})) /\ positions \in Seq(PositionState)
      /\ id \in DOMAIN positions
      /\ allocations \in Seq(AllocationState) /\ Len(allocations) = Len(agents)
  BY DEF SubgraphInv, ChainInv, PositionIds, AgentIds
<1>2. /\ x.status = "Open" /\ exitRules' = [exitRules EXCEPT ![id] = r]
      /\ UNCHANGED <<agents, allocations, positions, price>>
  BY DEF UpdateExitLadder
<1>3. r \in Seq({"half", "all"}) /\ x.next <= Len(r)
  <2>1. pending \in Seq({"half", "all"}) /\ x.next \in Nat /\ Len(exitRules[id]) \in Nat
    BY <1>1 DEF EventsAssumption, PositionState
  <2>2. PICK s : s = SubSeq(exitRules[id], 1, x.next)
    OBVIOUS
  <2>3. s \in Seq({"half", "all"}) /\ Len(s) = x.next
    BY <1>1, <2>1, <2>2
  <2>4. Len(s \o pending) = x.next + Len(pending) /\ s \o pending \in Seq({"half", "all"})
    BY <2>1, <2>3
  <2> QED
    BY <2>1, <2>2, <2>4
<1>4. positions' = [positions EXCEPT ![id] = x]
  BY <1>1, <1>2
<1>5. PICK e : e = Trade("PositionExitLadderUpdated", id, a)
  OBVIOUS
<1>6. e.type = "PositionExitLadderUpdated" /\ e.position = id /\ e.agent = a
  BY <1>5 DEF Trade
<1>7. PICK t : t = Trade("PositionExitLadderUpdatedFromIntent", id, a)
  OBVIOUS
<1>8. t.type = "PositionExitLadderUpdatedFromIntent" /\ t.position = id /\ t.agent = a
  BY <1>7 DEF Trade
<1> DEFINE events == <<e, t>>
<1>9. Emit(events)
  BY <1>5, <1>7 DEF UpdateExitLadder
<1>10. events \in Seq({e, t}) /\ Len(events) = 2 /\ events[1] = e /\ events[2] = t
  OBVIOUS
<1> HIDE DEF events, r
<1>11. /\ ChainInv' /\ PositionIds' = PositionIds /\ positions'[id] = x
       /\ \A j \in PositionIds :
             j # id => positions'[j] = positions[j] /\ exitRules'[j] = exitRules[j]
  <2>1. allocations' \in Seq(AllocationState) /\ Len(allocations') = Len(agents')
    BY <1>1, <1>2
  <2> QED
    BY <1>1, <1>2, <1>3, <1>4, <2>1, PositionSet
<1>12. \A i \in 1..Len(events) : i = 1 \/ i = 2
  BY <1>10
<1>13. ASSUME NEW i \in 1..Len(events) PROVE TradeEvent(events[i], id, a)
  BY <1>6, <1>8, <1>10, <1>12 DEF TradeEvent, PositionEvents, TradeEvents
<1>14. /\ \A i, j \in 1..Len(events) : events[i].type = events[j].type => i = j
       /\ \A i \in 1..Len(events) : events[i].type # "PositionOpened"
  BY <1>6, <1>8, <1>10, <1>12
<1>15. /\ 1 \in 1..Len(events) /\ events[1].type \in PositionEvents \ {"PositionClosed"}
       /\ \A j \in 1 + 1 .. Len(events) : events[j].type \notin PositionEvents
  BY <1>6, <1>8, <1>10 DEF PositionEvents
<1>16. /\ positions'[id].agent = a /\ positions'[id].status # "Closed"
       /\ PositionIds' = PositionIds \cup {id} /\ positions[id].agent = a
       /\ allocations' = allocations
  BY <1>2, <1>11
<1>17. TradeSteps(id, a)
  BY <1>2, <1>11, <1>16 DEF TradeSteps
<1>18. TradeTells(events, id, a)
  BY <1>13, <1>14, <1>15, <1>16 DEF TradeTells
<1>19. Told(events)
  BY <1>1, <1>10, <1>17, <1>18, PositionTold
<1> QED
  BY <1>9, <1>19

-----------------------------------------------------------------------------
(* The invariant. *)

LEMMA ContractsKeep ==
    ASSUME SubgraphInv, ContractsNext, UNCHANGED entityVars, EventsAssumption
    PROVE  SubgraphInv'
<1>1. CASE \E to \in Prices : PriceMoves(to)
  <2>1. PICK to \in Prices : PriceMoves(to)
    BY <1>1
  <2>2. price' \in Nat /\ cursor = 0
        /\ UNCHANGED <<agents, allocations, positions, exitRules, log, cursor>>
    BY <2>1 DEF PriceMoves, EventsAssumption
  <2> QED
    BY <2>2, StandsStill
<1>2. CASE ~(\E to \in Prices : PriceMoves(to))
  <2>1. CASE RegisterAgent
    BY <2>1, RegisterAgentTold, TransactionKeeps
  <2>2. ASSUME NEW a \in AgentIds, NEW status \in AgentStatuses, SetAgentStatus(a, status)
        PROVE  SubgraphInv'
    BY <2>2, SetAgentStatusTold, TransactionKeeps
  <2>3. ASSUME NEW a \in AgentIds, NEW status \in AllocationStatuses,
               SetAllocationStatus(a, status)
        PROVE  SubgraphInv'
    BY <2>3, SetAllocationStatusTold, TransactionKeeps
  <2>4. ASSUME NEW a \in AgentIds, PromoteAgent(a) PROVE SubgraphInv'
    BY <2>4, PromoteAgentTold, TransactionKeeps
  <2>5. ASSUME NEW a \in AgentIds, NEW tokens \in 1..MaxTokens, NEW ladder \in Ladders,
               OpenPosition(a, tokens, ladder)
        PROVE  SubgraphInv'
    BY <2>5, OpenPositionTold, TransactionKeeps
  <2>6. ASSUME NEW id \in PositionIds, AddToPosition(id) PROVE SubgraphInv'
    BY <2>6, AddToPositionTold, TransactionKeeps
  <2>7. ASSUME NEW id \in PositionIds,
               \/ \E n \in 1..MaxTokens : ReducePosition(id, n)
               \/ ExecuteExit(id) \/ ForceClose(id)
        PROVE  SubgraphInv'
    BY <2>7, SalesTold, TransactionKeeps
  <2>8. ASSUME NEW id \in PositionIds, NEW pending \in Ladders, UpdateExitLadder(id, pending)
        PROVE  SubgraphInv'
    BY <2>8, UpdateExitLadderTold, TransactionKeeps
  <2> QED
    BY <1>2, <2>1, <2>2, <2>3, <2>4, <2>5, <2>6, <2>7, <2>8 DEF ContractsNext
<1> QED
  BY <1>1, <1>2

\* Between two blocks and within one, the indexer owes the chain what the events it has
\* not handled say, and nothing else.
THEOREM SubgraphInvariant == SubgraphSpec => []SubgraphInv
<1>1. SubgraphInit => SubgraphInv
  BY EventsAssumption, InitHolds
<1>2. SubgraphInv /\ [SubgraphNext]_subgraphVars => SubgraphInv'
  <2>1. SUFFICES ASSUME SubgraphInv, [SubgraphNext]_subgraphVars PROVE SubgraphInv'
    OBVIOUS
  <2>2. CASE ContractsNext /\ UNCHANGED entityVars
    BY <2>1, <2>2, EventsAssumption, ContractsKeep
  <2>3. CASE HandleEvent
    BY <2>1, <2>3, HandleKeeps
  <2>4. CASE CommitBlock
    BY <2>1, <2>4, CommitKeeps
  <2>5. CASE UNCHANGED subgraphVars
    <3>1. price' \in Nat /\ price' = price /\ UNCHANGED entityVars
          /\ UNCHANGED <<agents, allocations, positions, exitRules, log, cursor>>
      BY <2>1, <2>5 DEF subgraphVars, contractVars, SubgraphInv, ChainInv
    <3> QED
      BY <2>1, <3>1, StandsStill
  <2> QED
    BY <2>1, <2>2, <2>3, <2>4, <2>5 DEF SubgraphNext
<1> QED
  BY <1>1, <1>2, PTL DEF SubgraphSpec

-----------------------------------------------------------------------------
(* What it means at the end of a block, when no event is left. *)

LEMMA NothingPending ==
    ASSUME SubgraphInv, cursor = Len(log)
    PROVE  /\ Pending = {}
           /\ \A f \in Fields : \A k \in Keys(f) : Row(f, k) = {Chain(f, k)}
           /\ \A id \in PositionIds : RulesSynced(id)
<1>1. Pending = {}
  BY DEF Pending, SubgraphInv, LogInv
<1> QED
  BY <1>1 DEF SubgraphInv, Settled, RulesSettled

LEMMA PositionsSettled ==
    ASSUME SubgraphInv, cursor = Len(log), NEW id \in PositionIds
    PROVE  /\ id \in DOMAIN positionRows /\ positionRows[id] \in PositionState
           /\ positions[id] \in PositionState
           /\ positionRows[id].agent = positions[id].agent
           /\ Shown(positionRows[id]) = Shown(positions[id])
           /\ <<id, "PositionOpenedFromIntent">> \in activities
           /\ <<id, "PositionClosed">> \in activities <=> positions[id].status = "Closed"
<1>1. Pending = {}
  BY NothingPending
<1>2. id \in DOMAIN positionRows /\ positionRows[id].agent = positions[id].agent
  BY <1>1 DEF SubgraphInv, Openings
<1>3. Row("position", id) = {Chain("position", id)}
  BY NothingPending DEF Fields, Keys
<1>4. Shown(positionRows[id]) = Shown(positions[id])
  <2>1. Row("position", id) = {Shown(positionRows[id])}
    BY <1>2 DEF Row
  <2> QED
    BY <1>3, <2>1 DEF Chain
<1>5. <<id, "PositionClosed">> \in activities <=> positions[id].status = "Closed"
  BY <1>1 DEF SubgraphInv, Closings
<1>6. <<id, "PositionOpenedFromIntent">> \in activities
  BY <1>1 DEF SubgraphInv, Intents
<1>7. positionRows[id] \in PositionState /\ positions[id] \in PositionState
  BY <1>2 DEF SubgraphInv, RowsInv, ChainInv, PositionIds
<1> QED
  BY <1>2, <1>4, <1>5, <1>6, <1>7

LEMMA PositionsRight ==
    ASSUME SubgraphInv, cursor = Len(log)
    PROVE  PositionsMatch
<1> SUFFICES ASSUME NEW id \in PositionIds
             PROVE  /\ id \in DOMAIN positionRows
                    /\ positionRows[id] = [positions[id] EXCEPT !.pnl = positionRows[id].pnl]
                    /\ positionRows[id].status = "Closed" =>
                          positionRows[id].pnl = positions[id].pnl
                    /\ \A i \in 1..Len(exitRules[id]) :
                          <<id, i>> \in DOMAIN ruleRows /\ ruleRows[<<id, i>>] = exitRules[id][i]
  BY DEF PositionsMatch
<1>1. /\ id \in DOMAIN positionRows /\ positionRows[id] \in PositionState
      /\ positions[id] \in PositionState
      /\ positionRows[id].agent = positions[id].agent
      /\ Shown(positionRows[id]) = Shown(positions[id])
  BY PositionsSettled
<1> DEFINE r == positionRows[id]
           p == positions[id]
<1>2. /\ r.tokens = p.tokens /\ r.status = p.status /\ r.next = p.next
      /\ r.status = "Closed" => r.pnl = p.pnl
  BY <1>1 DEF Shown
<1>3. r = [p EXCEPT !.pnl = r.pnl]
  <2> HIDE DEF r, p
  <2>1. r \in PositionState /\ p \in PositionState /\ r.agent = p.agent
    BY <1>1 DEF r, p
  <2>2. PICK n \in Int : n = r.pnl
    BY <2>1 DEF PositionState
  <2>3. r = [p EXCEPT !.pnl = n]
    BY <1>2, <2>1, <2>2 DEF PositionState
  <2> QED
    BY <2>2, <2>3
<1>4. RulesSynced(id)
  BY NothingPending
<1> QED
  BY <1>1, <1>2, <1>3, <1>4 DEF RulesSynced

LEMMA AllocationsRight ==
    ASSUME SubgraphInv, cursor = Len(log)
    PROVE  AllocationsMatch
<1> SUFFICES ASSUME NEW a \in AgentIds
             PROVE  a \in DOMAIN allocationRows /\ allocationRows[a] = allocations[a]
  BY DEF AllocationsMatch
<1>1. /\ Row("cap", a) = {allocations[a].cap} /\ Row("used", a) = {allocations[a].used}
      /\ Row("allocationStatus", a) = {allocations[a].status}
  <2>1. \A f \in {"cap", "used", "allocationStatus"} : f \in Fields /\ a \in Keys(f)
    BY DEF Fields, AgentFields, Keys
  <2>2. \A f \in {"cap", "used", "allocationStatus"} : Row(f, a) = {Chain(f, a)}
    BY <2>1, NothingPending
  <2>3. Chain("cap", a) = allocations[a].cap
    BY DEF Chain
  <2>4. Chain("used", a) = allocations[a].used
    BY DEF Chain
  <2>5. Chain("allocationStatus", a) = allocations[a].status
    BY DEF Chain
  <2> QED
    BY <2>2, <2>3, <2>4, <2>5
<1>2. a \in DOMAIN allocationRows
  BY <1>1 DEF Row
<1>3. /\ allocationRows[a].cap = allocations[a].cap /\ allocationRows[a].used = allocations[a].used
      /\ allocationRows[a].status = allocations[a].status
  <2>1. Row("cap", a) = {allocationRows[a].cap}
    BY <1>2 DEF Row
  <2>2. Row("used", a) = {allocationRows[a].used}
    BY <1>2 DEF Row
  <2>3. Row("allocationStatus", a) = {allocationRows[a].status}
    BY <1>2 DEF Row
  <2> QED
    BY <1>1, <2>1, <2>2, <2>3
<1>4. allocationRows[a] \in AllocationState /\ allocations[a] \in AllocationState
  BY <1>2 DEF SubgraphInv, RowsInv, ChainInv, AgentIds
<1> QED
  BY <1>2, <1>3, <1>4 DEF AllocationState

LEMMA AgentsRight ==
    ASSUME SubgraphInv, cursor = Len(log)
    PROVE  AgentsMatch
<1> SUFFICES ASSUME NEW a \in AgentIds
             PROVE  /\ a \in DOMAIN agentRows
                    /\ agentRows[a] =
                        [status |-> agents[a].status, track |-> agents[a].track,
                         positionsOpened |-> Cardinality(PositionsOf(a)),
                         positionsClosed |-> Cardinality(PositionsOf(a) \ OpenOf(a)),
                         openPositionCount |-> Cardinality(OpenOf(a))]
  BY DEF AgentsMatch
<1>1. Row("status", a) = {agents[a].status} /\ Row("track", a) = {agents[a].track}
  <2>1. \A f \in {"status", "track"} : f \in Fields /\ a \in Keys(f)
    BY DEF Fields, AgentFields, Keys
  <2>2. \A f \in {"status", "track"} : Row(f, a) = {Chain(f, a)}
    BY <2>1, NothingPending
  <2>3. Chain("status", a) = agents[a].status
    BY DEF Chain
  <2>4. Chain("track", a) = agents[a].track
    BY DEF Chain
  <2> QED
    BY <2>2, <2>3, <2>4
<1>2. a \in DOMAIN agentRows
  BY <1>1 DEF Row
<1>3. agentRows[a].status = agents[a].status /\ agentRows[a].track = agents[a].track
  BY <1>1, <1>2 DEF Row
<1>4. IndexedOf(a) = PositionsOf(a)
  <2>1. DOMAIN positionRows \subseteq PositionIds
    BY DEF SubgraphInv, Openings
  <2>2. \A id \in PositionIds : /\ id \in DOMAIN positionRows
                                /\ positionRows[id].agent = positions[id].agent
    BY PositionsSettled
  <2> QED
    BY <2>1, <2>2 DEF IndexedOf, PositionsOf
<1>5. IndexedOf(a) \ ClosedRows = OpenOf(a) /\ IndexedOf(a) \cap ClosedRows = PositionsOf(a) \ OpenOf(a)
  <2>1. \A id \in PositionIds : /\ id \in DOMAIN positionRows
                                /\ <<id, "PositionClosed">> \in activities <=>
                                      positions[id].status = "Closed"
    BY PositionsSettled
  <2>2. \A id \in PositionIds : positions[id].status = "Closed" <=> positions[id].status # "Open"
    <3>1. \A id \in PositionIds : positions[id] \in PositionState
      BY PositionsSettled
    <3> QED
      BY <3>1 DEF PositionState
  <2>3. \A id \in PositionsOf(a) : id \in PositionIds
    BY DEF PositionsOf
  <2>4. \A id \in PositionsOf(a) : id \in ClosedRows <=> id \notin OpenOf(a)
    BY <2>1, <2>2, <2>3 DEF ClosedRows, OpenOf
  <2>5. OpenOf(a) \subseteq PositionsOf(a)
    BY DEF OpenOf
  <2> QED
    BY <1>4, <2>4, <2>5
<1>6. a \in Nat
  BY DEF AgentIds
<1>7. loadOrCreateAgent(a) = agentRows[a]
  BY <1>2 DEF loadOrCreateAgent, Loaded
<1>8. Counts(agentRows[a], a)
  BY <1>6, <1>7 DEF SubgraphInv, Counters
<1>9. /\ agentRows[a].positionsOpened = Cardinality(PositionsOf(a))
      /\ agentRows[a].positionsClosed = Cardinality(PositionsOf(a) \ OpenOf(a))
      /\ agentRows[a].openPositionCount = Cardinality(OpenOf(a))
  BY <1>4, <1>5, <1>8 DEF Counts
<1>10. agentRows[a] \in AgentRow
  BY <1>2 DEF SubgraphInv, RowsInv
<1>11. agentRows[a] =
          [status |-> agentRows[a].status, track |-> agentRows[a].track,
           positionsOpened |-> agentRows[a].positionsOpened,
           positionsClosed |-> agentRows[a].positionsClosed,
           openPositionCount |-> agentRows[a].openPositionCount]
  BY <1>10 DEF AgentRow
<1> QED
  BY <1>2, <1>3, <1>9, <1>11

\* With every block that is indexed the entities say what the contracts say, whatever mix
\* of transactions it holds and however many agents, positions and rules there are.
THEOREM EntitiesCorrect == SubgraphSpec => []EntitiesMatchChain
<1>1. SubgraphInv => EntitiesMatchChain
  <2> SUFFICES ASSUME SubgraphInv, cursor = Len(log)
               PROVE  AgentsMatch /\ AllocationsMatch /\ PositionsMatch /\ TimelineMatches
    BY DEF EntitiesMatchChain
  <2>1. TimelineMatches
    BY PositionsSettled DEF TimelineMatches
  <2> QED
    BY <2>1, AgentsRight, AllocationsRight, PositionsRight
<1> QED
  BY <1>1, SubgraphInvariant, PTL

\* The last equity snapshot of an agent in a block splits its equity as the contracts do at
\* the end of that block, whatever the caps, the prices and the positions.
THEOREM SnapshotsCorrect == SubgraphSpec => []SnapshotsSplitEquity
<1>1. SubgraphInv => SnapshotsSplitEquity
  <2> SUFFICES ASSUME SubgraphInv, cursor = Len(log), NEW a \in DOMAIN snapshots
               PROVE  snapshots[a] = [cap |-> allocations[a].cap, equity |-> currentEquity(a),
                                      unrealized |-> unrealizedPnl(a)]
    BY DEF SnapshotsSplitEquity
  <2>1. Pending = {}
    BY NothingPending
  <2>2. a \in AgentIds
    BY DEF SubgraphInv, SnapshotsInv
  <2>3. snapshots[a] = [cap |-> allocations[a].cap, equity |-> currentEquity(a),
                        unrealized |-> currentEquity(a) - allocations[a].cap
                                         - lifetimeRealizedPnl(a)]
    BY <2>1 DEF SubgraphInv, SnapshotsInv
  <2>4. allocations[a].cap \in Int
    <3>1. allocations[a] \in AllocationState
      BY <2>2 DEF SubgraphInv, ChainInv, AgentIds
    <3> QED
      BY <3>1 DEF AllocationState
  <2>5. lifetimeRealizedPnl(a) \in Int /\ unrealizedPnl(a) \in Int
    <3>1. /\ IsFiniteSet(PositionIds) /\ OpenOf(a) \subseteq PositionsOf(a)
          /\ PositionsOf(a) \subseteq PositionIds
      <4>1. Len(positions) \in Int
        BY DEF SubgraphInv, ChainInv
      <4>2. IsFiniteSet(1..Len(positions))
        BY <4>1, FS_Interval
      <4> QED
        BY <4>2 DEF PositionIds, PositionsOf, OpenOf
    <3>2. IsFiniteSet(PositionsOf(a)) /\ IsFiniteSet(OpenOf(a))
      BY <3>1, FS_Subset
    <3>3. \A id \in PositionIds : positions[id].pnl \in Int /\ positions[id].tokens \in Int
      BY PositionsSettled DEF PositionState
    <3>4. [id \in PositionIds |-> positions[id].pnl] \in [PositionIds -> Int]
      BY <3>3
    <3>5. \A id \in PositionIds : positions[id].tokens * (price - 1) \in Int
      <4>1. price \in Int
        BY DEF SubgraphInv, ChainInv
      <4> QED
        BY <3>3, <4>1
    <3> DEFINE value == [id \in PositionIds |-> positions[id].tokens * (price - 1)]
    <3>6. value \in [PositionIds -> Int]
      BY <3>5
    <3>7. SumFunctionOnSet([id \in PositionIds |-> positions[id].pnl], PositionsOf(a)) \in Int
      BY <3>1, <3>2, <3>4, SumType
    <3>8. SumFunctionOnSet(value, OpenOf(a)) \in Int
      BY <3>1, <3>2, <3>6, SumType
    <3> QED
      BY <3>7, <3>8 DEF lifetimeRealizedPnl, unrealizedPnl
  <2>6. currentEquity(a) - allocations[a].cap - lifetimeRealizedPnl(a) = unrealizedPnl(a)
    BY <2>4, <2>5 DEF currentEquity
  <2> QED
    BY <2>3, <2>6
<1> QED
  BY <1>1, SubgraphInvariant, PTL
=============================================================================
