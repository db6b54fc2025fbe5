------------------------- MODULE TradeRouterProofs -------------------------
(***************************************************************************)
(* For every set of agents, vaults, tokens, prices, policies and ladders,  *)
(* and for any environment: the trades of the router keep the books of the *)
(* contracts it drives in step.  A trade is one call of the position       *)
(* manager, one write of an allocation and one settlement with the vault;  *)
(* the lemmas of PositionManagerProofs and AgentRegistryProofs are cited   *)
(* for the first two, and the sums over positions move by what the call    *)
(* writes (OpenMoves, RewriteMoves).                                       *)
(***************************************************************************)
EXTENDS TradeRouter, PositionManagerProofs, AgentRegistryProofs

-----------------------------------------------------------------------------
(* Sums over positions. *)

\* The position ids are finitely many, and the fields that are added up integers.
LEMMA PositionFacts ==
    ASSUME positions \in Seq(Position)
    PROVE  /\ IsFiniteSet(PositionIds)
           /\ \A id \in PositionIds :
                /\ positions[id] \in Position
                /\ positions[id].usdcCostBasis \in Nat /\ positions[id].tokenAmount \in Nat
                /\ positions[id].realizedPnlUsdc \in Int
                /\ positions[id].agentId \in AgentIds /\ positions[id].vault \in Vaults
                /\ positions[id].token \in Tokens
<1>1. PositionIds = 1 .. Len(positions) /\ Len(positions) \in Nat
  BY DEF PositionIds
<1>2. IsFiniteSet(PositionIds)
  BY <1>1, FS_Interval
<1>3. \A id \in PositionIds : positions[id] \in Position
  BY DEF PositionIds
<1> QED
  BY <1>2, <1>3 DEF Position

LEMMA GroupsFinite ==
    ASSUME positions \in Seq(Position), NEW S, S \subseteq PositionIds
    PROVE  IsFiniteSet(S)
  BY PositionFacts, FS_Subset

\* The sums are integers.
LEMMA SumTypes ==
    ASSUME positions \in Seq(Position)
    PROVE  /\ \A a : Deployed(a) \in Nat /\ Realized(a) \in Int
           /\ \A v : Outlay(v) \in Int
           /\ \A v, t : Held(v, t) \in Nat
<1> DEFINE cost == [id \in PositionIds |-> positions[id].usdcCostBasis]
           amount == [id \in PositionIds |-> positions[id].tokenAmount]
           pnl == [id \in PositionIds |-> positions[id].realizedPnlUsdc]
           out == [id \in PositionIds |->
                     positions[id].usdcCostBasis - positions[id].realizedPnlUsdc]
<1>1. \A id \in PositionIds : /\ cost[id] \in Nat /\ amount[id] \in Nat
                              /\ pnl[id] \in Int /\ out[id] \in Int
  BY PositionFacts
<1> HIDE DEF cost, amount, pnl, out
<1>2. ASSUME NEW a PROVE Deployed(a) \in Nat /\ Realized(a) \in Int
  <2> DEFINE S == {id \in PositionIds : positions[id].agentId = a}
  <2>1. S \subseteq PositionIds
    OBVIOUS
  <2>2. IsFiniteSet(S)
    BY <2>1, GroupsFinite
  <2> HIDE DEF S
  <2>3. SumFunctionOnSet(cost, S) \in Nat /\ SumFunctionOnSet(pnl, S) \in Int
    BY <1>1, <2>1, <2>2, SumNat, SumType
  <2> QED
    BY <2>3 DEF Deployed, Realized, S, cost, pnl
<1>3. ASSUME NEW v PROVE Outlay(v) \in Int
  <2> DEFINE S == {id \in PositionIds : positions[id].vault = v}
  <2>1. S \subseteq PositionIds
    OBVIOUS
  <2>2. IsFiniteSet(S)
    BY <2>1, GroupsFinite
  <2> HIDE DEF S
  <2>3. SumFunctionOnSet(out, S) \in Int
    BY <1>1, <2>1, <2>2, SumType
  <2> QED
    BY <2>3 DEF Outlay, S, out
<1>4. ASSUME NEW v, NEW t PROVE Held(v, t) \in Nat
  <2> DEFINE S == {id \in PositionIds : positions[id].vault = v /\ positions[id].token = t}
  <2>1. S \subseteq PositionIds
    OBVIOUS
  <2>2. IsFiniteSet(S)
    BY <2>1, GroupsFinite
  <2> HIDE DEF S
  <2>3. SumFunctionOnSet(amount, S) \in Nat
    BY <1>1, <2>1, <2>2, SumNat
  <2> QED
    BY <2>3 DEF Held, S, amount
<1> QED
  BY <1>2, <1>3, <1>4

\* A new position adds its fields to the sums of its agent, vault and token.
LEMMA OpenMoves ==
    ASSUME positions \in Seq(Position), NEW p \in Position, positions' = Append(positions, p)
    PROVE  /\ \A a : /\ Deployed(a)' = Deployed(a) + (IF p.agentId = a THEN p.usdcCostBasis ELSE 0)
                     /\ Realized(a)' = Realized(a) +
                          (IF p.agentId = a THEN p.realizedPnlUsdc ELSE 0)
           /\ \A v : Outlay(v)' = Outlay(v) +
                       (IF p.vault = v THEN p.usdcCostBasis - p.realizedPnlUsdc ELSE 0)
           /\ \A v, t : Held(v, t)' = Held(v, t) +
                          (IF p.vault = v /\ p.token = t THEN p.tokenAmount ELSE 0)
<1> DEFINE n == Len(positions) + 1
<1>1. /\ n \notin PositionIds /\ PositionIds' = PositionIds \cup {n}
      /\ positions'[n] = p
      /\ \A id \in PositionIds : positions'[id] = positions[id]
  BY AppendFacts DEF PositionIds
<1>2. p.usdcCostBasis \in Nat /\ p.tokenAmount \in Nat /\ p.realizedPnlUsdc \in Int
  BY DEF Position
<1> HIDE DEF n
<1>3. ASSUME NEW a
      PROVE  /\ Deployed(a)' = Deployed(a) + (IF p.agentId = a THEN p.usdcCostBasis ELSE 0)
             /\ Realized(a)' = Realized(a) + (IF p.agentId = a THEN p.realizedPnlUsdc ELSE 0)
  <2> DEFINE P == {id \in PositionIds : positions[id].agentId = a}
             Q == {id \in PositionIds' : positions'[id].agentId = a}
             f == [id \in PositionIds |-> positions[id].usdcCostBasis]
             g == [id \in PositionIds' |-> positions'[id].usdcCostBasis]
             h == [id \in PositionIds |-> positions[id].realizedPnlUsdc]
             k == [id \in PositionIds' |-> positions'[id].realizedPnlUsdc]
  <2>1. P \subseteq PositionIds /\ n \notin P /\ Q \ {n} = P /\ (n \in Q <=> p.agentId = a)
    BY <1>1
  <2>a. IsFiniteSet(P)
    BY <2>1, GroupsFinite
  <2>c. \A id \in PositionIds : f[id] \in Int /\ h[id] \in Int
    BY PositionFacts
  <2>d. \A id \in PositionIds : g[id] = f[id] /\ k[id] = h[id]
    BY <1>1
  <2>2. \A id \in PositionIds : /\ f[id] \in Int /\ g[id] = f[id]
                                /\ h[id] \in Int /\ k[id] = h[id]
    BY <2>c, <2>d
  <2>3. g[n] = p.usdcCostBasis /\ k[n] = p.realizedPnlUsdc
    BY <1>1
  <2>4. /\ Deployed(a) = SumFunctionOnSet(f, P) /\ Deployed(a)' = SumFunctionOnSet(g, Q)
        /\ Realized(a) = SumFunctionOnSet(h, P) /\ Realized(a)' = SumFunctionOnSet(k, Q)
    BY DEF Deployed, Realized
  <2> HIDE DEF P, Q, f, g, h, k
  <2>5. SumFunctionOnSet(g, Q) = SumFunctionOnSet(f, P) + (IF n \in Q THEN g[n] ELSE 0)
    BY <1>2, <2>1, <2>2, <2>3, <2>a, GroupAdd
  <2>6. SumFunctionOnSet(k, Q) = SumFunctionOnSet(h, P) + (IF n \in Q THEN k[n] ELSE 0)
    BY <1>2, <2>1, <2>2, <2>3, <2>a, GroupAdd
  <2> QED
    BY <2>1, <2>3, <2>4, <2>5, <2>6
<1>4. ASSUME NEW v
      PROVE  Outlay(v)' = Outlay(v) +
               (IF p.vault = v THEN p.usdcCostBasis - p.realizedPnlUsdc ELSE 0)
  <2> DEFINE P == {id \in PositionIds : positions[id].vault = v}
             Q == {id \in PositionIds' : positions'[id].vault = v}
             f == [id \in PositionIds |->
                     positions[id].usdcCostBasis - positions[id].realizedPnlUsdc]
             g == [id \in PositionIds' |->
                     positions'[id].usdcCostBasis - positions'[id].realizedPnlUsdc]
  <2>1. P \subseteq PositionIds /\ n \notin P /\ Q \ {n} = P /\ (n \in Q <=> p.vault = v)
    BY <1>1
  <2>a. IsFiniteSet(P)
    BY <2>1, GroupsFinite
  <2>c. \A id \in PositionIds : f[id] \in Int
    BY PositionFacts
  <2>d. \A id \in PositionIds : g[id] = f[id]
    BY <1>1
  <2>2. \A id \in PositionIds : f[id] \in Int /\ g[id] = f[id]
    BY <2>c, <2>d
  <2>e. g[n] = p.usdcCostBasis - p.realizedPnlUsdc
    BY <1>1
  <2>4. Outlay(v) = SumFunctionOnSet(f, P) /\ Outlay(v)' = SumFunctionOnSet(g, Q)
    BY DEF Outlay
  <2> HIDE DEF P, Q, f, g
  <2>3. g[n] = p.usdcCostBasis - p.realizedPnlUsdc /\ g[n] \in Int
    BY <1>2, <2>e
  <2>5. SumFunctionOnSet(g, Q) = SumFunctionOnSet(f, P) + (IF n \in Q THEN g[n] ELSE 0)
    BY <2>1, <2>2, <2>3, <2>a, GroupAdd
  <2> QED
    BY <2>1, <2>3, <2>4, <2>5
<1>5. ASSUME NEW v, NEW t
      PROVE  Held(v, t)' = Held(v, t) + (IF p.vault = v /\ p.token = t THEN p.tokenAmount ELSE 0)
  <2> DEFINE P == {id \in PositionIds : positions[id].vault = v /\ positions[id].token = t}
             Q == {id \in PositionIds' : positions'[id].vault = v /\ positions'[id].token = t}
             f == [id \in PositionIds |-> positions[id].tokenAmount]
             g == [id \in PositionIds' |-> positions'[id].tokenAmount]
  <2>1. P \subseteq PositionIds /\ n \notin P
    BY <1>1
  <2>b. Q \ {n} = P /\ (n \in Q <=> p.vault = v /\ p.token = t)
    BY <1>1
  <2>a. IsFiniteSet(P)
    BY <2>1, GroupsFinite
  <2>c. \A id \in PositionIds : f[id] \in Int
    BY PositionFacts
  <2>d. \A id \in PositionIds : g[id] = f[id]
    BY <1>1
  <2>2. \A id \in PositionIds : f[id] \in Int /\ g[id] = f[id]
    BY <2>c, <2>d
  <2>3. g[n] = p.tokenAmount
    BY <1>1
  <2>4. Held(v, t) = SumFunctionOnSet(f, P) /\ Held(v, t)' = SumFunctionOnSet(g, Q)
    BY DEF Held
  <2> HIDE DEF P, Q, f, g
  <2>5. SumFunctionOnSet(g, Q) = SumFunctionOnSet(f, P) + (IF n \in Q THEN g[n] ELSE 0)
    BY <1>2, <2>1, <2>2, <2>3, <2>a, <2>b, GroupAdd
  <2> QED
    BY <2>b, <2>3, <2>4, <2>5
<1> QED
  BY <1>3, <1>4, <1>5

\* A position rewritten for the same agent, vault and token moves their sums by the
\* difference of its fields.
LEMMA RewriteMoves ==
    ASSUME positions \in Seq(Position), NEW i \in PositionIds, NEW q \in Position,
           positions' = [positions EXCEPT ![i] = q],
           q.agentId = positions[i].agentId, q.vault = positions[i].vault,
           q.token = positions[i].token
    PROVE  /\ \A a :
                /\ Deployed(a)' = Deployed(a) +
                     (IF q.agentId = a THEN q.usdcCostBasis - positions[i].usdcCostBasis ELSE 0)
                /\ Realized(a)' = Realized(a) +
                     (IF q.agentId = a THEN q.realizedPnlUsdc - positions[i].realizedPnlUsdc
                                       ELSE 0)
           /\ \A v : Outlay(v)' = Outlay(v) +
                (IF q.vault = v
                 THEN (q.usdcCostBasis - q.realizedPnlUsdc)
                        - (positions[i].usdcCostBasis - positions[i].realizedPnlUsdc)
                 ELSE 0)
           /\ \A v, t : Held(v, t)' = Held(v, t) +
                (IF q.vault = v /\ q.token = t
                 THEN q.tokenAmount - positions[i].tokenAmount ELSE 0)
<1>1. /\ PositionIds' = PositionIds /\ positions'[i] = q
      /\ \A id \in PositionIds : id # i => positions'[id] = positions[id]
      /\ \A id \in PositionIds : /\ positions'[id].agentId = positions[id].agentId
                                 /\ positions'[id].vault = positions[id].vault
                                 /\ positions'[id].token = positions[id].token
  BY ExceptFacts DEF PositionIds
<1>2. q.usdcCostBasis \in Nat /\ q.tokenAmount \in Nat /\ q.realizedPnlUsdc \in Int
  BY DEF Position
<1>3. ASSUME NEW a
      PROVE  /\ Deployed(a)' = Deployed(a) +
                  (IF q.agentId = a THEN q.usdcCostBasis - positions[i].usdcCostBasis ELSE 0)
             /\ Realized(a)' = Realized(a) +
                  (IF q.agentId = a THEN q.realizedPnlUsdc - positions[i].realizedPnlUsdc ELSE 0)
  <2> DEFINE P == {id \in PositionIds : positions[id].agentId = a}
             Q == {id \in PositionIds' : positions'[id].agentId = a}
             f == [id \in PositionIds |-> positions[id].usdcCostBasis]
             g == [id \in PositionIds' |-> positions'[id].usdcCostBasis]
             h == [id \in PositionIds |-> positions[id].realizedPnlUsdc]
             k == [id \in PositionIds' |-> positions'[id].realizedPnlUsdc]
  <2>1. P \subseteq PositionIds /\ Q = P /\ (i \in P <=> q.agentId = a)
    BY <1>1
  <2>a. IsFiniteSet(P)
    BY <2>1, GroupsFinite
  <2>2. \A id \in PositionIds : /\ f[id] \in Int /\ g[id] \in Int /\ (id # i => g[id] = f[id])
                                /\ h[id] \in Int /\ k[id] \in Int /\ (id # i => k[id] = h[id])
    BY <1>1, <1>2, PositionFacts
  <2>3. /\ f[i] = positions[i].usdcCostBasis /\ g[i] = q.usdcCostBasis
        /\ h[i] = positions[i].realizedPnlUsdc /\ k[i] = q.realizedPnlUsdc
    BY <1>1
  <2>4. /\ Deployed(a) = SumFunctionOnSet(f, P) /\ Deployed(a)' = SumFunctionOnSet(g, Q)
        /\ Realized(a) = SumFunctionOnSet(h, P) /\ Realized(a)' = SumFunctionOnSet(k, Q)
    BY DEF Deployed, Realized
  <2> HIDE DEF P, Q, f, g, h, k
  <2>5. SumFunctionOnSet(g, P) = SumFunctionOnSet(f, P) + (IF i \in P THEN g[i] - f[i] ELSE 0)
    BY <2>1, <2>2, <2>a, GroupChange
  <2>6. SumFunctionOnSet(k, P) = SumFunctionOnSet(h, P) + (IF i \in P THEN k[i] - h[i] ELSE 0)
    BY <2>1, <2>2, <2>a, GroupChange
  <2> QED
    BY <2>1, <2>3, <2>4, <2>5, <2>6
<1>4. ASSUME NEW v
      PROVE  Outlay(v)' = Outlay(v) +
               (IF q.vault = v
                THEN (q.usdcCostBasis - q.realizedPnlUsdc)
                       - (positions[i].usdcCostBasis - positions[i].realizedPnlUsdc)
                ELSE 0)
  <2> DEFINE P == {id \in PositionIds : positions[id].vault = v}
             Q == {id \in PositionIds' : positions'[id].vault = v}
             f == [id \in PositionIds |->
                     positions[id].usdcCostBasis - positions[id].realizedPnlUsdc]
             g == [id \in PositionIds' |->
                     positions'[id].usdcCostBasis - positions'[id].realizedPnlUsdc]
  <2>1. P \subseteq PositionIds /\ Q = P /\ (i \in P <=> q.vault = v)
    BY <1>1
  <2>a. IsFiniteSet(P)
    BY <2>1, GroupsFinite
  <2>2. /\ f[i] = positions[i].usdcCostBasis - positions[i].realizedPnlUsdc
        /\ g[i] = q.usdcCostBasis - q.realizedPnlUsdc /\ g[i] \in Int
    BY <1>1, <1>2
  <2>3. \A id \in PositionIds : f[id] \in Int /\ (id # i => g[id] = f[id])
    BY <1>1, PositionFacts
  <2>4. Outlay(v) = SumFunctionOnSet(f, P) /\ Outlay(v)' = SumFunctionOnSet(g, Q)
    BY DEF Outlay
  <2> HIDE DEF P, Q, f, g
  <2>5. \A id \in P : f[id] \in Int /\ g[id] \in Int /\ (id # i => g[id] = f[id])
    BY <2>1, <2>2, <2>3
  <2>6. SumFunctionOnSet(g, P) = SumFunctionOnSet(f, P) + (IF i \in P THEN g[i] - f[i] ELSE 0)
    BY <2>1, <2>5, <2>a, GroupChange
  <2> QED
    BY <2>1, <2>2, <2>4, <2>6
<1>5. ASSUME NEW v, NEW t
      PROVE  Held(v, t)' = Held(v, t) +
               (IF q.vault = v /\ q.token = t THEN q.tokenAmount - positions[i].tokenAmount ELSE 0)
  <2> DEFINE P == {id \in PositionIds : positions[id].vault = v /\ positions[id].token = t}
             Q == {id \in PositionIds' : positions'[id].vault = v /\ positions'[id].token = t}
             f == [id \in PositionIds |-> positions[id].tokenAmount]
             g == [id \in PositionIds' |-> positions'[id].tokenAmount]
  <2>1. P \subseteq PositionIds /\ Q = P /\ (i \in P <=> q.vault = v /\ q.token = t)
    BY <1>1
  <2>a. IsFiniteSet(P)
    BY <2>1, GroupsFinite
  <2>2. f[i] = positions[i].tokenAmount /\ g[i] = q.tokenAmount
    BY <1>1
  <2>3. \A id \in PositionIds : f[id] \in Int /\ g[id] \in Int /\ (id # i => g[id] = f[id])
    BY <1>1, <1>2, PositionFacts
  <2>4. Held(v, t) = SumFunctionOnSet(f, P) /\ Held(v, t)' = SumFunctionOnSet(g, Q)
    BY DEF Held
  <2> HIDE DEF P, Q, f, g
  <2>5. SumFunctionOnSet(g, P) = SumFunctionOnSet(f, P) + (IF i \in P THEN g[i] - f[i] ELSE 0)
    BY <2>1, <2>3, <2>a, GroupChange
  <2> QED
    BY <2>1, <2>2, <2>4, <2>5
<1> QED
  BY <1>3, <1>4, <1>5

-----------------------------------------------------------------------------
(* The parts of the storage that a sum ranges over. *)

\* How many positions an agent has had.
Opened(a) == Cardinality({id \in PositionIds : positions[id].agentId = a})

LEMMA OpenedType ==
    ASSUME positions \in Seq(Position), NEW a
    PROVE  Opened(a) \in Nat
  BY GroupsFinite, FS_CardinalityType DEF Opened

LEMMA OpenedMoves ==
    ASSUME positions \in Seq(Position), NEW p \in Position,
           positions' = Append(positions, p), NEW a
    PROVE  Opened(a)' = Opened(a) + (IF p.agentId = a THEN 1 ELSE 0)
<1> DEFINE n == Len(positions) + 1
           P == {id \in PositionIds : positions[id].agentId = a}
           Q == {id \in PositionIds' : positions'[id].agentId = a}
<1>1. /\ n \notin PositionIds /\ PositionIds' = PositionIds \cup {n}
      /\ positions'[n] = p
      /\ \A id \in PositionIds : positions'[id] = positions[id]
  BY AppendFacts DEF PositionIds
<1> HIDE DEF n
<1>2. P \subseteq PositionIds /\ n \notin P /\ Q = IF p.agentId = a THEN P \cup {n} ELSE P
  BY <1>1
<1>3. Opened(a) = Cardinality(P) /\ Opened(a)' = Cardinality(Q)
  BY DEF Opened
<1> HIDE DEF P, Q
<1>4. IsFiniteSet(P)
  BY <1>2, GroupsFinite
<1>5. Cardinality(P \cup {n}) = Cardinality(P) + 1 /\ Cardinality(P) \in Nat
  BY <1>2, <1>4, FS_AddElement, FS_CardinalityType
<1> QED
  BY <1>2, <1>3, <1>5

LEMMA OpenedStays ==
    ASSUME positions \in Seq(Position), NEW i \in PositionIds, NEW q \in Position,
           positions' = [positions EXCEPT ![i] = q],
           q.agentId = positions[i].agentId, NEW a
    PROVE  Opened(a)' = Opened(a)
<1>1. /\ PositionIds' = PositionIds
      /\ \A id \in PositionIds : positions'[id].agentId = positions[id].agentId
  BY ExceptFacts DEF PositionIds
<1>2. {id \in PositionIds' : positions'[id].agentId = a} =
        {id \in PositionIds : positions[id].agentId = a}
  BY <1>1
<1> QED
  BY <1>2 DEF Opened

\* Nothing that is summed or counted moves when the positions stay.
LEMMA SumsStay ==
    ASSUME UNCHANGED positions
    PROVE  /\ \A a : /\ Deployed(a)' = Deployed(a) /\ Realized(a)' = Realized(a)
                     /\ Opened(a)' = Opened(a)
           /\ \A v : Outlay(v)' = Outlay(v)
           /\ \A v, t : Held(v, t)' = Held(v, t)
<1>1. PositionIds' = PositionIds /\ positions' = positions
  BY DEF PositionIds
<1> QED
  BY <1>1 DEF Deployed, Realized, Opened, Outlay, Held

-----------------------------------------------------------------------------
(* Arithmetic of the router. *)

LEMMA MulDivNat ==
    ASSUME NEW x \in Nat, NEW y \in Nat, NEW z \in Nat, z > 0
    PROVE  MulDiv(x, y, z) \in Nat /\ (x = 0 => MulDiv(x, y, z) = 0)
<1> DEFINE w == x * y
<1>1. w \in Nat /\ (x = 0 => w = 0)
  OBVIOUS
<1> HIDE DEF w
<1>2. w \div z \in Nat /\ (w = 0 => w \div z = 0)
  BY <1>1
<1> QED
  BY <1>1, <1>2 DEF MulDiv, w

\* A share of at most the whole is at most the whole, and all of it only for the whole.
LEMMA ShareFacts ==
    ASSUME NEW whole \in Nat, NEW part \in Nat, NEW parts \in Nat, parts > 0, part <= parts
    PROVE  /\ MulDiv(whole, part, parts) \in Nat /\ MulDiv(whole, part, parts) <= whole
           /\ part = parts => MulDiv(whole, part, parts) = whole
           /\ whole > 0 /\ part # parts => MulDiv(whole, part, parts) < whole
<1> DEFINE w == whole * part
           m == whole * parts
           q == w \div parts
<1>1. /\ w \in Nat /\ m \in Nat /\ w <= m /\ (part = parts => w = m)
      /\ (whole > 0 /\ part # parts => w < m)
  <2>1. w \in Nat /\ m \in Nat /\ m - w = whole * (parts - part)
    OBVIOUS
  <2>2. /\ whole * (parts - part) >= 0
        /\ part = parts => whole * (parts - part) = 0
        /\ whole > 0 /\ part # parts => whole * (parts - part) > 0
    OBVIOUS
  <2> HIDE DEF w, m
  <2> QED
    BY <2>1, <2>2
<1>2. q \in Nat /\ parts * q <= w /\ w < parts * q + parts
  <2> HIDE DEF w
  <2> QED
    BY <1>1
<1>3. m = parts * whole /\ parts * (whole - q) = m - parts * q
  BY <1>2
<1>4. /\ parts * (whole - q) >= 0 /\ (part = parts => parts * (whole - q) < parts)
      /\ (whole > 0 /\ part # parts => parts * (whole - q) > 0)
  <2> HIDE DEF w, m, q
  <2> QED
    BY <1>1, <1>2, <1>3
<1>5. /\ whole - q >= 0 /\ (part = parts => whole - q < 1)
      /\ (whole > 0 /\ part # parts => whole - q > 0)
  <2> HIDE DEF q
  <2> QED
    BY <1>2, <1>4
<1> HIDE DEF q
<1>6. q = MulDiv(whole, part, parts)
  BY DEF MulDiv, q
<1> QED
  BY <1>2, <1>5, <1>6

LEMMA MaxFacts ==
    ASSUME NEW x \in Int, NEW y \in Int
    PROVE  /\ Max({x, y}) \in Int /\ Max({x, y}) >= x /\ Max({x, y}) >= y
           /\ Max({x, y}) \in {x, y}
<1>1. \E m \in {x, y} : \A k \in {x, y} : m >= k
  <2>1. CASE x >= y
    BY <2>1
  <2>2. CASE y >= x
    BY <2>2
  <2> QED
    BY <2>1, <2>2
<1>2. Max({x, y}) \in {x, y} /\ \A k \in {x, y} : Max({x, y}) >= k
  BY <1>1 DEF Max
<1> QED
  BY <1>2

-----------------------------------------------------------------------------
(* The inductive invariant. *)

TokenTypeOK ==
    /\ tokenStatus \in [Tokens -> {"Unlisted", "Active", "Inactive"}]
    /\ price \in [Tokens -> Prices] /\ fresh \in [Tokens -> BOOLEAN]

VaultTypeOK ==
    /\ idleAssets \in [Vaults -> Nat] /\ lpUsdc \in [Vaults -> Int]
    /\ tokenBalance \in [Vaults -> [Tokens -> Nat]]
    /\ mandateToken \in [Vaults -> [Tokens -> {"Unlisted", "Enabled", "Disabled"}]]
    /\ tradingPaused \in [Vaults -> BOOLEAN]

AccountTypeOK ==
    /\ nonces \in [AgentIds -> Nat] /\ dailyTurnover \in [AgentIds -> Nat]
    /\ dailyPnl \in [AgentIds -> Int] /\ lifetimePnl \in [AgentIds -> Int]
    /\ keeperBounty \in (0 .. MAX_BPS) \X Nat /\ keeperUsdc \in [Vaults -> Nat]

LensTypeOK ==
    /\ tradeCount \in [AgentIds -> Nat] /\ lifetimeTurnover \in [AgentIds -> Nat]
    /\ positionsOpened \in [AgentIds -> Nat] /\ positionsClosed \in [AgentIds -> Nat]
    /\ peakEquity \in [AgentIds -> Nat]

\* What this contract writes itself, or has written by vault, lens and oracle.
MarketTypeOK == TokenTypeOK /\ VaultTypeOK /\ AccountTypeOK /\ LensTypeOK

\* The books of the other contracts against the positions.
Books == InventoryBacksPositions /\ CashConserved /\ PnlIsSum /\ LensCountsOpen

RouterInv == /\ PMInv /\ RegistryInv
             /\ RegisteredIds = AgentIds
             /\ MarketTypeOK
             /\ Books

LEMMA RouterTypes == RouterInv => RouterTypeOK
  BY DEF RouterInv, PMInv, RegistryInv, AgentInv, AgentTypeOK, FeeTypeOK, AllocationInv,
         MarketTypeOK, TokenTypeOK, VaultTypeOK, AccountTypeOK, LensTypeOK,
         RouterTypeOK, RegistryTypeOK

\* The types at the records a trade touches.
LEMMA AgentFacts ==
    ASSUME RouterInv, NEW a \in AgentIds
    PROVE  /\ a \in RegisteredIds /\ a \in DOMAIN allocations
           /\ agents[a] \in Agent /\ vaultOf(a) \in Vaults
           /\ allocations[a] \in Allocation
           /\ allocations[a].used \in Nat /\ allocations[a].cap \in Nat
           /\ allocations[a].vault = agents[a].vault
<1>1. a \in RegisteredIds /\ RegistryInv
  BY DEF RouterInv
<1>2. /\ agents \in Seq(Agent) /\ DOMAIN allocations = RegisteredIds
      /\ allocations \in [DOMAIN allocations -> Allocation]
      /\ allocations[a].vault = agents[a].vault
  BY <1>1 DEF RegistryInv, AgentInv, AgentTypeOK, AllocationInv, AllocationTypeOK,
              AllocationTracksAgent
<1>3. agents[a] \in Agent /\ allocations[a] \in Allocation
  BY <1>1, <1>2 DEF RegisteredIds
<1> QED
  BY <1>1, <1>2, <1>3 DEF Agent, Allocation, vaultOf

LEMMA LedgerFacts ==
    ASSUME RouterInv, NEW id \in PositionIds
    PROVE  /\ positions \in Seq(Position) /\ positions[id] \in Position
           /\ positions[id].agentId \in AgentIds /\ positions[id].vault \in Vaults
           /\ positions[id].token \in Tokens
           /\ positions[id].tokenAmount \in Nat /\ positions[id].usdcCostBasis \in Nat
           /\ positions[id].realizedPnlUsdc \in Int
           /\ positions[id].nextRuleIndex \in Nat
           /\ IsOpen(id) => positions[id].tokenAmount > 0 /\ positions[id].usdcCostBasis > 0
<1>1. positions \in Seq(Position) /\ OpenIffFunded
  BY DEF RouterInv, PMInv, PMTypeOK
<1>2. positions[id] \in Position
  BY <1>1 DEF PositionIds
<1> QED
  BY <1>1, <1>2 DEF Position, OpenIffFunded

LEMMA PriceFacts ==
    ASSUME TokenTypeOK, NEW t \in Tokens
    PROVE  /\ price[t] \in Nat /\ price[t] > 0
           /\ TokenUnit \in Nat /\ TokenUnit > 0
           /\ \A x \in Nat : /\ valueInAsset(x, t) \in Nat
                             /\ usdcToTokenAmount(x, t) \in Nat
                             /\ usdcToTokenAmount(x, t) > 0 => x > 0
<1>a. price \in [Tokens -> Prices]
  BY DEF TokenTypeOK
<1>b. /\ \A q \in Prices : q \in Nat /\ q # 0
      /\ TokenUnit \in Nat /\ TokenUnit # 0
  BY PricesAssumption
<1>c. price[t] \in Nat /\ price[t] # 0
  BY <1>a, <1>b
<1>d. \A n \in Nat : n # 0 => n > 0
  OBVIOUS
<1>1. price[t] \in Nat /\ price[t] > 0 /\ TokenUnit \in Nat /\ TokenUnit > 0
  BY <1>b, <1>c, <1>d
<1>2. \A x \in Nat : /\ MulDiv(x, price[t], TokenUnit) \in Nat
                     /\ MulDiv(x, TokenUnit, price[t]) \in Nat
                     /\ (x = 0 => MulDiv(x, TokenUnit, price[t]) = 0)
  BY <1>1, MulDivNat
<1> QED
  BY <1>1, <1>2 DEF valueInAsset, usdcToTokenAmount

-----------------------------------------------------------------------------
(* One write of a trade at a time. *)

\* The router's and the operator's writes of used.
LEMMA UsedWriteKeeps ==
    ASSUME RouterInv, NEW a \in AgentIds, NEW used \in Nat, setAllocationUsed(a, used),
           UNCHANGED <<agentVars, feeVars, vaultTrackConfigs>>
    PROVE  /\ RegistryInv' /\ RegisteredIds' = AgentIds
           /\ allocations'[a].used = used /\ allocations'[a].cap = allocations[a].cap
<1> DEFINE al == [allocations[a] EXCEPT !.used = used]
<1>1. /\ al \in Allocation /\ al.vault = allocations[a].vault
      /\ al.trackId = allocations[a].trackId /\ al.used = used /\ al.cap = allocations[a].cap
  BY AgentFacts DEF Allocation
<1>2. allocations' = [allocations EXCEPT ![a] = al] /\ UNCHANGED totalAgentCaps
  BY DEF setAllocationUsed
<1>3. a \in RegisteredIds /\ a \in DOMAIN allocations
  BY AgentFacts
<1>4. RegistryInv
  BY DEF RouterInv
<1> HIDE DEF al
<1>5. RegistryInv'
  BY <1>1, <1>2, <1>3, <1>4, AllocationWriteKeeps
<1>6. RegisteredIds' = AgentIds
  BY DEF agentVars, RegisteredIds, RouterInv
<1> QED
  BY <1>1, <1>2, <1>3, <1>5, <1>6

\* The equity of the lens is an integer, so its peak stays a natural.
LEMMA LensKeeps ==
    ASSUME RouterInv, NEW a \in AgentIds, NEW turnover \in Nat,
           NEW opened \in BOOLEAN, NEW closed \in BOOLEAN,
           PMInv', allocations'[a].cap \in Nat, lifetimePnl'[a] \in Int,
           notifyLens(a, turnover, opened, closed)
    PROVE  /\ LensTypeOK'
           /\ LensSet =>
                /\ tradeCount' = Bump(tradeCount, a, 1)
                /\ positionsOpened' = Bump(positionsOpened, a, IF opened THEN 1 ELSE 0)
                /\ positionsClosed' = Bump(positionsClosed, a, IF closed THEN 1 ELSE 0)
           /\ ~LensSet => UNCHANGED <<tradeCount, positionsOpened, positionsClosed>>
<1>1. LensTypeOK /\ TokenTypeOK
  BY DEF RouterInv, MarketTypeOK
<1>2. CASE ~LensSet
  BY <1>1, <1>2 DEF notifyLens, lensVars, LensTypeOK
<1>3. CASE LensSet
  <2> DEFINE ids == {k \in DOMAIN positions' :
                       positions'[k].agentId = a /\ positions'[k].status = "Open"}
             open == {positions'[id] : id \in ids}
             gains == [p \in open |-> unrealizedPnl(p)]
             total == allocations'[a].cap + lifetimePnl'[a] + SumFunctionOnSet(gains, open)
             now == Max({0, total})
  <2>1. positions' \in Seq(Position)
    BY DEF PMInv, PMTypeOK
  <2>2. open \subseteq Position
    BY <2>1
  <2>3. IsFiniteSet(open)
    <3>a. DOMAIN positions' = 1 .. Len(positions') /\ Len(positions') \in Nat
      BY <2>1
    <3>1. IsFiniteSet(DOMAIN positions')
      BY <3>a, FS_Interval
    <3>2. IsFiniteSet(ids)
      BY <3>1, FS_Subset
    <3>3. [id \in ids |-> positions'[id]] \in Surjection(ids, open)
      BY DEF Surjection
    <3> QED
      BY <3>2, <3>3, FS_Surjection
  <2>4. \A p \in open : gains[p] \in Int
    <3> SUFFICES ASSUME NEW p \in Position PROVE unrealizedPnl(p) \in Int
      BY <2>2
    <3>1. p.token \in Tokens /\ p.tokenAmount \in Nat /\ p.usdcCostBasis \in Nat
      BY DEF Position
    <3>2. valueInAsset(p.tokenAmount, p.token) \in Nat
      BY <1>1, <3>1, PriceFacts
    <3> QED
      BY <3>1, <3>2 DEF unrealizedPnl
  <2>5. /\ onTrade(a, turnover, opened, closed,
                   \A p \in open : canValue(p.tokenAmount, p.token),
                   equity(allocations'[a].cap, lifetimePnl'[a], open))
        /\ equity(allocations'[a].cap, lifetimePnl'[a], open) = now
    BY <1>3 DEF notifyLens, equity, SumFunction
  <2>6. /\ tradeCount' = Bump(tradeCount, a, 1)
        /\ positionsOpened' = Bump(positionsOpened, a, IF opened THEN 1 ELSE 0)
        /\ positionsClosed' = Bump(positionsClosed, a, IF closed THEN 1 ELSE 0)
        /\ lifetimeTurnover' = Bump(lifetimeTurnover, a, turnover)
        /\ peakEquity' = [peakEquity EXCEPT ![a] = Max({@, now})]
    BY <2>5 DEF onTrade
  <2> HIDE DEF open, gains
  <2>7. SumFunctionOnSet(gains, open) \in Int
    BY <2>3, <2>4, SumType
  <2>8. total \in Int
    BY <2>7
  <2> HIDE DEF total
  <2>9. now \in Nat
    BY <2>8, MaxFacts
  <2> HIDE DEF now
  <2>10. peakEquity[a] \in Nat
    BY <1>1 DEF LensTypeOK
  <2>a. \A x, y \in Nat : Max({x, y}) \in Nat
    BY MaxFacts
  <2>11. Max({peakEquity[a], now}) \in Nat
    BY <2>9, <2>10, <2>a
  <2> DEFINE top == Max({peakEquity[a], now})
  <2>12. peakEquity' = [peakEquity EXCEPT ![a] = top] /\ top \in Nat
    BY <2>6, <2>11
  <2> HIDE DEF top
  <2> QED
    BY <1>1, <1>3, <2>6, <2>12 DEF LensTypeOK, Bump
<1> QED
  BY <1>2, <1>3

\* A vault's tokens move with the positions it backs.
LEMMA InventoryMoves ==
    ASSUME RouterInv, NEW v \in Vaults, NEW t \in Tokens, NEW d \in Int,
           tokenBalance' = [tokenBalance EXCEPT ![v][t] = @ + d],
           \A w, s : Held(w, s)' = Held(w, s) + (IF w = v /\ s = t THEN d ELSE 0)
    PROVE  InventoryBacksPositions'
<1>1. tokenBalance \in [Vaults -> [Tokens -> Nat]]
  BY DEF RouterInv, MarketTypeOK, VaultTypeOK
<1> SUFFICES ASSUME NEW w \in Vaults, NEW s \in Tokens
             PROVE  tokenBalance'[w][s] = Held(w, s)'
  BY DEF InventoryBacksPositions
<1>2. tokenBalance[w][s] = Held(w, s) /\ tokenBalance[w][s] \in Nat
  BY <1>1 DEF RouterInv, Books, InventoryBacksPositions
<1>3. tokenBalance'[w][s] = tokenBalance[w][s] + (IF w = v /\ s = t THEN d ELSE 0)
  BY <1>1, <1>2
<1> QED
  BY <1>2, <1>3

\* A vault's cash moves with the cost and the PnL of its positions.
LEMMA CashMoves ==
    ASSUME RouterInv, NEW v \in Vaults, NEW d \in Int, NEW bounty \in Nat,
           NEW o \in Int, d + o + bounty = 0,
           idleAssets' = [idleAssets EXCEPT ![v] = @ + d],
           keeperUsdc' = [keeperUsdc EXCEPT ![v] = @ + bounty],
           UNCHANGED lpUsdc,
           \A w : Outlay(w)' = Outlay(w) + (IF w = v THEN o ELSE 0)
    PROVE  CashConserved'
<1>1. /\ idleAssets \in [Vaults -> Nat] /\ lpUsdc \in [Vaults -> Int]
      /\ keeperUsdc \in [Vaults -> Nat] /\ positions \in Seq(Position)
  BY DEF RouterInv, MarketTypeOK, VaultTypeOK, AccountTypeOK, PMInv, PMTypeOK
<1> SUFFICES ASSUME NEW w \in Vaults
             PROVE  idleAssets'[w] + Outlay(w)' = lpUsdc'[w] - keeperUsdc'[w]
  BY DEF CashConserved
<1>2. idleAssets[w] + Outlay(w) = lpUsdc[w] - keeperUsdc[w]
  BY DEF RouterInv, Books, CashConserved
<1>3. Outlay(w) \in Int
  BY <1>1, SumTypes
<1>4. /\ idleAssets'[w] = idleAssets[w] + (IF w = v THEN d ELSE 0)
      /\ keeperUsdc'[w] = keeperUsdc[w] + (IF w = v THEN bounty ELSE 0)
      /\ idleAssets[w] \in Int /\ keeperUsdc[w] \in Int /\ lpUsdc[w] \in Int
      /\ lpUsdc'[w] = lpUsdc[w]
  BY <1>1
<1>5. Outlay(w)' = Outlay(w) + (IF w = v THEN o ELSE 0)
  OBVIOUS
<1>6. CASE w = v
  BY <1>2, <1>3, <1>4, <1>5, <1>6
<1>7. CASE w # v
  BY <1>2, <1>3, <1>4, <1>5, <1>7
<1> QED
  BY <1>6, <1>7

LEMMA PnlMoves ==
    ASSUME RouterInv, NEW a \in AgentIds, NEW pnl \in Int,
           lifetimePnl' = [lifetimePnl EXCEPT ![a] = @ + pnl],
           \A b : Realized(b)' = Realized(b) + (IF b = a THEN pnl ELSE 0)
    PROVE  PnlIsSum'
<1>1. lifetimePnl \in [AgentIds -> Int]
  BY DEF RouterInv, MarketTypeOK, AccountTypeOK
<1> SUFFICES ASSUME NEW b \in AgentIds PROVE lifetimePnl'[b] = Realized(b)'
  BY DEF PnlIsSum
<1>2. lifetimePnl[b] = Realized(b) /\ lifetimePnl[b] \in Int
  BY <1>1 DEF RouterInv, Books, PnlIsSum
<1>3. lifetimePnl'[b] = lifetimePnl[b] + (IF b = a THEN pnl ELSE 0)
  BY <1>1, <1>2
<1> QED
  BY <1>2, <1>3

\* One trade in the counters of the lens, and in the ledger's index of open positions.
LensNotes(a, opened, closed) ==
    LensSet =>
      /\ tradeCount' = Bump(tradeCount, a, 1)
      /\ positionsOpened' = Bump(positionsOpened, a, IF opened THEN 1 ELSE 0)
      /\ positionsClosed' = Bump(positionsClosed, a, IF closed THEN 1 ELSE 0)
IndexMoves(a, opened, closed) ==
    \A b \in AgentIds :
      /\ Opened(b)' = Opened(b) + (IF b = a /\ opened THEN 1 ELSE 0)
      /\ Len(openPositionIdsByAgent'[b]) = Len(openPositionIdsByAgent[b])
           + (IF b = a /\ opened THEN 1 ELSE IF b = a /\ closed THEN -1 ELSE 0)

\* A trade opens a position, closes one, or does neither.
LEMMA CountersMove ==
    ASSUME NEW trades \in Int, NEW opens \in Int, NEW closes \in Int, NEW index \in Int,
           opens - closes = index, trades >= opens + closes,
           NEW n \in Int, NEW up \in Int, NEW down \in Int, n >= up + down
    PROVE  /\ (opens + up) - (closes + down) = index + (up - down)
           /\ trades + n >= (opens + up) + (closes + down)
  OBVIOUS

\* The three counters of the lens against the ledger, for one trade of an agent.
LEMMA LensMoves ==
    ASSUME RouterInv, NEW a \in AgentIds, NEW opened \in BOOLEAN, NEW closed \in BOOLEAN,
           ~(opened /\ closed), LensNotes(a, opened, closed), IndexMoves(a, opened, closed)
    PROVE  LensCountsOpen'
<1>1. LensTypeOK /\ LensCountsOpen
  BY DEF RouterInv, MarketTypeOK, Books
<1> SUFFICES ASSUME LensSet, NEW b \in AgentIds
             PROVE  /\ positionsOpened'[b] - positionsClosed'[b] = Len(openPositionIdsByAgent'[b])
                    /\ positionsOpened'[b] = Opened(b)'
                    /\ tradeCount'[b] >= positionsOpened'[b] + positionsClosed'[b]
  BY DEF LensCountsOpen, Opened
<1> DEFINE n == IF b = a THEN 1 ELSE 0
           up == IF b = a /\ opened THEN 1 ELSE 0
           down == IF b = a /\ closed THEN 1 ELSE 0
<1>2. /\ positionsOpened[b] - positionsClosed[b] = Len(openPositionIdsByAgent[b])
      /\ positionsOpened[b] = Opened(b)
      /\ tradeCount[b] >= positionsOpened[b] + positionsClosed[b]
  BY <1>1 DEF LensCountsOpen, Opened
<1>3. /\ tradeCount[b] \in Int /\ positionsOpened[b] \in Int /\ positionsClosed[b] \in Int
      /\ tradeCount'[b] = tradeCount[b] + n
      /\ positionsOpened'[b] = positionsOpened[b] + up
      /\ positionsClosed'[b] = positionsClosed[b] + down
  BY <1>1 DEF LensNotes, LensTypeOK, Bump
<1>4. /\ n \in Int /\ up \in Int /\ down \in Int /\ n >= up + down
      /\ (IF b = a /\ opened THEN 1 ELSE IF b = a /\ closed THEN -1 ELSE 0) = up - down
  OBVIOUS
<1>5. /\ Opened(b)' = Opened(b) + up
      /\ Len(openPositionIdsByAgent'[b]) = Len(openPositionIdsByAgent[b]) + (up - down)
  BY <1>4 DEF IndexMoves
<1>6. openPositionIdsByAgent \in [AgentIds -> Seq(Nat)]
  BY DEF RouterInv, PMInv, PMTypeOK
<1>7. Len(openPositionIdsByAgent[b]) \in Int
  BY <1>6
<1> HIDE DEF n, up, down
<1>8. /\ (positionsOpened[b] + up) - (positionsClosed[b] + down)
           = Len(openPositionIdsByAgent[b]) + (up - down)
      /\ tradeCount[b] + n >= (positionsOpened[b] + up) + (positionsClosed[b] + down)
  BY <1>2, <1>3, <1>4, <1>7, CountersMove
<1> QED
  BY <1>2, <1>3, <1>5, <1>8

-----------------------------------------------------------------------------
(* One trade: what it moves in the ledger, and the books that follow. *)

\* The sums over positions move for one agent, vault and token: by amount tokens,
\* cost USDC and pnl; the agent's index grows or shrinks by a position.
Moves(a, v, t, amount, cost, pnl, opened, closed) ==
    /\ \A b : Deployed(b)' = Deployed(b) + (IF b = a THEN cost ELSE 0)
    /\ \A b : Realized(b)' = Realized(b) + (IF b = a THEN pnl ELSE 0)
    /\ \A w : Outlay(w)' = Outlay(w) + (IF w = v THEN cost - pnl ELSE 0)
    /\ \A w, s : Held(w, s)' = Held(w, s) + (IF w = v /\ s = t THEN amount ELSE 0)
    /\ \A b \in AgentIds :
         /\ Opened(b)' = Opened(b) + (IF b = a /\ opened THEN 1 ELSE 0)
         /\ Len(openPositionIdsByAgent'[b]) = Len(openPositionIdsByAgent[b])
              + (IF b = a /\ opened THEN 1 ELSE IF b = a /\ closed THEN -1 ELSE 0)

LEMMA OpenLedger ==
    ASSUME RouterInv, NEW a \in AgentIds, NEW v \in Vaults, NEW t \in Tokens,
           NEW amount \in Nat, NEW entry \in Nat, NEW usdc \in Nat, NEW slip \in Nat, NEW exits,
           openPosition(a, v, t, amount, entry, usdc, slip, exits)
    PROVE  Moves(a, v, t, amount, usdc, 0, TRUE, FALSE)
<1> DEFINE n == Len(positions) + 1
           p == [agentId |-> a, vault |-> v, token |-> t, tokenAmount |-> amount,
                 entryPriceUsdc |-> entry, usdcCostBasis |-> usdc,
                 maxSlippageBps |-> slip, status |-> "Open",
                 nextRuleIndex |-> 0, realizedPnlUsdc |-> 0]
<1>1. /\ positions \in Seq(Position)
      /\ openPositionIdsByAgent \in [AgentIds -> Seq(Nat)]
  BY DEF RouterInv, PMInv, PMTypeOK
<1>2. /\ p \in Position /\ p.agentId = a /\ p.vault = v /\ p.token = t
      /\ p.tokenAmount = amount /\ p.usdcCostBasis = usdc /\ p.realizedPnlUsdc = 0
  BY DEF Position, PositionStatus
<1>3. /\ positions' = Append(positions, p)
      /\ openPositionIdsByAgent' = [openPositionIdsByAgent EXCEPT ![a] = Append(@, n)]
  BY DEF openPosition, recordPosition
<1>4. n \in Nat
  BY <1>1
<1> HIDE DEF p, n
<1>5. /\ \A b : Deployed(b)' = Deployed(b) + (IF b = a THEN usdc ELSE 0)
      /\ \A b : Realized(b)' = Realized(b) + (IF b = a THEN 0 ELSE 0)
      /\ \A w : Outlay(w)' = Outlay(w) + (IF w = v THEN usdc - 0 ELSE 0)
      /\ \A w, s : Held(w, s)' = Held(w, s) + (IF w = v /\ s = t THEN amount ELSE 0)
  BY <1>1, <1>2, <1>3, OpenMoves
<1>6. \A b \in AgentIds : Opened(b)' = Opened(b) + (IF b = a THEN 1 ELSE 0)
  BY <1>1, <1>2, <1>3, OpenedMoves
<1>7. \A b \in AgentIds : Len(openPositionIdsByAgent'[b]) =
                            Len(openPositionIdsByAgent[b]) + (IF b = a THEN 1 ELSE 0)
  BY <1>1, <1>3, <1>4
<1> QED
  BY <1>5, <1>6, <1>7 DEF Moves

LEMMA IncreaseLedger ==
    ASSUME RouterInv, NEW id \in PositionIds, NEW amount \in Nat, NEW usdc \in Nat,
           NEW slip \in Nat, NEW entry \in Nat, increasePosition(id, amount, usdc, slip, entry)
    PROVE  Moves(positions[id].agentId, positions[id].vault, positions[id].token,
                 amount, usdc, 0, FALSE, FALSE)
<1> DEFINE p == positions[id]
           q == [p EXCEPT !.tokenAmount = @ + amount, !.usdcCostBasis = @ + usdc,
                          !.entryPriceUsdc = entry,
                          !.maxSlippageBps = IF slip > @ THEN slip ELSE @]
<1>1. /\ positions \in Seq(Position) /\ p \in Position
      /\ openPositionIdsByAgent \in [AgentIds -> Seq(Nat)]
  BY LedgerFacts DEF RouterInv, PMInv, PMTypeOK
<1>2. /\ q \in Position
      /\ q.agentId = p.agentId /\ q.vault = p.vault /\ q.token = p.token
      /\ q.usdcCostBasis = p.usdcCostBasis + usdc
      /\ q.tokenAmount = p.tokenAmount + amount
      /\ q.realizedPnlUsdc = p.realizedPnlUsdc
      /\ p.usdcCostBasis \in Int /\ p.tokenAmount \in Int /\ p.realizedPnlUsdc \in Int
  <2>1. /\ p.usdcCostBasis \in Nat /\ p.tokenAmount \in Nat /\ p.realizedPnlUsdc \in Int
        /\ p.maxSlippageBps \in Nat
    BY <1>1 DEF Position
  <2>2. /\ p.tokenAmount + amount \in Nat /\ p.usdcCostBasis + usdc \in Nat
        /\ (IF slip > p.maxSlippageBps THEN slip ELSE p.maxSlippageBps) \in Nat
    BY <2>1
  <2>3. p \in Position
    BY <1>1
  <2> HIDE DEF p
  <2>4. q \in Position
    BY <2>2, <2>3 DEF Position
  <2>5. /\ q.agentId = p.agentId /\ q.vault = p.vault /\ q.token = p.token
        /\ q.realizedPnlUsdc = p.realizedPnlUsdc
    BY <2>3 DEF Position
  <2>6. q.usdcCostBasis = p.usdcCostBasis + usdc /\ q.tokenAmount = p.tokenAmount + amount
    BY <2>3 DEF Position
  <2> QED
    BY <2>1, <2>4, <2>5, <2>6
<1>3. /\ positions' = [positions EXCEPT ![id] = q]
      /\ openPositionIdsByAgent' = openPositionIdsByAgent
  BY DEF increasePosition
<1> HIDE DEF p, q
<1>a. p = positions[id]
  BY DEF p
<1>4. /\ q.usdcCostBasis - p.usdcCostBasis = usdc
      /\ q.tokenAmount - p.tokenAmount = amount
      /\ q.realizedPnlUsdc - p.realizedPnlUsdc = 0
      /\ (q.usdcCostBasis - q.realizedPnlUsdc) - (p.usdcCostBasis - p.realizedPnlUsdc) = usdc - 0
  BY <1>2
<1>5. /\ \A b : Deployed(b)' = Deployed(b) + (IF b = p.agentId THEN usdc ELSE 0)
      /\ \A b : Realized(b)' = Realized(b) + (IF b = p.agentId THEN 0 ELSE 0)
      /\ \A w : Outlay(w)' = Outlay(w) + (IF w = p.vault THEN usdc - 0 ELSE 0)
      /\ \A w, s : Held(w, s)' = Held(w, s) +
                     (IF w = p.vault /\ s = p.token THEN amount ELSE 0)
  <2>1. /\ positions' = [positions EXCEPT ![id] = q] /\ q \in Position
        /\ q.agentId = positions[id].agentId /\ q.vault = positions[id].vault
        /\ q.token = positions[id].token
    BY <1>2, <1>3, <1>a
  <2>2. /\ \A b :
             /\ Deployed(b)' = Deployed(b) + (IF q.agentId = b
                     THEN q.usdcCostBasis - positions[id].usdcCostBasis ELSE 0)
             /\ Realized(b)' = Realized(b) + (IF q.agentId = b
                     THEN q.realizedPnlUsdc - positions[id].realizedPnlUsdc ELSE 0)
        /\ \A w : Outlay(w)' = Outlay(w) + (IF q.vault = w
                     THEN (q.usdcCostBasis - q.realizedPnlUsdc)
                            - (positions[id].usdcCostBasis - positions[id].realizedPnlUsdc)
                     ELSE 0)
        /\ \A w, s : Held(w, s)' = Held(w, s) + (IF q.vault = w /\ q.token = s
                     THEN q.tokenAmount - positions[id].tokenAmount ELSE 0)
    <3>1. positions \in Seq(Position)
      BY <1>1
    <3> QED
      BY <2>1, <3>1, RewriteMoves, Zenon
  <2> QED
    BY <1>2, <1>3, <1>4, <1>a, <2>2
<1>6. \A b \in AgentIds : Opened(b)' = Opened(b) /\ Opened(b) \in Nat
  BY <1>1, <1>2, <1>3, <1>a, OpenedStays, OpenedType
<1>7. \A b \in AgentIds : Len(openPositionIdsByAgent[b]) \in Nat
  BY <1>1
<1> QED
  BY <1>3, <1>5, <1>6, <1>7, <1>a DEF Moves

LEMMA SaleLedger ==
    ASSUME RouterInv, NEW id \in PositionIds, IsOpen(id), NEW sold \in Nat, NEW released \in Nat,
           NEW pnl \in Int, NEW idx \in Nat,
           reducePositionSize(id, sold, released, pnl, idx)
    PROVE  Moves(positions[id].agentId, positions[id].vault, positions[id].token,
                 -sold, -released, pnl, FALSE, positions[id].tokenAmount = sold)
<1> DEFINE p == positions[id]
           closes == p.tokenAmount = sold
           q == [p EXCEPT !.tokenAmount = @ - sold, !.usdcCostBasis = @ - released,
                          !.realizedPnlUsdc = @ + pnl, !.nextRuleIndex = idx,
                          !.status = IF closes THEN "Closed" ELSE @]
<1>1. /\ positions \in Seq(Position) /\ p \in Position
      /\ openPositionIdsByAgent \in [AgentIds -> Seq(Nat)]
      /\ p.agentId \in AgentIds /\ OpenIndexExact
  BY LedgerFacts DEF RouterInv, PMInv, PMTypeOK
<1>2. /\ sold <= p.tokenAmount /\ released <= p.usdcCostBasis
      /\ positions' = [positions EXCEPT ![id] = q]
      /\ openPositionIdsByAgent' =
           IF closes
           THEN [openPositionIdsByAgent EXCEPT ![p.agentId] = SwapAndPop(@, id)]
           ELSE openPositionIdsByAgent
  BY DEF reducePositionSize
<1>3. /\ q \in Position
      /\ q.agentId = p.agentId /\ q.vault = p.vault /\ q.token = p.token
      /\ q.usdcCostBasis = p.usdcCostBasis - released
      /\ q.tokenAmount = p.tokenAmount - sold
      /\ q.realizedPnlUsdc = p.realizedPnlUsdc + pnl
      /\ p.usdcCostBasis \in Int /\ p.tokenAmount \in Int /\ p.realizedPnlUsdc \in Int
  <2>1. /\ p.usdcCostBasis \in Nat /\ p.tokenAmount \in Nat /\ p.realizedPnlUsdc \in Int
        /\ p.status \in PositionStatus
    BY <1>1 DEF Position
  <2>2. /\ p.tokenAmount - sold \in Nat /\ p.usdcCostBasis - released \in Nat
        /\ p.realizedPnlUsdc + pnl \in Int
        /\ (IF closes THEN "Closed" ELSE p.status) \in PositionStatus
    BY <1>2, <2>1 DEF PositionStatus
  <2>3. p \in Position
    BY <1>1
  <2> HIDE DEF p, closes
  <2>4. q \in Position
    BY <2>2, <2>3 DEF Position
  <2>5. q.agentId = p.agentId /\ q.vault = p.vault /\ q.token = p.token
    BY <2>3 DEF Position
  <2>6. /\ q.usdcCostBasis = p.usdcCostBasis - released /\ q.tokenAmount = p.tokenAmount - sold
        /\ q.realizedPnlUsdc = p.realizedPnlUsdc + pnl
    BY <2>3 DEF Position
  <2> QED
    BY <2>1, <2>4, <2>5, <2>6
<1> DEFINE ids == openPositionIdsByAgent[p.agentId]
<1>4. closes => Len(SwapAndPop(ids, id)) = Len(ids) - 1
  <2>1. ids \in Seq(Nat)
    BY <1>1
  <2>2. \A i, j \in DOMAIN ids : ids[i] = ids[j] => i = j
    BY <1>1 DEF OpenIndexExact
  <2>3. id \in OpenIds
    BY DEF OpenIds
  <2>4. \E k \in DOMAIN ids : ids[k] = id
    BY <1>1, <2>3 DEF OpenIndexExact
  <2> HIDE DEF ids
  <2> QED
    BY <2>1, <2>2, <2>4, SwapAndPopFacts
<1>b. openPositionIdsByAgent'[p.agentId] = IF closes THEN SwapAndPop(ids, id) ELSE ids
  BY <1>1, <1>2
<1>c. \A b \in AgentIds : b # p.agentId => openPositionIdsByAgent'[b] = openPositionIdsByAgent[b]
  BY <1>1, <1>2
<1>d. \A b \in AgentIds : Len(openPositionIdsByAgent[b]) \in Nat
  BY <1>1
<1>7. \A b \in AgentIds : Len(openPositionIdsByAgent'[b]) = Len(openPositionIdsByAgent[b])
                            + (IF b = p.agentId /\ closes THEN -1 ELSE 0)
  <2> TAKE b \in AgentIds
  <2>1. CASE b # p.agentId
    <3>1. openPositionIdsByAgent'[b] = openPositionIdsByAgent[b]
      BY <2>1, <1>c
    <3>2. Len(openPositionIdsByAgent[b]) \in Int
      BY <1>d
    <3> HIDE DEF p, closes, ids
    <3> QED
      BY <2>1, <3>1, <3>2
  <2>2. CASE b = p.agentId /\ closes
    <3>1. Len(openPositionIdsByAgent'[b]) = Len(openPositionIdsByAgent[b]) - 1
      BY <2>2, <1>4, <1>b
    <3>2. Len(openPositionIdsByAgent[b]) \in Int
      BY <1>d
    <3> HIDE DEF p, closes, ids
    <3> QED
      BY <2>2, <3>1, <3>2
  <2>3. CASE b = p.agentId /\ ~closes
    <3>1. openPositionIdsByAgent'[b] = openPositionIdsByAgent[b]
      BY <2>3, <1>b
    <3>2. Len(openPositionIdsByAgent[b]) \in Int
      BY <1>d
    <3> HIDE DEF p, closes, ids
    <3> QED
      BY <2>3, <3>1, <3>2
  <2> QED
    BY <2>1, <2>2, <2>3
<1> HIDE DEF p, q
<1>a. p = positions[id]
  BY DEF p
<1>e. /\ q.usdcCostBasis - p.usdcCostBasis = -released
      /\ q.tokenAmount - p.tokenAmount = -sold
      /\ q.realizedPnlUsdc - p.realizedPnlUsdc = pnl
      /\ (q.usdcCostBasis - q.realizedPnlUsdc) - (p.usdcCostBasis - p.realizedPnlUsdc)
           = (-released) - pnl
  BY <1>3
<1>5. /\ \A b : Deployed(b)' = Deployed(b) + (IF b = p.agentId THEN -released ELSE 0)
      /\ \A b : Realized(b)' = Realized(b) + (IF b = p.agentId THEN pnl ELSE 0)
      /\ \A w : Outlay(w)' = Outlay(w) + (IF w = p.vault THEN (-released) - pnl ELSE 0)
      /\ \A w, s : Held(w, s)' = Held(w, s) +
                     (IF w = p.vault /\ s = p.token THEN -sold ELSE 0)
  <2>1. /\ positions' = [positions EXCEPT ![id] = q] /\ q \in Position
        /\ q.agentId = positions[id].agentId /\ q.vault = positions[id].vault
        /\ q.token = positions[id].token
    BY <1>2, <1>3, <1>a
  <2>2. /\ \A b :
             /\ Deployed(b)' = Deployed(b) + (IF q.agentId = b
                     THEN q.usdcCostBasis - positions[id].usdcCostBasis ELSE 0)
             /\ Realized(b)' = Realized(b) + (IF q.agentId = b
                     THEN q.realizedPnlUsdc - positions[id].realizedPnlUsdc ELSE 0)
        /\ \A w : Outlay(w)' = Outlay(w) + (IF q.vault = w
                     THEN (q.usdcCostBasis - q.realizedPnlUsdc)
                            - (positions[id].usdcCostBasis - positions[id].realizedPnlUsdc)
                     ELSE 0)
        /\ \A w, s : Held(w, s)' = Held(w, s) + (IF q.vault = w /\ q.token = s
                     THEN q.tokenAmount - positions[id].tokenAmount ELSE 0)
    <3>1. positions \in Seq(Position)
      BY <1>1
    <3> QED
      BY <2>1, <3>1, RewriteMoves, Zenon
  <2> QED
    BY <1>2, <1>3, <1>e, <1>a, <2>2
<1>6. \A b \in AgentIds : Opened(b)' = Opened(b) /\ Opened(b) \in Nat
  BY <1>1, <1>2, <1>3, <1>a, OpenedStays, OpenedType
<1>8. \A b \in AgentIds :
        /\ Opened(b)' = Opened(b) + (IF b = p.agentId /\ FALSE THEN 1 ELSE 0)
        /\ Len(openPositionIdsByAgent'[b]) = Len(openPositionIdsByAgent[b])
             + (IF b = p.agentId /\ FALSE THEN 1 ELSE IF b = p.agentId /\ closes THEN -1 ELSE 0)
  <2> TAKE b \in AgentIds
  <2>1. Opened(b)' = Opened(b) + 0
    BY <1>6
  <2> QED
    BY <1>7, <2>1
<1> QED
  BY <1>5, <1>8 DEF Moves, p

\* Ledger, vault, accounts and lens move in step: the books balance again.
LEMMA BooksMove ==
    ASSUME RouterInv, PMInv', NEW a \in AgentIds, NEW v \in Vaults, NEW t \in Tokens,
           NEW amount \in Int, NEW cost \in Int, NEW pnl \in Int,
           NEW opened \in BOOLEAN, NEW closed \in BOOLEAN, ~(opened /\ closed),
           Moves(a, v, t, amount, cost, pnl, opened, closed),
           NEW d \in Int, NEW bounty \in Nat, d + (cost - pnl) + bounty = 0,
           tokenBalance' = [tokenBalance EXCEPT ![v][t] = @ + amount],
           idleAssets' = [idleAssets EXCEPT ![v] = @ + d],
           keeperUsdc' = [keeperUsdc EXCEPT ![v] = @ + bounty],
           UNCHANGED lpUsdc,
           lifetimePnl' = [lifetimePnl EXCEPT ![a] = @ + pnl],
           LensSet =>
             /\ tradeCount' = Bump(tradeCount, a, 1)
             /\ positionsOpened' = Bump(positionsOpened, a, IF opened THEN 1 ELSE 0)
             /\ positionsClosed' = Bump(positionsClosed, a, IF closed THEN 1 ELSE 0)
    PROVE  Books'
<1> DEFINE o == cost - pnl
<1>1. /\ \A b : Realized(b)' = Realized(b) + (IF b = a THEN pnl ELSE 0)
      /\ \A w : Outlay(w)' = Outlay(w) + (IF w = v THEN o ELSE 0)
      /\ \A w, s : Held(w, s)' = Held(w, s) + (IF w = v /\ s = t THEN amount ELSE 0)
  BY DEF Moves
<1>2. o \in Int /\ d + o + bounty = 0
  OBVIOUS
<1> HIDE DEF o
<1>3. InventoryBacksPositions'
  BY <1>1, InventoryMoves
<1>4. CashConserved'
  BY <1>1, <1>2, CashMoves
<1>5. PnlIsSum'
  BY <1>1, PnlMoves
<1>6. LensCountsOpen'
  <2>1. IndexMoves(a, opened, closed)
    BY DEF Moves, IndexMoves
  <2>2. LensNotes(a, opened, closed)
    BY DEF LensNotes
  <2> QED
    BY <2>1, <2>2, LensMoves
<1> QED
  BY <1>3, <1>4, <1>5, <1>6 DEF Books

-----------------------------------------------------------------------------
(* The trades. *)

\* What openPosition and addToPosition write outside the position manager.
Bought(a, v, t, usdc, tokens, opened) ==
    /\ usdc <= idleAssets[v] /\ settleBuy(v, t, usdc, tokens)
    /\ nonces' = [nonces EXCEPT ![a] = @ + 1]
    /\ setAllocationUsed(a, allocations[a].used + usdc)
    /\ dailyTurnover' = [dailyTurnover EXCEPT ![a] = @ + usdc]
    /\ UNCHANGED <<dailyPnl, lifetimePnl, keeperBounty, keeperUsdc>>
    /\ notifyLens(a, usdc, opened, FALSE)
    /\ UNCHANGED <<agentVars, feeVars, vaultTrackConfigs, tokenVars>>

LEMMA BuyKeeps ==
    ASSUME RouterInv, PMInv', NEW a \in AgentIds, NEW v \in Vaults, NEW t \in Tokens,
           NEW usdc \in Nat, NEW tokens \in Nat, NEW opened \in BOOLEAN,
           Bought(a, v, t, usdc, tokens, opened),
           Moves(a, v, t, tokens, usdc, 0, opened, FALSE)
    PROVE  RouterInv'
<1>1. TokenTypeOK /\ VaultTypeOK /\ AccountTypeOK /\ LensTypeOK
  BY DEF RouterInv, MarketTypeOK
<1>2. /\ idleAssets' = [idleAssets EXCEPT ![v] = @ - usdc] /\ usdc <= idleAssets[v]
      /\ tokenBalance' = [tokenBalance EXCEPT ![v][t] = @ + tokens]
      /\ UNCHANGED <<mandateToken, tradingPaused, lpUsdc>>
      /\ UNCHANGED <<dailyPnl, lifetimePnl, keeperBounty, keeperUsdc>>
      /\ UNCHANGED <<tokenStatus, price, fresh>>
  BY DEF Bought, settleBuy, tokenVars
<1>3. RegistryInv' /\ RegisteredIds' = AgentIds /\ allocations'[a].cap \in Nat
  <2>1. allocations[a].used + usdc \in Nat /\ allocations[a].cap \in Nat
    BY AgentFacts
  <2> QED
    BY <2>1, UsedWriteKeeps DEF Bought
<1>4. TokenTypeOK'
  BY <1>1, <1>2 DEF TokenTypeOK
<1>5. VaultTypeOK'
  BY <1>1, <1>2 DEF VaultTypeOK
<1>6. AccountTypeOK'
  BY <1>1, <1>2 DEF AccountTypeOK, Bought
<1>7. lifetimePnl'[a] \in Int
  BY <1>6 DEF AccountTypeOK
<1>8. /\ LensTypeOK'
      /\ LensSet =>
           /\ tradeCount' = Bump(tradeCount, a, 1)
           /\ positionsOpened' = Bump(positionsOpened, a, IF opened THEN 1 ELSE 0)
           /\ positionsClosed' = Bump(positionsClosed, a, IF FALSE THEN 1 ELSE 0)
  BY <1>3, <1>7, LensKeeps DEF Bought
<1> DEFINE d == -usdc
<1>9. /\ idleAssets' = [idleAssets EXCEPT ![v] = @ + d]
      /\ keeperUsdc' = [keeperUsdc EXCEPT ![v] = @ + 0]
      /\ lifetimePnl' = [lifetimePnl EXCEPT ![a] = @ + 0]
  <2>1. /\ idleAssets[v] \in Int /\ keeperUsdc \in [Vaults -> Int]
        /\ lifetimePnl \in [AgentIds -> Int]
    BY <1>1 DEF VaultTypeOK, AccountTypeOK
  <2>2. /\ idleAssets[v] - usdc = idleAssets[v] + d
        /\ keeperUsdc[v] + 0 = keeperUsdc[v] /\ lifetimePnl[a] + 0 = lifetimePnl[a]
    BY <2>1
  <2>3. /\ [keeperUsdc EXCEPT ![v] = keeperUsdc[v]] = keeperUsdc
        /\ [lifetimePnl EXCEPT ![a] = lifetimePnl[a]] = lifetimePnl
    BY <2>1
  <2> HIDE DEF d
  <2> QED
    BY <1>2, <2>2, <2>3
<1>10. d \in Int /\ d + (usdc - 0) + 0 = 0 /\ 0 \in Int /\ 0 \in Nat
       /\ usdc \in Int /\ tokens \in Int
  OBVIOUS
<1> HIDE DEF d
<1>11. Books'
  <2>1. /\ UNCHANGED lpUsdc /\ tokenBalance' = [tokenBalance EXCEPT ![v][t] = @ + tokens]
        /\ ~(opened /\ FALSE) /\ FALSE \in BOOLEAN
    BY <1>2
  <2> QED
    BY <1>8, <1>9, <1>10, <2>1, BooksMove
<1> QED
  BY <1>3, <1>4, <1>5, <1>6, <1>8, <1>11 DEF RouterInv, MarketTypeOK

\* What a sale writes outside the position manager, but for the nonce.
Sold(a, v, t, tokens, usdcOut, bounty, released, turnover, closed) ==
    /\ tokens <= tokenBalance[v][t]
    /\ tokenBalance' = [tokenBalance EXCEPT ![v][t] = @ - tokens]
    /\ idleAssets' = [idleAssets EXCEPT ![v] = @ + (usdcOut - bounty)]
    /\ UNCHANGED <<mandateToken, tradingPaused, lpUsdc>>
    /\ released <= allocations[a].used
    /\ setAllocationUsed(a, allocations[a].used - released)
    /\ dailyTurnover' = [dailyTurnover EXCEPT ![a] = @ + turnover]
    /\ dailyPnl' = [dailyPnl EXCEPT ![a] = @ + (usdcOut - released)]
    /\ lifetimePnl' = [lifetimePnl EXCEPT ![a] = @ + (usdcOut - released)]
    /\ keeperUsdc' = [keeperUsdc EXCEPT ![v] = @ + bounty]
    /\ notifyLens(a, turnover, FALSE, closed)
    /\ UNCHANGED <<agentVars, feeVars, vaultTrackConfigs, tokenVars, keeperBounty>>

LEMMA SellKeeps ==
    ASSUME RouterInv, PMInv', NEW a \in AgentIds, NEW v \in Vaults, NEW t \in Tokens,
           NEW tokens \in Nat, NEW usdcOut \in Nat, NEW bounty \in Nat, bounty <= usdcOut,
           NEW released \in Nat, NEW turnover \in Nat, NEW closed \in BOOLEAN,
           Sold(a, v, t, tokens, usdcOut, bounty, released, turnover, closed),
           nonces' \in [AgentIds -> Nat],
           NEW amount \in Int, NEW cost \in Int, NEW pnl \in Int,
           amount = -tokens, cost = -released, pnl = usdcOut - released,
           Moves(a, v, t, amount, cost, pnl, FALSE, closed)
    PROVE  RouterInv'
<1> DEFINE d == usdcOut - bounty
<1>1. TokenTypeOK /\ VaultTypeOK /\ AccountTypeOK /\ LensTypeOK
  BY DEF RouterInv, MarketTypeOK
<1>2. /\ tokens <= tokenBalance[v][t]
      /\ tokenBalance' = [tokenBalance EXCEPT ![v][t] = @ - tokens]
      /\ idleAssets' = [idleAssets EXCEPT ![v] = @ + d]
      /\ UNCHANGED <<mandateToken, tradingPaused, lpUsdc>>
      /\ dailyTurnover' = [dailyTurnover EXCEPT ![a] = @ + turnover]
      /\ dailyPnl' = [dailyPnl EXCEPT ![a] = @ + pnl]
      /\ lifetimePnl' = [lifetimePnl EXCEPT ![a] = @ + pnl]
      /\ keeperUsdc' = [keeperUsdc EXCEPT ![v] = @ + bounty]
      /\ UNCHANGED <<tokenStatus, price, fresh, keeperBounty>>
  BY DEF Sold, tokenVars
<1>3. RegistryInv' /\ RegisteredIds' = AgentIds /\ allocations'[a].cap \in Nat
  <2>1. allocations[a].used - released \in Nat /\ allocations[a].cap \in Nat
    BY AgentFacts DEF Sold
  <2> QED
    BY <2>1, UsedWriteKeeps DEF Sold
<1>4. /\ d \in Nat /\ d \in Int
      /\ d + (cost - pnl) + bounty = 0
  OBVIOUS
<1>5. Moves(a, v, t, amount, cost, pnl, FALSE, closed)
  OBVIOUS
<1> HIDE DEF d
<1>6. TokenTypeOK'
  BY <1>1, <1>2 DEF TokenTypeOK
<1>7. VaultTypeOK'
  <2>1. /\ idleAssets' \in [Vaults -> Nat] /\ lpUsdc' \in [Vaults -> Int]
        /\ mandateToken' \in [Vaults -> [Tokens -> {"Unlisted", "Enabled", "Disabled"}]]
        /\ tradingPaused' \in [Vaults -> BOOLEAN]
    BY <1>1, <1>2, <1>4 DEF VaultTypeOK
  <2>2. tokenBalance \in [Vaults -> [Tokens -> Nat]]
    BY <1>1 DEF VaultTypeOK
  <2>3. tokenBalance' \in [Vaults -> [Tokens -> Nat]]
    BY <1>2, <2>2
  <2> QED
    BY <2>1, <2>3 DEF VaultTypeOK
<1>8. AccountTypeOK'
  BY <1>1, <1>2, <1>4 DEF AccountTypeOK
<1>9. lifetimePnl'[a] \in Int
  BY <1>8 DEF AccountTypeOK
<1>10. /\ LensTypeOK'
       /\ LensSet =>
            /\ tradeCount' = Bump(tradeCount, a, 1)
            /\ positionsOpened' = Bump(positionsOpened, a, IF FALSE THEN 1 ELSE 0)
            /\ positionsClosed' = Bump(positionsClosed, a, IF closed THEN 1 ELSE 0)
  BY <1>3, <1>9, LensKeeps DEF Sold
<1>11. tokenBalance' = [tokenBalance EXCEPT ![v][t] = @ + amount]
  <2>1. tokenBalance[v][t] \in Nat
    BY <1>1 DEF VaultTypeOK
  <2>2. tokenBalance[v][t] - tokens = tokenBalance[v][t] + amount
    BY <2>1
  <2> QED
    BY <1>2, <2>2
<1>12. Books'
  <2>1. /\ UNCHANGED lpUsdc /\ ~(FALSE /\ closed) /\ FALSE \in BOOLEAN
        /\ idleAssets' = [idleAssets EXCEPT ![v] = @ + d]
        /\ keeperUsdc' = [keeperUsdc EXCEPT ![v] = @ + bounty]
        /\ lifetimePnl' = [lifetimePnl EXCEPT ![a] = @ + pnl]
    BY <1>2
  <2> QED
    BY <1>4, <1>5, <1>10, <1>11, <2>1, BooksMove
<1> QED
  BY <1>3, <1>6, <1>7, <1>8, <1>10, <1>12 DEF RouterInv, MarketTypeOK

\* What a ladder that the router accepts looks like.
LEMMA LadderAccepted ==
    ASSUME NEW exits \in SignedLadders, NEW config, ExitRulesAllowed(exits, config)
    PROVE  /\ exits \in Seq(ExitRule) /\ Len(exits) > 0
           /\ exits[Len(exits)].exitBps = MAX_BPS
<1>1. SignedLadders \subseteq Seq(ExitRule)
  BY RouterAssumption
<1>2. Len(exits) \in 1 .. MaxExitRules /\ exits[Len(exits)].exitBps = MAX_BPS
  BY DEF ExitRulesAllowed, ValidExitRules
<1>3. MaxExitRules \in Nat
  BY PMAssumption
<1> QED
  BY <1>1, <1>2, <1>3

\* openPosition as a call of the position manager and a settlement.
LEMMA OpenParts ==
    ASSUME RouterInv, NEW a \in AgentIds, NEW t \in Tokens, NEW usdc \in TradeAmounts,
           NEW slip \in Slippages, NEW exits \in SignedLadders,
           OpenPosition(a, t, usdc, slip, exits)
    PROVE  LET tokens == usdcToTokenAmount(usdc, t)
               entry == MulDiv(usdc, TokenUnit, tokens)
           IN  /\ tokens \in Nat /\ tokens > 0 /\ usdc \in Nat /\ usdc > 0
               /\ entry \in Nat /\ slip \in Nat
               /\ openPosition(a, vaultOf(a), t, tokens, entry, usdc, slip, exits)
               /\ Bought(a, vaultOf(a), t, usdc, tokens, TRUE)
<1> DEFINE tokens == usdcToTokenAmount(usdc, t)
           entry == MulDiv(usdc, TokenUnit, tokens)
<1>1. /\ tokens > 0
      /\ openPosition(a, vaultOf(a), t, tokens, entry, usdc, slip, exits)
      /\ Bought(a, vaultOf(a), t, usdc, tokens, TRUE)
  BY DEF OpenPosition, Bought, buyForTrade
<1>2. usdc \in Nat /\ slip \in Nat
  BY RouterAssumption, PMAssumption
<1>3. TokenTypeOK
  BY DEF RouterInv, MarketTypeOK
<1>4. tokens \in Nat /\ usdc > 0 /\ TokenUnit \in Nat
  BY <1>1, <1>2, <1>3, PriceFacts
<1>5. entry \in Nat
  <2> HIDE DEF tokens
  <2> QED
    BY <1>1, <1>2, <1>4, MulDivNat
<1> QED
  BY <1>1, <1>2, <1>4, <1>5

LEMMA OpenPositionKeeps ==
    ASSUME RouterInv, NEW a \in AgentIds, NEW t \in Tokens, NEW usdc \in TradeAmounts,
           NEW slip \in Slippages, NEW exits \in SignedLadders,
           OpenPosition(a, t, usdc, slip, exits)
    PROVE  RouterInv'
<1> DEFINE v == vaultOf(a)
           tokens == usdcToTokenAmount(usdc, t)
           entry == MulDiv(usdc, TokenUnit, tokens)
<1>1. /\ tokens \in Nat /\ tokens > 0 /\ usdc \in Nat /\ usdc > 0
      /\ entry \in Nat /\ slip \in Nat
      /\ openPosition(a, v, t, tokens, entry, usdc, slip, exits)
      /\ Bought(a, v, t, usdc, tokens, TRUE)
  BY OpenParts
<1>2. /\ exits \in Seq(ExitRule) /\ Len(exits) > 0 /\ exits[Len(exits)].exitBps = MAX_BPS
  BY LadderAccepted DEF OpenPosition, MayOpen
<1>3. v \in Vaults
  BY AgentFacts
<1> HIDE DEF v, tokens, entry
<1>4. PMInv
  BY DEF RouterInv
<1>5. PMInv'
  BY <1>1, <1>2, <1>3, <1>4, OpenKeeps
<1>6. Moves(a, v, t, tokens, usdc, 0, TRUE, FALSE)
  BY <1>1, <1>3, OpenLedger
<1> QED
  BY <1>1, <1>3, <1>5, <1>6, BuyKeeps

\* addToPosition likewise.
LEMMA AddParts ==
    ASSUME RouterInv, NEW id \in PositionIds, NEW usdc \in TradeAmounts,
           NEW slip \in Slippages, AddToPosition(id, usdc, slip)
    PROVE  LET p == positions[id]
               added == usdcToTokenAmount(usdc, p.token)
               entry == MulDiv(p.usdcCostBasis + usdc, TokenUnit, p.tokenAmount + added)
           IN  /\ added \in Nat /\ usdc \in Nat /\ entry \in Nat /\ slip \in Nat
               /\ increasePosition(id, added, usdc, slip, entry)
               /\ Bought(p.agentId, p.vault, p.token, usdc, added, FALSE)
<1> DEFINE p == positions[id]
           added == usdcToTokenAmount(usdc, p.token)
           entry == MulDiv(p.usdcCostBasis + usdc, TokenUnit, p.tokenAmount + added)
<1>1. /\ IsOpen(id) /\ increasePosition(id, added, usdc, slip, entry)
      /\ Bought(p.agentId, p.vault, p.token, usdc, added, FALSE)
  BY DEF AddToPosition, Bought, buyForTrade
<1>2. usdc \in Nat /\ slip \in Nat
  BY RouterAssumption, PMAssumption
<1>3. TokenTypeOK
  BY DEF RouterInv, MarketTypeOK
<1>4. /\ p.tokenAmount \in Nat /\ p.tokenAmount > 0 /\ p.usdcCostBasis \in Nat
      /\ p.token \in Tokens
  BY <1>1, LedgerFacts
<1>5. added \in Nat /\ TokenUnit \in Nat
  BY <1>2, <1>3, <1>4, PriceFacts
<1>6. entry \in Nat
  <2> DEFINE x == p.usdcCostBasis + usdc
             y == p.tokenAmount + added
  <2> HIDE DEF p, added
  <2>1. x \in Nat /\ y \in Nat /\ y > 0
    BY <1>2, <1>4, <1>5
  <2> HIDE DEF x, y
  <2>2. MulDiv(x, TokenUnit, y) \in Nat
    BY <1>5, <2>1, MulDivNat
  <2> QED
    BY <2>2 DEF x, y
<1> QED
  BY <1>1, <1>2, <1>5, <1>6

LEMMA AddToPositionKeeps ==
    ASSUME RouterInv, NEW id \in PositionIds, NEW usdc \in TradeAmounts,
           NEW slip \in Slippages, AddToPosition(id, usdc, slip)
    PROVE  RouterInv'
<1> DEFINE p == positions[id]
           added == usdcToTokenAmount(usdc, p.token)
           entry == MulDiv(p.usdcCostBasis + usdc, TokenUnit, p.tokenAmount + added)
<1>1. /\ added \in Nat /\ usdc \in Nat /\ entry \in Nat /\ slip \in Nat
      /\ increasePosition(id, added, usdc, slip, entry)
      /\ Bought(p.agentId, p.vault, p.token, usdc, added, FALSE)
  BY AddParts
<1>2. p.agentId \in AgentIds /\ p.vault \in Vaults /\ p.token \in Tokens
  BY LedgerFacts
<1> HIDE DEF added, entry
<1>3. PMInv
  BY DEF RouterInv
<1>4. PMInv'
  BY <1>1, <1>3, IncreaseKeeps
<1>5. Moves(p.agentId, p.vault, p.token, added, usdc, 0, FALSE, FALSE)
  BY <1>1, IncreaseLedger
<1> HIDE DEF p
<1> QED
  BY <1>1, <1>2, <1>4, <1>5, BuyKeeps

LEMMA BountyFacts ==
    ASSUME AccountTypeOK, NEW usdcOut \in Nat
    PROVE  bountyOf(usdcOut) \in Nat /\ bountyOf(usdcOut) <= usdcOut
<1> DEFINE share == keeperBounty[1]
           most == keeperBounty[2]
           bounty == MulDiv(usdcOut, share, MAX_BPS)
<1>1. share \in 0 .. MAX_BPS /\ most \in Nat
  <2>1. keeperBounty \in (0 .. MAX_BPS) \X Nat
    BY DEF AccountTypeOK
  <2> QED
    BY <2>1
<1>4. MAX_BPS \in Nat /\ MAX_BPS > 0
  BY DEF MAX_BPS
<1> HIDE DEF share, most
<1>2. bounty \in Nat /\ bounty <= usdcOut
  <2>1. share \in Nat /\ share <= MAX_BPS
    BY <1>1, <1>4
  <2> QED
    BY <1>4, <2>1, ShareFacts
<1>3. bountyOf(usdcOut) = IF most # 0 /\ bounty > most THEN most ELSE bounty
  BY DEF bountyOf, share, most
<1> HIDE DEF bounty
<1> QED
  BY <1>1, <1>2, <1>3

\* The parts of _sell, for its three callers.
SaleOf(id, tokens, usdcOut, bounty, released, turnover, idx) ==
    /\ Sale(id, tokens, released)
    /\ reducePositionSize(id, tokens, released, usdcOut - released, idx)
    /\ Sold(positions[id].agentId, positions[id].vault, positions[id].token,
            tokens, usdcOut, bounty, released, turnover, positions[id].tokenAmount = tokens)

LEMMA SellParts ==
    ASSUME RouterInv, NEW id \in PositionIds, IsOpen(id), NEW tokens \in Nat, tokens > 0,
           NEW mode, sell(id, tokens, mode)
    PROVE  \E usdcOut, bounty, released, turnover, idx \in Nat :
             /\ bounty <= usdcOut
             /\ idx = IF mode = "Ladder" THEN positions[id].nextRuleIndex + 1
                                         ELSE positions[id].nextRuleIndex
             /\ mode = "Ladder" => HasNextExitRule(id)
             /\ SaleOf(id, tokens, usdcOut, bounty, released, turnover, idx)
<1> DEFINE p == positions[id]
           usdcOut == valueInAsset(tokens, p.token)
           released == MulDiv(p.usdcCostBasis, tokens, p.tokenAmount)
           bounty == IF mode = "Ladder" THEN bountyOf(usdcOut) ELSE 0
           turnover == IF mode = "ForceClose" THEN 0 ELSE usdcOut
           idx == IF mode = "Ladder" THEN p.nextRuleIndex + 1 ELSE p.nextRuleIndex
<1>1. TokenTypeOK /\ AccountTypeOK
  BY DEF RouterInv, MarketTypeOK
<1>2. /\ p.tokenAmount \in Nat /\ p.tokenAmount > 0 /\ p.usdcCostBasis \in Nat
      /\ p.usdcCostBasis > 0 /\ p.token \in Tokens /\ p.nextRuleIndex \in Nat
      /\ p.agentId \in AgentIds
  BY LedgerFacts
<1>3. usdcOut \in Nat
  BY <1>1, <1>2, PriceFacts
<1>4. tokens <= p.tokenAmount
  BY DEF sell
<1>5. /\ released \in Nat /\ released <= p.usdcCostBasis
      /\ released = p.usdcCostBasis <=> tokens = p.tokenAmount
  <2>1. /\ released \in Nat /\ released <= p.usdcCostBasis
        /\ tokens = p.tokenAmount => released = p.usdcCostBasis
        /\ tokens # p.tokenAmount => released < p.usdcCostBasis
    <3> HIDE DEF p
    <3> QED
      BY <1>2, <1>4, ShareFacts
  <2> HIDE DEF p, released
  <2> QED
    BY <1>2, <2>1
<1>6. bounty \in Nat /\ bounty <= usdcOut
  <2> HIDE DEF usdcOut
  <2> QED
    BY <1>1, <1>3, BountyFacts
<1>7. turnover \in Nat /\ idx \in Nat
  <2> HIDE DEF usdcOut, p
  <2> QED
    BY <1>2, <1>3
<1>8. Sale(id, tokens, released)
  <2> HIDE DEF released
  <2> QED
    BY <1>4, <1>5 DEF Sale
<1>9. /\ reducePositionSize(id, tokens, released, usdcOut - released, idx)
      /\ mode = "Ladder" => HasNextExitRule(id)
  <2>1. IF mode = "Ladder" THEN applyLadderExit(id, tokens, released, usdcOut - released)
        ELSE applyDiscretionaryReduce(id, tokens, released, usdcOut - released)
    BY DEF sell, realizedPnl
  <2> HIDE DEF p, released, usdcOut
  <2>2. CASE mode = "Ladder"
    BY <2>1, <2>2 DEF applyLadderExit, p
  <2>3. CASE mode # "Ladder"
    BY <2>1, <2>3 DEF applyDiscretionaryReduce, p
  <2> QED
    BY <2>2, <2>3
<1>10. Sold(p.agentId, p.vault, p.token, tokens, usdcOut, bounty, released, turnover,
            p.tokenAmount = tokens)
  <2>1. dailyTurnover' = [dailyTurnover EXCEPT ![p.agentId] = @ + turnover]
    <3>1. dailyTurnover' = [dailyTurnover EXCEPT ![p.agentId] =
                              IF mode = "ForceClose" THEN @ ELSE @ + usdcOut]
      BY DEF sell
    <3>2. dailyTurnover[p.agentId] \in Nat
      BY <1>1, <1>2 DEF AccountTypeOK
    <3> HIDE DEF p, usdcOut
    <3>3. dailyTurnover[p.agentId] + turnover =
            IF mode = "ForceClose" THEN dailyTurnover[p.agentId]
                                   ELSE dailyTurnover[p.agentId] + usdcOut
      BY <1>3, <3>2
    <3> HIDE DEF turnover
    <3> QED
      BY <3>1, <3>3
  <2>2. (tokens = p.tokenAmount) = (p.tokenAmount = tokens)
    OBVIOUS
  <2>3. /\ releaseUsed(p.agentId, released)
        /\ recordRealizedPnl(p.agentId, usdcOut - released)
        /\ keeperUsdc' = [keeperUsdc EXCEPT ![p.vault] = @ + bounty]
        /\ notifyLens(p.agentId, turnover, FALSE, tokens = p.tokenAmount)
        /\ UNCHANGED <<agentVars, feeVars, vaultTrackConfigs, tokenVars, keeperBounty>>
    BY DEF sell, realizedPnl, closesPosition
  <2>4. settleSell(p.vault, p.token, tokens, usdcOut, bounty, mode = "ForceClose")
    BY DEF sell, sellForTrade
  <2> HIDE DEF p, usdcOut, released, bounty, turnover
  <2> QED
    BY <2>1, <2>2, <2>3, <2>4
    DEF Sold, settleSell, pullToken, netProceeds, releaseUsed, recordRealizedPnl
<1> HIDE DEF p, usdcOut, released, bounty, turnover, idx
<1>11. SaleOf(id, tokens, usdcOut, bounty, released, turnover, idx)
  BY <1>8, <1>9, <1>10 DEF SaleOf, p
<1>12. idx = IF mode = "Ladder" THEN positions[id].nextRuleIndex + 1
                                ELSE positions[id].nextRuleIndex
  BY DEF idx, p
<1> QED
  BY <1>3, <1>5, <1>6, <1>7, <1>9, <1>11, <1>12

LEMMA SaleOfKeeps ==
    ASSUME RouterInv, NEW id \in PositionIds, IsOpen(id), NEW tokens \in Nat, NEW usdcOut \in Nat,
           NEW bounty \in Nat, bounty <= usdcOut, NEW released \in Nat, NEW turnover \in Nat,
           NEW idx \in Nat, SaleOf(id, tokens, usdcOut, bounty, released, turnover, idx),
           tokens # positions[id].tokenAmount => idx < Len(exitRules[id]),
           nonces' \in [AgentIds -> Nat]
    PROVE  RouterInv'
<1> DEFINE a == positions[id].agentId
           v == positions[id].vault
           t == positions[id].token
           pnl == usdcOut - released
           closed == positions[id].tokenAmount = tokens
<1>1. /\ Sale(id, tokens, released) /\ reducePositionSize(id, tokens, released, pnl, idx)
      /\ Sold(a, v, t, tokens, usdcOut, bounty, released, turnover, closed)
  BY DEF SaleOf
<1>2. a \in AgentIds /\ v \in Vaults /\ t \in Tokens
  BY LedgerFacts
<1>3. pnl \in Int /\ closed \in BOOLEAN
  OBVIOUS
<1>4. PMInv
  BY DEF RouterInv
<1>5. PMInv'
  <2> HIDE DEF pnl
  <2> QED
    BY <1>1, <1>3, <1>4, SaleKeeps
<1>6. Moves(a, v, t, -tokens, -released, pnl, FALSE, closed)
  <2> HIDE DEF pnl
  <2> QED
    BY <1>1, <1>3, SaleLedger
<1> HIDE DEF a, v, t, closed
<1> DEFINE amount == -tokens
           cost == -released
<1>7. amount \in Int /\ cost \in Int /\ pnl \in Int
  OBVIOUS
<1>8. amount = -tokens /\ cost = -released /\ pnl = usdcOut - released
  OBVIOUS
<1>9. Moves(a, v, t, amount, cost, pnl, FALSE, closed)
  BY <1>6
<1>10. Sold(a, v, t, tokens, usdcOut, bounty, released, turnover, closed)
  BY <1>1
<1> HIDE DEF amount, cost, pnl
<1>11. CASE closed = TRUE
  <2>1. Moves(a, v, t, amount, cost, pnl, FALSE, TRUE)
    BY <1>9, <1>11
  <2>2. Sold(a, v, t, tokens, usdcOut, bounty, released, turnover, TRUE)
    BY <1>10, <1>11
  <2>3. QED
    BY <1>2, <1>5, <1>7, <1>8, <2>1, <2>2, SellKeeps
<1>12. CASE closed = FALSE
  <2>1. Moves(a, v, t, amount, cost, pnl, FALSE, FALSE)
    BY <1>9, <1>12
  <2>2. Sold(a, v, t, tokens, usdcOut, bounty, released, turnover, FALSE)
    BY <1>10, <1>12
  <2>3. QED
    BY <1>2, <1>5, <1>7, <1>8, <2>1, <2>2, SellKeeps
<1> QED
  BY <1>3, <1>11, <1>12

\* A step signs at most one intent.
LEMMA NonceSteps ==
    ASSUME RouterInv, NEW a \in AgentIds
    PROVE  /\ nonces' = nonces => nonces' \in [AgentIds -> Nat]
           /\ nonces' = [nonces EXCEPT ![a] = @ + 1] => nonces' \in [AgentIds -> Nat]
  BY DEF RouterInv, MarketTypeOK, AccountTypeOK

\* An open position has a next rule, and its last rule is to sell everything.
LEMMA RuleLeft ==
    ASSUME RouterInv, NEW id \in OpenIds
    PROVE  /\ positions[id].nextRuleIndex < Len(exitRules[id])
           /\ Len(exitRules[id]) \in Nat
           /\ exitRules[id][Len(exitRules[id])].exitBps = MAX_BPS
<1>1. LadderNeverExhausted /\ PMTypeOK
  BY DEF RouterInv, PMInv
<1>2. exitRules \in Seq(Seq(ExitRule)) /\ id \in DOMAIN exitRules
  BY <1>1 DEF PMTypeOK, OpenIds, PositionIds
<1> QED
  BY <1>1, <1>2 DEF LadderNeverExhausted, HasNextExitRule

LEMMA ReducePositionKeeps ==
    ASSUME RouterInv, NEW id \in PositionIds, NEW exitBps \in ExitShares,
           ReducePosition(id, exitBps)
    PROVE  RouterInv'
<1> DEFINE a == positions[id].agentId
           tokens == MulDiv(positions[id].tokenAmount, exitBps, MAX_BPS)
<1>1. /\ IsOpen(id) /\ tokens > 0 /\ sell(id, tokens, "Discretionary")
      /\ nonces' = [nonces EXCEPT ![a] = @ + 1] /\ exitBps \in 1 .. MAX_BPS
  BY DEF ReducePosition
<1>2. a \in AgentIds /\ positions[id].tokenAmount \in Nat
  BY LedgerFacts
<1>3. exitBps \in Nat /\ MAX_BPS \in Nat /\ MAX_BPS > 0
  <2>1. MAX_BPS \in Nat /\ MAX_BPS > 0
    BY DEF MAX_BPS
  <2> QED
    BY <1>1, <2>1
<1>4. tokens \in Nat
  BY <1>2, <1>3, MulDivNat
<1> HIDE DEF tokens, a
<1>5. PICK usdcOut, bounty, released, turnover, idx \in Nat :
        /\ bounty <= usdcOut
        /\ idx = IF "Discretionary" = "Ladder" THEN positions[id].nextRuleIndex + 1
                                               ELSE positions[id].nextRuleIndex
        /\ SaleOf(id, tokens, usdcOut, bounty, released, turnover, idx)
  BY <1>1, <1>4, SellParts
<1>6. id \in OpenIds
  BY <1>1 DEF OpenIds
<1>7. idx < Len(exitRules[id])
  BY <1>5, <1>6, RuleLeft
<1>8. nonces' \in [AgentIds -> Nat]
  BY <1>1, <1>2, NonceSteps
<1> QED
  BY <1>1, <1>4, <1>5, <1>7, <1>8, SaleOfKeeps

LEMMA ForceCloseKeeps ==
    ASSUME RouterInv, NEW id \in PositionIds, ForceClose(id)
    PROVE  RouterInv'
<1> DEFINE tokens == positions[id].tokenAmount
<1>1. IsOpen(id) /\ sell(id, tokens, "ForceClose") /\ UNCHANGED nonces
  BY DEF ForceClose
<1>2. /\ positions[id].agentId \in AgentIds /\ tokens \in Nat /\ tokens > 0
  BY <1>1, LedgerFacts
<1>3. tokens = positions[id].tokenAmount
  OBVIOUS
<1> HIDE DEF tokens
<1>4. PICK usdcOut, bounty, released, turnover, idx \in Nat :
        /\ bounty <= usdcOut
        /\ SaleOf(id, tokens, usdcOut, bounty, released, turnover, idx)
  BY <1>1, <1>2, SellParts
<1>5. nonces' \in [AgentIds -> Nat]
  BY <1>1, <1>2, NonceSteps
<1> QED
  BY <1>1, <1>2, <1>3, <1>4, <1>5, SaleOfKeeps

\* The rule a keeper executes is the last one only if it sells everything.
LEMMA LadderSells ==
    ASSUME RouterInv, NEW id \in OpenIds,
           MulDiv(positions[id].tokenAmount, getNextExitRule(id).exitBps, MAX_BPS)
             # positions[id].tokenAmount
    PROVE  positions[id].nextRuleIndex + 1 < Len(exitRules[id])
<1>1. /\ positions[id].nextRuleIndex < Len(exitRules[id])
      /\ positions[id].nextRuleIndex \in Nat /\ Len(exitRules[id]) \in Nat
      /\ exitRules[id][Len(exitRules[id])].exitBps = MAX_BPS
      /\ positions[id].tokenAmount \in Nat
  BY RuleLeft, LedgerFacts DEF OpenIds
<1>2. CASE positions[id].nextRuleIndex + 1 = Len(exitRules[id])
  <2>1. getNextExitRule(id).exitBps = MAX_BPS
    BY <1>1, <1>2 DEF getNextExitRule
  <2>2. MAX_BPS \in Nat /\ MAX_BPS > 0
    BY DEF MAX_BPS
  <2>3. MulDiv(positions[id].tokenAmount, MAX_BPS, MAX_BPS) = positions[id].tokenAmount
    <3> DEFINE held == positions[id].tokenAmount
               all == MAX_BPS
    <3>1. held \in Nat /\ all \in Nat /\ all > 0
      BY <1>1, <2>2
    <3> HIDE DEF held, all
    <3>2. MulDiv(held, all, all) = held
      BY <3>1, ShareFacts
    <3> QED
      BY <3>2 DEF held, all
  <2> QED
    BY <2>1, <2>3
<1> QED
  BY <1>1, <1>2

LEMMA NextRuleType ==
    ASSUME RouterInv, NEW id \in PositionIds, HasNextExitRule(id)
    PROVE  getNextExitRule(id).exitBps \in Nat
<1>1. exitRules \in Seq(Seq(ExitRule)) /\ id \in DOMAIN exitRules
  BY DEF RouterInv, PMInv, PMTypeOK, PositionIds
<1>2. positions[id].nextRuleIndex + 1 \in DOMAIN exitRules[id]
  BY <1>1, LedgerFacts DEF HasNextExitRule
<1>3. getNextExitRule(id) \in ExitRule
  BY <1>1, <1>2 DEF getNextExitRule
<1> QED
  BY <1>3 DEF ExitRule

LEMMA ExecuteExitKeeps ==
    ASSUME RouterInv, NEW id \in PositionIds, ExecuteExit(id)
    PROVE  RouterInv'
<1> DEFINE rule == getNextExitRule(id)
           tokens == MulDiv(positions[id].tokenAmount, rule.exitBps, MAX_BPS)
<1>1. IsOpen(id) /\ HasNextExitRule(id) /\ tokens > 0 /\ sell(id, tokens, "Ladder")
      /\ UNCHANGED nonces
  BY DEF ExecuteExit
<1>2. /\ positions[id].agentId \in AgentIds /\ positions[id].tokenAmount \in Nat
      /\ positions[id].nextRuleIndex \in Nat
  BY LedgerFacts
<1>3. id \in OpenIds
  BY <1>1 DEF OpenIds
<1>4. tokens \in Nat
  <2>1. rule.exitBps \in Nat
    BY <1>1, NextRuleType
  <2>2. MAX_BPS \in Nat /\ MAX_BPS > 0
    BY DEF MAX_BPS
  <2> HIDE DEF rule
  <2> QED
    BY <1>2, <2>1, <2>2, MulDivNat
<1>5. tokens # positions[id].tokenAmount => positions[id].nextRuleIndex + 1 < Len(exitRules[id])
  BY <1>3, LadderSells
<1> HIDE DEF tokens
<1>6. PICK usdcOut, bounty, released, turnover, idx \in Nat :
        /\ bounty <= usdcOut
        /\ idx = IF "Ladder" = "Ladder" THEN positions[id].nextRuleIndex + 1
                                        ELSE positions[id].nextRuleIndex
        /\ SaleOf(id, tokens, usdcOut, bounty, released, turnover, idx)
  BY <1>1, <1>4, SellParts
<1>7. nonces' \in [AgentIds -> Nat]
  BY <1>1, <1>2, NonceSteps
<1>8. tokens # positions[id].tokenAmount => idx < Len(exitRules[id])
  BY <1>5, <1>6
<1> QED
  BY <1>1, <1>4, <1>6, <1>7, <1>8, SaleOfKeeps

-----------------------------------------------------------------------------
(* The steps that are no trade. *)

\* Books depend on these variables only; a liquidity provider moves idleAssets and
\* lpUsdc together.
LEMMA BooksStay ==
    ASSUME RouterInv, VaultTypeOK',
           UNCHANGED <<positions, openPositionIdsByAgent, tokenBalance, keeperUsdc, lifetimePnl,
                       tradeCount, positionsOpened, positionsClosed>>,
           \A v \in Vaults : idleAssets'[v] - lpUsdc'[v] = idleAssets[v] - lpUsdc[v]
    PROVE  Books'
<1>1. /\ \A a : Realized(a)' = Realized(a) /\ Opened(a)' = Opened(a)
      /\ \A v : Outlay(v)' = Outlay(v)
      /\ \A v, t : Held(v, t)' = Held(v, t)
  BY SumsStay
<1>2. Books
  BY DEF RouterInv
<1>3. InventoryBacksPositions'
  BY <1>1, <1>2 DEF Books, InventoryBacksPositions
<1>4. CashConserved'
  <2> SUFFICES ASSUME NEW v \in Vaults
               PROVE  idleAssets'[v] + Outlay(v)' = lpUsdc'[v] - keeperUsdc'[v]
    BY DEF CashConserved
  <2>1. idleAssets[v] + Outlay(v) = lpUsdc[v] - keeperUsdc[v]
    BY <1>2 DEF Books, CashConserved
  <2>2. /\ idleAssets[v] \in Int /\ lpUsdc[v] \in Int /\ keeperUsdc[v] \in Int
        /\ idleAssets'[v] \in Int /\ lpUsdc'[v] \in Int /\ keeperUsdc'[v] = keeperUsdc[v]
    BY DEF RouterInv, MarketTypeOK, VaultTypeOK, AccountTypeOK
  <2>3. Outlay(v) \in Int
    BY SumTypes DEF RouterInv, PMInv, PMTypeOK
  <2>4. Outlay(v)' = Outlay(v) /\ idleAssets'[v] - lpUsdc'[v] = idleAssets[v] - lpUsdc[v]
    BY <1>1
  <2> QED
    BY <2>1, <2>2, <2>3, <2>4
<1>5. PnlIsSum'
  BY <1>1, <1>2 DEF Books, PnlIsSum
<1>6. LensCountsOpen'
  <2>1. LensCountsOpen
    BY <1>2 DEF Books
  <2>2. PositionIds' = PositionIds
    BY DEF PositionIds
  <2> QED
    BY <2>1, <2>2 DEF LensCountsOpen
<1> QED
  BY <1>3, <1>4, <1>5, <1>6 DEF Books

\* A step that leaves the position manager alone.
LEMMA NoTradeKeeps ==
    ASSUME RouterInv, UNCHANGED pmVars, RegistryInv', RegisteredIds' = AgentIds, MarketTypeOK',
           UNCHANGED <<tokenBalance, keeperUsdc, lifetimePnl,
                       tradeCount, positionsOpened, positionsClosed>>,
           \A v \in Vaults : idleAssets'[v] - lpUsdc'[v] = idleAssets[v] - lpUsdc[v]
    PROVE  RouterInv'
<1>1. PMInv'
  BY PMNextKeeps DEF RouterInv
<1>2. Books'
  BY BooksStay DEF MarketTypeOK, pmVars
<1> QED
  BY <1>1, <1>2 DEF RouterInv

\* The registry's part when a step leaves it alone.
LEMMA RegistryStays ==
    ASSUME RouterInv, UNCHANGED registryVars
    PROVE  RegistryInv' /\ RegisteredIds' = AgentIds
<1>1. RegistryInv'
  BY RegistryNextKeeps DEF RouterInv
<1> QED
  BY <1>1 DEF RouterInv, registryVars, agentVars, RegisteredIds

LEMMA UpdateExitLadderKeeps ==
    ASSUME RouterInv, NEW id \in PositionIds, NEW exits \in SignedLadders,
           UpdateExitLadder(id, exits)
    PROVE  RouterInv'
<1> DEFINE a == positions[id].agentId
           config == vaultTrackConfigs[positions[id].vault][agents[a].track]
<1>1. /\ ExitRulesAllowed(exits, config) /\ updatePendingExitRules(id, exits)
      /\ nonces' = [nonces EXCEPT ![a] = @ + 1]
      /\ UNCHANGED <<dailyTurnover, dailyPnl, lifetimePnl, keeperBounty, keeperUsdc,
                     registryVars, vaultVars, lensVars, tokenVars>>
  BY DEF UpdateExitLadder
<1>2. a \in AgentIds
  BY LedgerFacts
<1> HIDE DEF config
<1>3. exits \in Seq(ExitRule) /\ Len(exits) > 0 /\ exits[Len(exits)].exitBps = MAX_BPS
  BY <1>1, LadderAccepted
<1>4. PMInv'
  BY <1>1, <1>3, UpdateRulesKeeps DEF RouterInv
<1>5. RegistryInv' /\ RegisteredIds' = AgentIds
  BY <1>1, RegistryStays
<1>6. nonces' \in [AgentIds -> Nat]
  BY <1>1, <1>2, NonceSteps
<1>7. MarketTypeOK'
  BY <1>1, <1>6 DEF RouterInv, MarketTypeOK, TokenTypeOK, VaultTypeOK, AccountTypeOK, LensTypeOK,
                    vaultVars, inventoryVars, lensVars, tokenVars
<1>8. Books'
  BY <1>1, <1>7, BooksStay
  DEF updatePendingExitRules, MarketTypeOK, vaultVars, inventoryVars, lensVars
<1> QED
  BY <1>4, <1>5, <1>7, <1>8 DEF RouterInv

LEMMA GovernanceKeeps ==
    ASSUME RouterInv, GovernanceStep
    PROVE  RouterInv'
<1>1. RegistryNext
  BY DEF GovernanceStep, RegistryNext, AdminStep
<1>2. RegistryInv'
  BY <1>1, RegistryNextKeeps DEF RouterInv
<1>3. UNCHANGED <<marketVars, tokenVars, routerVars>>
  BY DEF GovernanceStep
<1>4. RegisteredIds' = RegisteredIds
  <2>1. CASE LifecycleStep
    <3>1. PICK b \in RegisteredIds :
            \/ \E status \in StatusInputs : SetAgentStatus(b, status)
            \/ \E payer \in Accounts, feeAlreadyPaid \in BOOLEAN :
                  PromoteAgent(b, payer, feeAlreadyPaid)
            \/ \E status \in AllocationStatusInputs : SetAllocationStatus(b, status)
            \/ \E used \in UsedInputs : SetAllocationUsed(b, used)
      BY <2>1 DEF LifecycleStep
    <3>2. \A f : DOMAIN [agents EXCEPT ![b].status = f] = DOMAIN agents
      OBVIOUS
    <3>3. \A f : DOMAIN [agents EXCEPT ![b].track = f] = DOMAIN agents
      OBVIOUS
    <3> QED
      BY <3>1, <3>2, <3>3
      DEF SetAgentStatus, PromoteAgent, SetAllocationStatus, SetAllocationUsed, agentVars,
          RegisteredIds
  <2>2. CASE UNCHANGED agents
    BY <2>2 DEF RegisteredIds
  <2> QED
    BY <2>1, <2>2 DEF GovernanceStep, SetRegistryPaused, SetVaultTrackConfig, agentVars
<1>5. RegisteredIds' = AgentIds
  BY <1>4 DEF RouterInv
<1>6. MarketTypeOK'
  BY <1>3 DEF RouterInv, MarketTypeOK, TokenTypeOK, VaultTypeOK, AccountTypeOK, LensTypeOK,
              marketVars, vaultVars, inventoryVars, lensVars, tokenVars, routerVars
<1> QED
  BY <1>2, <1>3, <1>5, <1>6, NoTradeKeeps
  DEF marketVars, vaultVars, inventoryVars, lensVars, routerVars

LEMMA VaultStepKeeps ==
    ASSUME RouterInv, VaultStep
    PROVE  RouterInv'
<1>1. UNCHANGED <<registryVars, pmVars, lensVars, tokenVars, routerVars, inventoryVars, lpUsdc>>
  BY DEF VaultStep, setTradingPaused, enableToken, setTokenEnabled
<1>2. TokenTypeOK /\ VaultTypeOK /\ AccountTypeOK /\ LensTypeOK
  BY DEF RouterInv, MarketTypeOK
<1>3. /\ mandateToken' \in [Vaults -> [Tokens -> {"Unlisted", "Enabled", "Disabled"}]]
      /\ tradingPaused' \in [Vaults -> BOOLEAN]
  <2>1. PICK v \in Vaults :
          \/ \E paused \in BOOLEAN : setTradingPaused(v, paused)
          \/ \E t \in Tokens : enableToken(v, t)
          \/ \E t \in Tokens, enabled \in BOOLEAN : setTokenEnabled(v, t, enabled)
    BY DEF VaultStep
  <2>2. ASSUME NEW t \in Tokens, NEW s \in {"Unlisted", "Enabled", "Disabled"},
               mandateToken' = [mandateToken EXCEPT ![v][t] = s], UNCHANGED tradingPaused
        PROVE  /\ mandateToken' \in [Vaults -> [Tokens -> {"Unlisted", "Enabled", "Disabled"}]]
               /\ tradingPaused' \in [Vaults -> BOOLEAN]
    BY <1>2, <2>2 DEF VaultTypeOK
  <2>3. CASE \E paused \in BOOLEAN : setTradingPaused(v, paused)
    BY <1>2, <2>3 DEF VaultTypeOK, setTradingPaused
  <2>4. CASE \E t \in Tokens : enableToken(v, t)
    BY <2>2, <2>4 DEF enableToken
  <2>5. CASE \E t \in Tokens, enabled \in BOOLEAN : setTokenEnabled(v, t, enabled)
    <3>1. PICK t \in Tokens, enabled \in BOOLEAN : setTokenEnabled(v, t, enabled)
      BY <2>5
    <3> DEFINE s == IF enabled THEN "Enabled" ELSE "Disabled"
    <3>2. /\ s \in {"Unlisted", "Enabled", "Disabled"}
          /\ mandateToken' = [mandateToken EXCEPT ![v][t] = s] /\ UNCHANGED tradingPaused
      BY <3>1 DEF setTokenEnabled
    <3> HIDE DEF s
    <3> QED
      BY <2>2, <3>2
  <2> QED
    BY <2>1, <2>3, <2>4, <2>5
<1>4. MarketTypeOK'
  BY <1>1, <1>2, <1>3 DEF MarketTypeOK, TokenTypeOK, VaultTypeOK, AccountTypeOK, LensTypeOK,
                          inventoryVars, lensVars, tokenVars, routerVars
<1>5. RegistryInv' /\ RegisteredIds' = AgentIds
  BY <1>1, RegistryStays
<1> QED
  BY <1>1, <1>4, <1>5, NoTradeKeeps DEF inventoryVars, lensVars, routerVars

LEMMA LiquidityKeeps ==
    ASSUME RouterInv, LiquidityStep
    PROVE  RouterInv'
<1>1. UNCHANGED <<registryVars, pmVars, lensVars, tokenVars, routerVars,
                  tokenBalance, mandateToken, tradingPaused>>
  BY DEF LiquidityStep, depositIdle, withdrawIdle
<1>2. TokenTypeOK /\ VaultTypeOK /\ AccountTypeOK /\ LensTypeOK
  BY DEF RouterInv, MarketTypeOK
<1>3. PICK v \in Vaults, usdc \in LpAmounts : depositIdle(v, usdc) \/ withdrawIdle(v, usdc)
  BY DEF LiquidityStep
<1>4. usdc \in Nat
  BY RouterAssumption
<1>5. PICK d \in Int : /\ idleAssets[v] + d \in Nat
                       /\ idleAssets' = [idleAssets EXCEPT ![v] = @ + d]
                       /\ lpUsdc' = [lpUsdc EXCEPT ![v] = @ + d]
  <2>1. idleAssets[v] \in Nat /\ lpUsdc[v] \in Int
    BY <1>2 DEF VaultTypeOK
  <2>2. CASE depositIdle(v, usdc)
    <3>1. usdc \in Int /\ idleAssets[v] + usdc \in Nat
      BY <1>4, <2>1
    <3>2. /\ idleAssets' = [idleAssets EXCEPT ![v] = @ + usdc]
          /\ lpUsdc' = [lpUsdc EXCEPT ![v] = @ + usdc]
      BY <2>2 DEF depositIdle
    <3> QED
      BY <3>1, <3>2
  <2>3. CASE withdrawIdle(v, usdc)
    <3> DEFINE d == -usdc
    <3>1. /\ d \in Int /\ idleAssets[v] + d \in Nat
          /\ idleAssets[v] - usdc = idleAssets[v] + d /\ lpUsdc[v] - usdc = lpUsdc[v] + d
      BY <1>4, <2>1, <2>3 DEF withdrawIdle
    <3> HIDE DEF d
    <3>2. /\ idleAssets' = [idleAssets EXCEPT ![v] = @ + d]
          /\ lpUsdc' = [lpUsdc EXCEPT ![v] = @ + d]
      BY <2>3, <3>1 DEF withdrawIdle
    <3> QED
      BY <3>1, <3>2
  <2> QED
    BY <1>3, <2>2, <2>3
<1>6. VaultTypeOK'
  BY <1>1, <1>2, <1>5 DEF VaultTypeOK
<1>7. MarketTypeOK'
  BY <1>1, <1>2, <1>6 DEF MarketTypeOK, TokenTypeOK, AccountTypeOK, LensTypeOK,
                          lensVars, tokenVars, routerVars
<1>8. RegistryInv' /\ RegisteredIds' = AgentIds
  BY <1>1, RegistryStays
<1>9. \A w \in Vaults : idleAssets'[w] - lpUsdc'[w] = idleAssets[w] - lpUsdc[w]
  BY <1>2, <1>5 DEF VaultTypeOK
<1> QED
  BY <1>1, <1>7, <1>8, <1>9, NoTradeKeeps DEF lensVars, routerVars

\* Token administrators, the oracle, midnight and the bounty.
LEMMA OutsideKeeps ==
    ASSUME RouterInv, TokenStep \/ OracleStep \/ NextDay \/ \E b \in Bounties : SetKeeperBounty(b)
    PROVE  RouterInv'
<1>1. UNCHANGED <<registryVars, marketVars, keeperUsdc, lifetimePnl>>
  BY DEF TokenStep, OracleStep, NextDay, SetKeeperBounty, routerVars
<1>2. TokenTypeOK /\ VaultTypeOK /\ AccountTypeOK /\ LensTypeOK
  BY DEF RouterInv, MarketTypeOK
<1>3. TokenTypeOK'
  <2>1. CASE TokenStep
    BY <1>2, <2>1 DEF TokenTypeOK, TokenStep, registerToken, setTokenActive
  <2>2. CASE OracleStep
    BY <1>2, <2>2 DEF TokenTypeOK, OracleStep, goStale, publishPrice
  <2>3. CASE UNCHANGED tokenVars
    BY <1>2, <2>3 DEF TokenTypeOK, tokenVars
  <2> QED
    BY <2>1, <2>2, <2>3 DEF NextDay, SetKeeperBounty
<1>4. AccountTypeOK'
  <2>1. CASE UNCHANGED routerVars
    BY <1>2, <2>1 DEF AccountTypeOK, routerVars
  <2>2. CASE NextDay
    BY <1>2, <2>2 DEF AccountTypeOK, NextDay
  <2>3. CASE \E b \in Bounties : SetKeeperBounty(b)
    <3>1. keeperBounty' \in (0 .. MAX_BPS) \X Nat
      BY <2>3, RouterAssumption DEF SetKeeperBounty
    <3> QED
      BY <1>2, <2>3, <3>1 DEF AccountTypeOK, SetKeeperBounty
  <2> QED
    BY <2>1, <2>2, <2>3 DEF TokenStep, OracleStep
<1>5. MarketTypeOK'
  BY <1>1, <1>2, <1>3, <1>4 DEF MarketTypeOK, VaultTypeOK, LensTypeOK,
                                marketVars, vaultVars, inventoryVars, lensVars
<1>6. RegistryInv' /\ RegisteredIds' = AgentIds
  BY <1>1, RegistryStays
<1> QED
  BY <1>1, <1>5, <1>6, NoTradeKeeps DEF marketVars, vaultVars, inventoryVars, lensVars

LEMMA StutterKeeps ==
    ASSUME RouterInv, UNCHANGED protocolVars
    PROVE  RouterInv'
<1>1. MarketTypeOK'
  BY DEF RouterInv, MarketTypeOK, TokenTypeOK, VaultTypeOK, AccountTypeOK, LensTypeOK,
         protocolVars, marketVars, vaultVars, inventoryVars, lensVars, tokenVars, routerVars
<1>2. RegistryInv' /\ RegisteredIds' = AgentIds
  BY RegistryStays DEF protocolVars
<1> QED
  BY <1>1, <1>2, NoTradeKeeps
  DEF protocolVars, marketVars, vaultVars, inventoryVars, lensVars, routerVars

-----------------------------------------------------------------------------
(* The specification. *)

LEMMA RouterNextKeeps == RouterInv /\ [RouterNext]_protocolVars => RouterInv'
<1> SUFFICES ASSUME RouterInv, [RouterNext]_protocolVars PROVE RouterInv'
  OBVIOUS
<1>1. CASE AgentStep
  BY <1>1, OpenPositionKeeps, AddToPositionKeeps, ReducePositionKeeps, UpdateExitLadderKeeps
  DEF AgentStep
<1>2. CASE KeeperStep \/ OperatorStep
  BY <1>2, ExecuteExitKeeps, ForceCloseKeeps DEF KeeperStep, OperatorStep
<1>3. CASE Environment
  BY <1>3, GovernanceKeeps, VaultStepKeeps, LiquidityKeeps, OutsideKeeps DEF Environment
<1>4. CASE UNCHANGED protocolVars
  BY <1>4, StutterKeeps
<1> QED
  BY <1>1, <1>2, <1>3, <1>4 DEF RouterNext, Trade

LEMMA InitRegistry == RouterInit => RegistryInv /\ RegisteredIds = AgentIds
<1> SUFFICES ASSUME RouterInit PROVE RegistryInv /\ RegisteredIds = AgentIds
  OBVIOUS
<1> DEFINE N == Cardinality(AgentIds)
<1>1. AgentIds = 1 .. N /\ N \in Nat
  <2>1. N \in Nat
    BY IdentitiesAssumption, FS_CardinalityType
  <2> QED
    BY <2>1, RouterAssumption
<1>2. PICK x \in Accounts, vault \in AgentVaults :
        /\ agents = [a \in 1 .. N |->
                       [owner |-> x, signer |-> x, vault |-> vault[a], track |-> CHALLENGE,
                        status |-> "Active", erc8004 |-> NoErc8004]]
        /\ agentIdsByOwner = [y \in Accounts |-> IF y = x THEN [a \in 1 .. N |-> a] ELSE <<>>]
        /\ allocations = [a \in AgentIds |->
                            [vault |-> vault[a], trackId |-> CHALLENGE,
                             cap |-> initialCap(vault[a], CHALLENGE),
                             used |-> 0, status |-> "Active"]]
        /\ totalAgentCaps =
             [v \in Vaults |->
                initialCap(v, CHALLENGE) * Cardinality({a \in AgentIds : vault[a] = v})]
  BY DEF RouterInit
<1>3. vault \in [AgentIds -> Vaults]
  BY RouterAssumption
<1>4. /\ agentIdByErc8004 = [e \in Erc8004Ids |-> 0] /\ signerNonces = [y \in Accounts |-> 0]
      /\ registryPaused = FALSE /\ erc8004Owner \in [Erc8004Ids -> Accounts]
      /\ vaultTrackConfigs = InitialConfig /\ FeeInit
  BY DEF RouterInit
<1> HIDE DEF N
<1>5. DOMAIN agents = AgentIds /\ \A a \in AgentIds :
        agents[a] = [owner |-> x, signer |-> x, vault |-> vault[a], track |-> CHALLENGE,
                     status |-> "Active", erc8004 |-> NoErc8004]
  BY <1>1, <1>2
<1>6. \A a \in AgentIds : agents[a] \in Agent
  BY <1>3, <1>5 DEF Agent, Track, CHALLENGE, AgentStatus
<1>7. agents \in Seq(Agent)
  BY <1>1, <1>2, <1>5, <1>6
<1>8. AgentTypeOK
  <2>1. [a \in 1 .. N |-> a] \in Seq(Nat)
    BY <1>1
  <2>2. agentIdsByOwner \in [Accounts -> Seq(Nat)]
    <3> DEFINE all == [a \in 1 .. N |-> a]
    <3> HIDE DEF all
    <3>1. agentIdsByOwner = [y \in Accounts |-> IF y = x THEN all ELSE <<>>]
      BY <1>2 DEF all
    <3>2. all \in Seq(Nat) /\ <<>> \in Seq(Nat)
      BY <2>1 DEF all
    <3> QED
      BY <3>1, <3>2
  <2> QED
    BY <1>4, <1>5, <1>7, <2>2 DEF AgentTypeOK, RegisteredIds
<1>9. OwnerIndexExact
  <2>1. /\ agentIdsByOwner[x] = [a \in 1 .. N |-> a]
        /\ \A y \in Accounts : y # x => agentIdsByOwner[y] = <<>>
    BY <1>2
  <2>2. /\ DOMAIN agentIdsByOwner[x] = AgentIds
        /\ \A i \in AgentIds : agentIdsByOwner[x][i] = i
        /\ \A y \in Accounts : y # x => DOMAIN agentIdsByOwner[y] = {}
    BY <1>1, <2>1
  <2>3. \A a \in AgentIds : agents[a].owner = x
    BY <1>5
  <2> QED
    BY <1>5, <2>2, <2>3 DEF OwnerIndexExact, RegisteredIds
<1>10. LinkExact
  <2>1. \A a \in AgentIds : agents[a].erc8004 = NoErc8004
    BY <1>5
  <2> QED
    BY <1>4, <1>5, <2>1 DEF LinkExact, RegisteredIds
<1>11. FeeTypeOK
  BY <1>4, FeeAssumption DEF FeeInit, FeeTypeOK
<1>12. AllocationTypeOK
  <2>1. /\ InitialConfig \in [Vaults -> [Track -> VaultTrackConfig]] /\ CHALLENGE \in Track
    BY ConfigsAssumption DEF Track, CHALLENGE
  <2>2. \A v \in Vaults : initialCap(v, CHALLENGE) \in Nat
    BY <1>4, <2>1 DEF initialCap, VaultTrackConfig
  <2>3. DOMAIN allocations = AgentIds
    BY <1>2
  <2>4. \A a \in AgentIds : allocations[a] \in Allocation
    <3> SUFFICES ASSUME NEW a \in AgentIds PROVE allocations[a] \in Allocation
      OBVIOUS
    <3> DEFINE cap == initialCap(vault[a], CHALLENGE)
    <3>1. vault[a] \in Vaults /\ cap \in Nat
      BY <1>3, <2>2
    <3>2. allocations[a] = [vault |-> vault[a], trackId |-> CHALLENGE, cap |-> cap,
                            used |-> 0, status |-> "Active"]
      BY <1>2
    <3> HIDE DEF cap
    <3> QED
      BY <2>1, <3>1, <3>2 DEF Allocation, AllocationStatus
  <2>5. allocations \in [DOMAIN allocations -> Allocation]
    BY <1>2, <2>3, <2>4
  <2>6. totalAgentCaps \in [Vaults -> Nat]
    <3> SUFFICES ASSUME NEW v \in Vaults
                 PROVE  initialCap(v, CHALLENGE) * Cardinality({a \in AgentIds : vault[a] = v})
                          \in Nat
      BY <1>2
    <3> DEFINE cap == initialCap(v, CHALLENGE)
               n == Cardinality({a \in AgentIds : vault[a] = v})
    <3>1. IsFiniteSet({a \in AgentIds : vault[a] = v})
      BY IdentitiesAssumption, FS_Subset
    <3>2. cap \in Nat /\ n \in Nat
      BY <2>2, <3>1, FS_CardinalityType
    <3> HIDE DEF cap, n
    <3>3. cap * n \in Nat
      BY <3>2
    <3> QED
      BY <3>3 DEF cap, n
  <2> QED
    BY <1>4, <2>1, <2>3, <2>5, <2>6 DEF AllocationTypeOK
<1>13. AllocationTracksAgent
  <2>1. DOMAIN allocations = AgentIds
        /\ \A a \in AgentIds : allocations[a].vault = vault[a] /\ allocations[a].trackId = CHALLENGE
    BY <1>2
  <2> QED
    BY <1>5, <2>1 DEF AllocationTracksAgent, RegisteredIds
<1> QED
  BY <1>5, <1>8, <1>9, <1>10, <1>11, <1>12, <1>13
  DEF RegistryInv, AgentInv, AllocationInv, RegisteredIds

\* No position, so every sum over positions is zero.
LEMMA InitBooks == RouterInit => Books
<1> SUFFICES ASSUME RouterInit PROVE Books
  OBVIOUS
<1>1. positions = <<>> /\ PositionIds = {}
  BY DEF RouterInit, PMInit, PositionIds
<1>2. /\ \A a : Realized(a) = 0 /\ {id \in PositionIds : positions[id].agentId = a} = {}
      /\ \A v : Outlay(v) = 0
      /\ \A v, t : Held(v, t) = 0
  <2>1. \A f : SumFunctionOnSet(f, {}) = 0
    BY SumEmpty
  <2>2. \A a : Realized(a) = 0
    <3> SUFFICES ASSUME NEW a PROVE Realized(a) = 0
      OBVIOUS
    <3>1. {id \in PositionIds : positions[id].agentId = a} = {}
      BY <1>1
    <3> QED
      BY <2>1, <3>1 DEF Realized
  <2>3. \A v : Outlay(v) = 0
    <3> SUFFICES ASSUME NEW v PROVE Outlay(v) = 0
      OBVIOUS
    <3>1. {id \in PositionIds : positions[id].vault = v} = {}
      BY <1>1
    <3> QED
      BY <2>1, <3>1 DEF Outlay
  <2>4. \A v, t : Held(v, t) = 0
    <3> SUFFICES ASSUME NEW v, NEW t PROVE Held(v, t) = 0
      OBVIOUS
    <3>1. {id \in PositionIds : positions[id].vault = v /\ positions[id].token = t} = {}
      BY <1>1
    <3> QED
      BY <2>1, <3>1 DEF Held
  <2> QED
    BY <1>1, <2>2, <2>3, <2>4
<1>3. InventoryBacksPositions
  BY <1>2 DEF RouterInit, InventoryBacksPositions
<1>4. CashConserved
  BY <1>2, RouterAssumption DEF RouterInit, CashConserved
<1>5. PnlIsSum
  BY <1>2 DEF RouterInit, PnlIsSum
<1>6. LensCountsOpen
  <2>1. Cardinality({}) = 0
    BY FS_EmptySet
  <2>2. \A a \in AgentIds : /\ positionsOpened[a] = 0 /\ positionsClosed[a] = 0
                            /\ tradeCount[a] = 0 /\ openPositionIdsByAgent[a] = <<>>
    BY DEF RouterInit, LensInit, PMInit
  <2> SUFFICES ASSUME NEW a \in AgentIds
               PROVE  /\ positionsOpened[a] - positionsClosed[a] = Len(openPositionIdsByAgent[a])
                      /\ positionsOpened[a] = Cardinality({id \in PositionIds :
                                                             positions[id].agentId = a})
                      /\ tradeCount[a] >= positionsOpened[a] + positionsClosed[a]
    BY DEF LensCountsOpen
  <2>3. Len(openPositionIdsByAgent[a]) = 0
    BY <2>2
  <2>4. Cardinality({id \in PositionIds : positions[id].agentId = a}) = 0
    BY <1>2, <2>1
  <2> QED
    BY <2>2, <2>3, <2>4
<1> QED
  BY <1>3, <1>4, <1>5, <1>6 DEF Books

LEMMA RouterStarts == RouterInit => RouterInv
<1> SUFFICES ASSUME RouterInit PROVE RouterInv
  OBVIOUS
<1>1. PMInv
  BY InitHolds DEF RouterInit
<1>2. TokenTypeOK
  BY DEF RouterInit, TokenTypeOK
<1>3. VaultTypeOK
  BY RouterAssumption DEF RouterInit, VaultTypeOK
<1>4. AccountTypeOK
  <2>1. <<0, 0>> \in (0 .. MAX_BPS) \X Nat
    <3>1. 0 \in 0 .. MAX_BPS
      BY DEF MAX_BPS
    <3> QED
      BY <3>1
  <2> QED
    BY <2>1 DEF RouterInit, AccountTypeOK
<1>5. LensTypeOK
  BY DEF RouterInit, LensInit, LensTypeOK
<1> QED
  BY <1>1, <1>2, <1>3, <1>4, <1>5, InitRegistry, InitBooks DEF RouterInv, MarketTypeOK

\* The invariant, whatever the agents, the operator and the administrators do.
THEOREM RouterInvariant == RouterSpec => []RouterInv
  BY RouterStarts, RouterNextKeeps, PTL DEF RouterSpec

\* The storage of all contracts keeps its types: no balance goes below zero.
THEOREM RouterTypeCorrect == RouterSpec => []RouterTypeOK
  BY RouterInvariant, RouterTypes, PTL

-----------------------------------------------------------------------------
(* The books, one by one. *)

\* A vault holds exactly the tokens of the positions opened from it, however many
\* vaults and agents share the token ledger.
THEOREM InventoryCorrect == RouterSpec => []InventoryBacksPositions
<1>1. RouterInv => InventoryBacksPositions
  BY DEF RouterInv, Books
<1> QED
  BY <1>1, RouterInvariant, PTL

\* No USDC appears or is lost between vaults, positions, PnL and keepers.
THEOREM CashCorrect == RouterSpec => []CashConserved
<1>1. RouterInv => CashConserved
  BY DEF RouterInv, Books
<1> QED
  BY <1>1, RouterInvariant, PTL

\* The router and the position manager record the same PnL.
THEOREM PnlCorrect == RouterSpec => []PnlIsSum
<1>1. RouterInv => PnlIsSum
  BY DEF RouterInv, Books
<1> QED
  BY <1>1, RouterInvariant, PTL

\* The lens, told of one trade at a time, counts what the ledger holds.
THEOREM LensCorrect == RouterSpec => []LensCountsOpen
<1>1. RouterInv => LensCountsOpen
  BY DEF RouterInv, Books
<1> QED
  BY <1>1, RouterInvariant, PTL

-----------------------------------------------------------------------------
(* What a call of the position manager leaves of every position. *)

LEMMA OpenFrame ==
    ASSUME RouterInv, NEW a, NEW v, NEW t, NEW amount, NEW entry, NEW usdc, NEW slip, NEW exits,
           openPosition(a, v, t, amount, entry, usdc, slip, exits)
    PROVE  /\ PositionIds \subseteq PositionIds'
           /\ \A id \in PositionIds : positions'[id] = positions[id]
           /\ \A id \in PositionIds' \ PositionIds : positions'[id].agentId = a
<1> DEFINE p == [agentId |-> a, vault |-> v, token |-> t, tokenAmount |-> amount,
                 entryPriceUsdc |-> entry, usdcCostBasis |-> usdc,
                 maxSlippageBps |-> slip, status |-> "Open",
                 nextRuleIndex |-> 0, realizedPnlUsdc |-> 0]
<1>1. positions' = Append(positions, p) /\ p.agentId = a
  BY DEF openPosition, recordPosition
<1>2. positions \in Seq(Position)
  BY DEF RouterInv, PMInv, PMTypeOK
<1> HIDE DEF p
<1>3. /\ DOMAIN positions' = 1 .. Len(positions) + 1 /\ DOMAIN positions = 1 .. Len(positions)
      /\ positions'[Len(positions) + 1] = p /\ Len(positions) \in Nat
      /\ \A id \in DOMAIN positions : positions'[id] = positions[id]
  BY <1>1, <1>2
<1> QED
  BY <1>1, <1>3 DEF PositionIds

LEMMA IncreaseFrame ==
    ASSUME RouterInv, NEW id \in PositionIds, NEW amount \in Nat, NEW usdc \in Nat, NEW slip,
           NEW entry, increasePosition(id, amount, usdc, slip, entry)
    PROVE  /\ PositionIds' = PositionIds
           /\ \A k \in PositionIds : k # id => positions'[k] = positions[k]
           /\ positions'[id].agentId = positions[id].agentId
           /\ positions'[id].status = positions[id].status
           /\ positions'[id].tokenAmount >= positions[id].tokenAmount
<1> DEFINE p == positions[id]
           q == [p EXCEPT !.tokenAmount = @ + amount, !.usdcCostBasis = @ + usdc,
                          !.entryPriceUsdc = entry,
                          !.maxSlippageBps = IF slip > @ THEN slip ELSE @]
<1>1. positions' = [positions EXCEPT ![id] = q]
  BY DEF increasePosition
<1>2. positions \in Seq(Position) /\ p \in Position /\ p.tokenAmount \in Nat
  BY LedgerFacts
<1>3. q.agentId = p.agentId /\ q.status = p.status /\ q.tokenAmount = p.tokenAmount + amount
  <2> HIDE DEF p
  <2> QED
    BY <1>2 DEF Position
<1>4. q.tokenAmount >= p.tokenAmount
  <2> HIDE DEF p, q
  <2> QED
    BY <1>2, <1>3
<1> HIDE DEF q
<1>5. /\ DOMAIN positions' = DOMAIN positions /\ positions'[id] = q
      /\ \A k \in DOMAIN positions : k # id => positions'[k] = positions[k]
  BY <1>1, <1>2 DEF PositionIds
<1> QED
  BY <1>3, <1>4, <1>5 DEF PositionIds

LEMMA SaleFrame ==
    ASSUME RouterInv, NEW id \in PositionIds, NEW sold \in Nat, NEW released \in Nat, NEW pnl,
           NEW idx, reducePositionSize(id, sold, released, pnl, idx)
    PROVE  /\ PositionIds' = PositionIds
           /\ \A k \in PositionIds : k # id => positions'[k] = positions[k]
           /\ positions'[id].agentId = positions[id].agentId
           /\ positions'[id].status \in {positions[id].status, "Closed"}
           /\ positions[id].tokenAmount = sold => positions'[id].status = "Closed"
           /\ positions'[id].usdcCostBasis <= positions[id].usdcCostBasis
<1> DEFINE p == positions[id]
           q == [p EXCEPT !.tokenAmount = @ - sold, !.usdcCostBasis = @ - released,
                          !.realizedPnlUsdc = @ + pnl, !.nextRuleIndex = idx,
                          !.status = IF p.tokenAmount = sold THEN "Closed" ELSE @]
<1>1. positions' = [positions EXCEPT ![id] = q]
  BY DEF reducePositionSize
<1>2. positions \in Seq(Position) /\ p \in Position /\ p.usdcCostBasis \in Nat
  BY LedgerFacts
<1>3. /\ q.agentId = p.agentId /\ q.usdcCostBasis = p.usdcCostBasis - released
      /\ q.status = IF p.tokenAmount = sold THEN "Closed" ELSE p.status
  <2> HIDE DEF p
  <2> QED
    BY <1>2 DEF Position
<1>4. q.usdcCostBasis <= p.usdcCostBasis
  <2> HIDE DEF p, q
  <2> QED
    BY <1>2, <1>3
<1> HIDE DEF q
<1>5. /\ DOMAIN positions' = DOMAIN positions /\ positions'[id] = q
      /\ \A k \in DOMAIN positions : k # id => positions'[k] = positions[k]
  BY <1>1, <1>2 DEF PositionIds
<1> QED
  BY <1>3, <1>4, <1>5 DEF PositionIds

\* Every sale, with what the three callers ask for.
LEMMA SaleCalls ==
    ASSUME RouterInv, NEW id \in PositionIds,
           \/ \E exitBps \in ExitShares : ReducePosition(id, exitBps)
           \/ ExecuteExit(id) \/ ForceClose(id)
    PROVE  \E tokens, usdcOut, bounty, released, turnover, idx \in Nat :
             /\ IsOpen(id) /\ SaleOf(id, tokens, usdcOut, bounty, released, turnover, idx)
             /\ tradingPaused[positions[id].vault] =>
                  /\ agents[positions[id].agentId].status = "Suspended"
                  /\ tokens = positions[id].tokenAmount
<1>0. ASSUME NEW x \in Nat PROVE MulDiv(positions[id].tokenAmount, x, MAX_BPS) \in Nat
  <2> DEFINE held == positions[id].tokenAmount
             all == MAX_BPS
  <2>1. held \in Nat /\ all \in Nat /\ all > 0
    BY LedgerFacts DEF MAX_BPS
  <2> HIDE DEF held, all
  <2>2. MulDiv(held, x, all) \in Nat
    BY <2>1, MulDivNat
  <2> QED
    BY <2>2 DEF held, all
<1>1. PICK tokens \in Nat, mode \in {"Discretionary", "Ladder", "ForceClose"} :
        /\ IsOpen(id) /\ tokens > 0 /\ sell(id, tokens, mode)
        /\ mode = "ForceClose" => /\ agents[positions[id].agentId].status = "Suspended"
                                  /\ tokens = positions[id].tokenAmount
  <2>1. ASSUME NEW exitBps \in ExitShares, ReducePosition(id, exitBps)
        PROVE  \E tokens \in Nat : IsOpen(id) /\ tokens > 0 /\ sell(id, tokens, "Discretionary")
    <3>1. exitBps \in Nat
      BY RouterAssumption
    <3> QED
      BY <1>0, <2>1, <3>1 DEF ReducePosition
  <2>2. CASE ExecuteExit(id)
    <3> DEFINE rule == getNextExitRule(id)
    <3>1. /\ IsOpen(id) /\ HasNextExitRule(id)
          /\ MulDiv(positions[id].tokenAmount, rule.exitBps, MAX_BPS) > 0
          /\ sell(id, MulDiv(positions[id].tokenAmount, rule.exitBps, MAX_BPS), "Ladder")
      BY <2>2 DEF ExecuteExit
    <3>2. rule.exitBps \in Nat
      BY <3>1, NextRuleType
    <3> HIDE DEF rule
    <3> QED
      BY <1>0, <3>1, <3>2
  <2>3. CASE ForceClose(id)
    <3>1. positions[id].tokenAmount \in Nat /\ positions[id].tokenAmount > 0
      BY <2>3, LedgerFacts DEF ForceClose
    <3> QED
      BY <2>3, <3>1 DEF ForceClose
  <2> QED
    BY <2>1, <2>2, <2>3
<1>2. tradingPaused[positions[id].vault] => mode = "ForceClose"
  BY <1>1 DEF sell, sellForTrade
<1>3. \E usdcOut, bounty, released, turnover, idx \in Nat :
        SaleOf(id, tokens, usdcOut, bounty, released, turnover, idx)
  BY <1>1, SellParts
<1> QED
  BY <1>1, <1>2, <1>3

LEMMA NewTypes ==
    ASSUME RouterInv', NEW id \in DOMAIN positions'
    PROVE  positions'[id].tokenAmount \in Nat /\ positions'[id].usdcCostBasis \in Nat
<1>1. positions' \in Seq(Position)
  BY DEF RouterInv, PMInv, PMTypeOK
<1>2. positions'[id] \in Position
  BY <1>1
<1> QED
  BY <1>2 DEF Position

\* Every step trades, governs, or leaves agents, allocations and positions alone.
LEMMA StepKinds ==
    ASSUME [RouterNext]_protocolVars
    PROVE  \/ UNCHANGED <<positions, agents, allocations>>
           \/ GovernanceStep /\ UNCHANGED positions
           \/ \E a \in AgentIds, t \in Tokens, usdc \in TradeAmounts, slip \in Slippages,
                 exits \in SignedLadders : OpenPosition(a, t, usdc, slip, exits)
           \/ \E id \in PositionIds, usdc \in TradeAmounts, slip \in Slippages :
                 AddToPosition(id, usdc, slip)
           \/ \E id \in PositionIds : \/ \E exitBps \in ExitShares : ReducePosition(id, exitBps)
                                      \/ ExecuteExit(id) \/ ForceClose(id)
<1>1. CASE AgentStep
  BY <1>1 DEF AgentStep, UpdateExitLadder, updatePendingExitRules, registryVars, agentVars,
              allocationVars
<1>2. CASE KeeperStep \/ OperatorStep
  BY <1>2 DEF KeeperStep, OperatorStep
<1>3. CASE GovernanceStep
  BY <1>3 DEF GovernanceStep, marketVars, pmVars
<1>4. CASE VaultStep \/ LiquidityStep \/ TokenStep \/ OracleStep \/ NextDay
           \/ \E bounty \in Bounties : SetKeeperBounty(bounty)
  BY <1>4 DEF VaultStep, LiquidityStep, TokenStep, OracleStep, NextDay, SetKeeperBounty,
              marketVars, pmVars, registryVars, agentVars, allocationVars
<1>5. CASE UNCHANGED protocolVars
  BY <1>5 DEF protocolVars, marketVars, pmVars, registryVars, agentVars, allocationVars
<1> QED
  BY <1>1, <1>2, <1>3, <1>4, <1>5 DEF RouterNext, Trade, Environment

-----------------------------------------------------------------------------
(* Who may deploy, and what a paused vault gives up. *)

\* A number below the floor of a quotient.
LEMMA FloorBelow ==
    ASSUME NEW x \in Int, NEW w \in Nat, NEW m \in Nat, m > 0, x < w \div m
    PROVE  x * m < w
<1> DEFINE q == w \div m
<1>1. q \in Nat /\ m * q <= w
  OBVIOUS
<1> HIDE DEF q
<1>2. q - x \in Nat /\ q - x >= 1
  BY <1>1 DEF q
<1>3. (q - x) * m = m * q - x * m /\ x * m \in Int /\ m * q \in Int
  BY <1>1
<1>4. (q - x) * m >= m
  BY <1>2
<1> QED
  BY <1>1, <1>3, <1>4

Permitted(a) ==
    /\ agents[a].status = "Active" /\ ~registryPaused /\ ~tradingPaused[vaultOf(a)]
    /\ allocations'[a].used <= allocations'[a].cap
    /\ LET limit == trackConfig(a).maxDailyLossBps
       IN  limit > 0 => \/ dailyPnl[a] >= 0
                        \/ -dailyPnl[a] * MAX_BPS < allocations[a].cap * limit

LEMMA MayPermits ==
    ASSUME RouterInv, NEW a \in AgentIds, NEW usdc \in Nat, MayDeploy(a, usdc),
           ~tradingPaused[vaultOf(a)], setAllocationUsed(a, allocations[a].used + usdc)
    PROVE  Permitted(a)
<1>1. /\ agents[a].status = "Active" /\ ~registryPaused /\ WithinDailyLoss(a)
  BY DEF MayDeploy, CanTrade
<1>2. allocations'[a].used <= allocations'[a].cap
  <2> DEFINE used == allocations[a].used + usdc
  <2>1. used \in Nat
    BY AgentFacts
  <2>2. used <= allocations[a].cap /\ allocations' = [allocations EXCEPT ![a].used = used]
    BY DEF setAllocationUsed
  <2> HIDE DEF used
  <2>3. a \in DOMAIN allocations /\ allocations[a] \in Allocation
    BY AgentFacts
  <2>4. allocations'[a].used = used /\ allocations'[a].cap = allocations[a].cap
    BY <2>2, <2>3 DEF Allocation
  <2> QED
    BY <2>2, <2>4
<1>3. ASSUME trackConfig(a).maxDailyLossBps > 0
      PROVE  \/ dailyPnl[a] >= 0
             \/ -dailyPnl[a] * MAX_BPS < allocations[a].cap * trackConfig(a).maxDailyLossBps
  <2> DEFINE limit == trackConfig(a).maxDailyLossBps
             loss == -dailyPnl[a]
             w == allocations[a].cap * limit
  <2>1. limit \in Nat
    <3>1. agents[a].vault \in Vaults /\ agents[a].track \in Track
      BY AgentFacts DEF Agent
    <3>2. vaultTrackConfigs \in [Vaults -> [Track -> VaultTrackConfig]]
      BY DEF RouterInv, RegistryInv, AllocationInv, AllocationTypeOK
    <3>3. trackConfig(a) \in VaultTrackConfig
      BY <3>1, <3>2 DEF trackConfig, vaultOf
    <3> QED
      BY <3>3 DEF VaultTrackConfig
  <2>2. dailyPnl[a] \in Int /\ allocations[a].cap \in Nat
    BY AgentFacts DEF RouterInv, MarketTypeOK, AccountTypeOK
  <2>3. CASE loss < MulDiv(allocations[a].cap, limit, MAX_BPS)
    <3>1. loss \in Int /\ w \in Nat
      <4> HIDE DEF limit
      <4> QED
        BY <2>1, <2>2
    <3>2. MAX_BPS \in Nat /\ MAX_BPS > 0
      BY DEF MAX_BPS
    <3>3. loss < w \div MAX_BPS
      BY <2>3 DEF MulDiv
    <3>4. loss * MAX_BPS < w
      <4> HIDE DEF loss, w
      <4> QED
        BY <3>1, <3>2, <3>3, FloorBelow
    <3>5. -dailyPnl[a] * MAX_BPS = loss * MAX_BPS
      BY <2>2 DEF MAX_BPS
    <3> HIDE DEF loss, w
    <3> QED
      BY <3>4, <3>5 DEF w
  <2>4. CASE dailyPnl[a] >= 0
    BY <2>4
  <2>5. limit # 0
    BY <1>3, <2>1
  <2> QED
    BY <1>1, <2>3, <2>4, <2>5 DEF WithinDailyLoss
<1> QED
  BY <1>1, <1>2, <1>3 DEF Permitted

\* Capital goes into a position only while status, both pauses, the cap and the
\* loss limit allow it: the add path checks what the open path checks.
THEOREM DeployCorrect == RouterSpec => DeployOnlyWhenPermitted
<1>1. ASSUME RouterInv, [RouterNext]_protocolVars, NEW a \in AgentIds, Deploys(a)
      PROVE  Permitted(a)
  <2>1. ASSUME NEW b \in AgentIds, NEW t \in Tokens, NEW usdc \in TradeAmounts,
               NEW slip \in Slippages, NEW exits \in SignedLadders,
               OpenPosition(b, t, usdc, slip, exits)
        PROVE  Permitted(a)
    <3>1. usdc \in Nat /\ \A id \in PositionIds : positions[id].usdcCostBasis \in Nat
      BY <1>1, RouterAssumption, LedgerFacts
    <3>2. /\ MayDeploy(b, usdc) /\ ~tradingPaused[vaultOf(b)]
          /\ setAllocationUsed(b, allocations[b].used + usdc)
      BY <2>1 DEF OpenPosition, MayOpen, buyForTrade
    <3>3. /\ \A id \in PositionIds : positions'[id] = positions[id]
          /\ \A id \in PositionIds' \ PositionIds : positions'[id].agentId = b
      BY <1>1, <2>1, OpenFrame DEF OpenPosition
    <3>4. PositionIds' = DOMAIN positions'
      BY DEF PositionIds
    <3>5. b = a
      BY <1>1, <3>1, <3>3, <3>4 DEF Deploys
    <3> QED
      BY <1>1, <3>1, <3>2, <3>5, MayPermits
  <2>2. ASSUME NEW id \in PositionIds, NEW usdc \in TradeAmounts, NEW slip \in Slippages,
               AddToPosition(id, usdc, slip)
        PROVE  Permitted(a)
    <3> DEFINE b == positions[id].agentId
    <3>1. usdc \in Nat /\ (\A k \in PositionIds : positions[k].usdcCostBasis \in Nat)
          /\ b \in AgentIds
      BY <1>1, RouterAssumption, LedgerFacts
    <3>2. /\ MayDeploy(b, usdc) /\ ~tradingPaused[vaultOf(b)]
          /\ setAllocationUsed(b, allocations[b].used + usdc)
      BY <2>2 DEF AddToPosition, buyForTrade
    <3>3. PICK added \in Nat, entry \in Nat : increasePosition(id, added, usdc, slip, entry)
      BY <1>1, <2>2, AddParts
    <3>4. /\ DOMAIN positions' = PositionIds
          /\ \A k \in PositionIds : k # id => positions'[k] = positions[k]
      BY <1>1, <3>1, <3>3, IncreaseFrame DEF PositionIds
    <3>5. b = a
      BY <1>1, <3>1, <3>4 DEF Deploys
    <3> HIDE DEF b
    <3> QED
      BY <1>1, <3>1, <3>2, <3>5, MayPermits
  <2>3. ASSUME NEW id \in PositionIds,
               \/ \E exitBps \in ExitShares : ReducePosition(id, exitBps)
               \/ ExecuteExit(id) \/ ForceClose(id)
        PROVE  FALSE
    <3>1. PICK tokens, usdcOut, bounty, released, turnover, idx \in Nat :
            SaleOf(id, tokens, usdcOut, bounty, released, turnover, idx)
      BY <1>1, <2>3, SaleCalls
    <3>2. /\ DOMAIN positions' = PositionIds
          /\ \A k \in PositionIds : k # id => positions'[k] = positions[k]
          /\ positions'[id].usdcCostBasis <= positions[id].usdcCostBasis
      BY <1>1, <3>1, SaleFrame DEF SaleOf, PositionIds
    <3>3. \A k \in PositionIds : positions[k].usdcCostBasis \in Nat
      BY <1>1, LedgerFacts
    <3>4. PICK k \in PositionIds : positions'[k].usdcCostBasis > positions[k].usdcCostBasis
      BY <1>1, <3>2 DEF Deploys
    <3>5. CASE k = id
      <4>1. positions'[id].usdcCostBasis \in Nat
        <5>1. RouterInv'
          BY <1>1, RouterNextKeeps
        <5> QED
          BY <5>1, <3>2, NewTypes
      <4> QED
        BY <3>2, <3>3, <3>4, <3>5, <4>1
    <3> QED
      BY <3>2, <3>3, <3>4, <3>5
  <2>4. ASSUME UNCHANGED positions PROVE FALSE
    <3>1. \A id \in PositionIds : positions[id].usdcCostBasis \in Nat
      BY <1>1, LedgerFacts
    <3> QED
      BY <1>1, <2>4, <3>1 DEF Deploys, PositionIds
  <2> QED
    BY <1>1, <2>1, <2>2, <2>3, <2>4, StepKinds
<1>2. RouterInv /\ [RouterNext]_protocolVars =>
        [\A a \in AgentIds : Deploys(a) =>
           /\ agents[a].status = "Active" /\ ~registryPaused /\ ~tradingPaused[vaultOf(a)]
           /\ allocations'[a].used <= allocations'[a].cap
           /\ LET limit == trackConfig(a).maxDailyLossBps
              IN  limit > 0 => \/ dailyPnl[a] >= 0
                               \/ -dailyPnl[a] * MAX_BPS < allocations[a].cap * limit
        ]_protocolVars
  BY <1>1 DEF Permitted
<1> QED
  BY <1>2, RouterInvariant, PTL DEF RouterSpec, DeployOnlyWhenPermitted

\* While a vault's trading is paused its tokens leave only with the whole position
\* of a suspended agent.
THEOREM PauseCorrect == RouterSpec => PausedVaultOnlyForceCloses
<1>1. ASSUME RouterInv, [RouterNext]_protocolVars, NEW id \in PositionIds,
             positions'[id].tokenAmount < positions[id].tokenAmount,
             tradingPaused[positions[id].vault]
      PROVE  agents[positions[id].agentId].status = "Suspended" /\ positions'[id].status = "Closed"
  <2>0. \A k \in PositionIds : positions[k].tokenAmount \in Nat
    BY <1>1, LedgerFacts
  <2>1. ASSUME NEW b \in AgentIds, NEW t \in Tokens, NEW usdc \in TradeAmounts,
               NEW slip \in Slippages, NEW exits \in SignedLadders,
               OpenPosition(b, t, usdc, slip, exits)
        PROVE  FALSE
    <3>1. positions'[id] = positions[id]
      BY <1>1, <2>1, OpenFrame DEF OpenPosition
    <3> QED
      BY <1>1, <2>0, <3>1
  <2>2. ASSUME NEW k \in PositionIds, NEW usdc \in TradeAmounts, NEW slip \in Slippages,
               AddToPosition(k, usdc, slip)
        PROVE  FALSE
    <3>1. PICK added \in Nat, entry \in Nat : increasePosition(k, added, usdc, slip, entry)
      BY <1>1, <2>2, AddParts
    <3>2. usdc \in Nat
      BY RouterAssumption
    <3>3. /\ \A j \in PositionIds : j # k => positions'[j] = positions[j]
          /\ positions'[k].tokenAmount >= positions[k].tokenAmount
      BY <1>1, <3>1, <3>2, IncreaseFrame
    <3>4. CASE id = k
      <4>1. RouterInv' /\ DOMAIN positions' = PositionIds
        BY <1>1, <3>1, <3>2, RouterNextKeeps, IncreaseFrame DEF PositionIds
      <4>2. positions'[id].tokenAmount \in Nat
        BY <4>1, NewTypes
      <4> QED
        BY <1>1, <2>0, <3>3, <3>4, <4>2
    <3> QED
      BY <1>1, <2>0, <3>3, <3>4
  <2>3. ASSUME NEW k \in PositionIds,
               \/ \E exitBps \in ExitShares : ReducePosition(k, exitBps)
               \/ ExecuteExit(k) \/ ForceClose(k)
        PROVE  /\ agents[positions[id].agentId].status = "Suspended"
               /\ positions'[id].status = "Closed"
    <3>1. PICK tokens, usdcOut, bounty, released, turnover, idx \in Nat :
            /\ SaleOf(k, tokens, usdcOut, bounty, released, turnover, idx)
            /\ tradingPaused[positions[k].vault] =>
                 /\ agents[positions[k].agentId].status = "Suspended"
                 /\ tokens = positions[k].tokenAmount
      BY <1>1, <2>3, SaleCalls
    <3>2. /\ \A j \in PositionIds : j # k => positions'[j] = positions[j]
          /\ positions[k].tokenAmount = tokens => positions'[k].status = "Closed"
      BY <1>1, <3>1, SaleFrame DEF SaleOf
    <3>3. id = k
      BY <1>1, <2>0, <3>2
    <3> QED
      BY <1>1, <3>1, <3>2, <3>3
  <2>4. ASSUME UNCHANGED positions PROVE FALSE
    BY <1>1, <2>0, <2>4
  <2> QED
    BY <1>1, <2>1, <2>2, <2>3, <2>4, StepKinds
<1>2. RouterInv /\ [RouterNext]_protocolVars =>
        [\A id \in PositionIds :
           /\ positions'[id].tokenAmount < positions[id].tokenAmount
           /\ tradingPaused[positions[id].vault]
           => /\ agents[positions[id].agentId].status = "Suspended"
              /\ positions'[id].status = "Closed"]_protocolVars
  BY <1>1
<1> QED
  BY <1>2, RouterInvariant, PTL DEF RouterSpec, PausedVaultOnlyForceCloses

-----------------------------------------------------------------------------
(* The budget: used is the cost of what is open, so no terminal agent is exposed. *)

\* A trade writes used by what it moves the cost of the agent's positions.
LEMMA UsedMoves ==
    ASSUME RouterInv, UsedIsCostBasis, NEW a \in AgentIds, NEW cost \in Int, NEW used,
           used = allocations[a].used + cost, setAllocationUsed(a, used),
           \A b : Deployed(b)' = Deployed(b) + (IF b = a THEN cost ELSE 0)
    PROVE  UsedIsCostBasis'
<1> SUFFICES ASSUME NEW b \in AgentIds PROVE allocations'[b].used = Deployed(b)'
  BY DEF UsedIsCostBasis
<1>1. allocations' = [allocations EXCEPT ![a].used = used]
  BY DEF setAllocationUsed
<1>2. a \in DOMAIN allocations /\ allocations[a] \in Allocation /\ allocations[a].used \in Nat
  BY AgentFacts
<1>3. b \in DOMAIN allocations /\ allocations[b].used \in Nat
  BY AgentFacts
<1>4. allocations'[b].used = IF b = a THEN used ELSE allocations[b].used
  BY <1>1, <1>2, <1>3 DEF Allocation
<1>5. allocations[b].used = Deployed(b)
  BY DEF UsedIsCostBasis
<1>6. Deployed(b)' = Deployed(b) + (IF b = a THEN cost ELSE 0)
  OBVIOUS
<1>7. CASE b = a
  BY <1>4, <1>5, <1>6, <1>7
<1>8. CASE b # a
  BY <1>3, <1>4, <1>5, <1>6, <1>8
<1> QED
  BY <1>7, <1>8

LEMMA OpenUsedKeeps ==
    ASSUME RouterInv, UsedIsCostBasis, NEW a \in AgentIds, NEW t \in Tokens,
           NEW usdc \in TradeAmounts, NEW slip \in Slippages, NEW exits \in SignedLadders,
           OpenPosition(a, t, usdc, slip, exits)
    PROVE  UsedIsCostBasis'
<1> DEFINE v == vaultOf(a)
           tokens == usdcToTokenAmount(usdc, t)
           entry == MulDiv(usdc, TokenUnit, tokens)
           used == allocations[a].used + usdc
<1>1. /\ tokens \in Nat /\ usdc \in Nat /\ entry \in Nat /\ slip \in Nat
      /\ openPosition(a, v, t, tokens, entry, usdc, slip, exits)
  BY OpenParts
<1>2. v \in Vaults
  BY AgentFacts
<1>3. setAllocationUsed(a, used) /\ used = allocations[a].used + usdc
  BY DEF OpenPosition
<1> HIDE DEF v, tokens, entry
<1>4. Moves(a, v, t, tokens, usdc, 0, TRUE, FALSE)
  BY <1>1, <1>2, OpenLedger
<1>5. \A b : Deployed(b)' = Deployed(b) + (IF b = a THEN usdc ELSE 0)
  BY <1>4 DEF Moves
<1>6. usdc \in Int
  BY <1>1
<1> HIDE DEF used
<1> QED
  BY <1>3, <1>5, <1>6, UsedMoves

LEMMA AddUsedKeeps ==
    ASSUME RouterInv, UsedIsCostBasis, NEW id \in PositionIds, NEW usdc \in TradeAmounts,
           NEW slip \in Slippages, AddToPosition(id, usdc, slip)
    PROVE  UsedIsCostBasis'
<1> DEFINE a == positions[id].agentId
           used == allocations[a].used + usdc
<1>1. PICK added \in Nat, entry \in Nat : /\ increasePosition(id, added, usdc, slip, entry)
                                          /\ usdc \in Nat /\ slip \in Nat
  BY AddParts
<1>2. a \in AgentIds
  BY LedgerFacts
<1>3. setAllocationUsed(a, used) /\ used = allocations[a].used + usdc
  BY DEF AddToPosition
<1>4. Moves(a, positions[id].vault, positions[id].token, added, usdc, 0, FALSE, FALSE)
  BY <1>1, IncreaseLedger
<1>5. \A b : Deployed(b)' = Deployed(b) + (IF b = a THEN usdc ELSE 0)
  BY <1>4 DEF Moves
<1>6. usdc \in Int
  BY <1>1
<1> HIDE DEF a, used
<1> QED
  BY <1>2, <1>3, <1>5, <1>6, UsedMoves

LEMMA SaleUsedKeeps ==
    ASSUME RouterInv, UsedIsCostBasis, NEW id \in PositionIds,
           \/ \E exitBps \in ExitShares : ReducePosition(id, exitBps)
           \/ ExecuteExit(id) \/ ForceClose(id)
    PROVE  UsedIsCostBasis'
<1>1. PICK tokens, usdcOut, bounty, released, turnover, idx \in Nat :
        IsOpen(id) /\ SaleOf(id, tokens, usdcOut, bounty, released, turnover, idx)
  BY SaleCalls
<1> DEFINE a == positions[id].agentId
           v == positions[id].vault
           t == positions[id].token
           pnl == usdcOut - released
           cost == -released
           used == allocations[a].used - released
<1>2. a \in AgentIds
  BY LedgerFacts
<1>3. /\ setAllocationUsed(a, used)
      /\ reducePositionSize(id, tokens, released, pnl, idx)
  BY <1>1 DEF SaleOf, Sold
<1>4. pnl \in Int /\ cost \in Int
  OBVIOUS
<1>5. used = allocations[a].used + cost
  BY <1>2, AgentFacts
<1>6. Moves(a, v, t, -tokens, -released, pnl, FALSE, positions[id].tokenAmount = tokens)
  <2> HIDE DEF pnl
  <2> QED
    BY <1>1, <1>3, <1>4, SaleLedger
<1>7. \A b : Deployed(b)' = Deployed(b) + (IF b = a THEN cost ELSE 0)
  BY <1>6 DEF Moves
<1> HIDE DEF a, used, cost
<1> QED
  BY <1>2, <1>3, <1>4, <1>5, <1>7, UsedMoves

\* What a step that is no trade may do to an agent and its allocation when the
\* operator does not override used: the last guard of onAgentRemoved.
LEMMA GovernanceFrame ==
    ASSUME UsedInputs = {}, RouterInv, GovernanceStep, NEW a \in AgentIds
    PROVE  /\ allocations'[a].used = allocations[a].used
           /\ IsTerminal(agents'[a].status) =>
                \/ IsTerminal(agents[a].status) \/ allocations[a].status = "Removed"
                \/ allocations[a].used = 0
           /\ "Removed" \notin AllocationStatusInputs /\ allocations'[a].status = "Removed" =>
                allocations[a].status = "Removed" \/ allocations[a].used = 0
<1>1. /\ a \in DOMAIN allocations /\ allocations[a] \in Allocation
      /\ agents \in Seq(Agent) /\ a \in DOMAIN agents
  BY AgentFacts DEF RouterInv, RegistryInv, AgentInv, AgentTypeOK, RegisteredIds
<1>2. CASE UNCHANGED <<agents, allocationVars>>
  BY <1>2 DEF allocationVars
<1>3. CASE LifecycleStep
  <2>1. PICK b \in RegisteredIds :
          \/ \E status \in StatusInputs : SetAgentStatus(b, status)
          \/ \E payer \in Accounts, feeAlreadyPaid \in BOOLEAN :
                PromoteAgent(b, payer, feeAlreadyPaid)
          \/ \E status \in AllocationStatusInputs : SetAllocationStatus(b, status)
    BY <1>3 DEF LifecycleStep
  <2>2. b \in AgentIds /\ allocations[b] \in Allocation /\ agents[b] \in Agent
        /\ b \in DOMAIN allocations /\ b \in DOMAIN agents
    BY <2>1, AgentFacts DEF RouterInv, RegisteredIds
  <2>3. ASSUME NEW status \in StatusInputs, SetAgentStatus(b, status)
        PROVE  /\ allocations'[a].used = allocations[a].used
               /\ IsTerminal(agents'[a].status) =>
                    \/ IsTerminal(agents[a].status) \/ allocations[a].status = "Removed"
                    \/ allocations[a].used = 0
               /\ allocations'[a].status = "Removed" =>
                    allocations[a].status = "Removed" \/ allocations[a].used = 0
    <3>1. agents' = [agents EXCEPT ![b].status = status]
      BY <2>3 DEF SetAgentStatus
    <3>2. /\ agents'[b].status = status
          /\ a # b => agents'[a] = agents[a]
      BY <1>1, <2>2, <3>1 DEF Agent
    <3>3. CASE UNCHANGED allocationVars
      <4>1. IsTerminal(status) => allocations[b].status = "Removed" \/ allocations[b].used = 0
        BY <2>3 DEF SetAgentStatus, onAgentRemoved, notInUse
      <4> QED
        BY <3>2, <3>3, <4>1 DEF allocationVars
    <3>4. CASE ~UNCHANGED allocationVars
      <4>1. /\ allocations[b].used = 0
            /\ allocations' = [allocations EXCEPT ![b].status = "Removed", ![b].cap = 0]
        BY <2>3, <3>4 DEF SetAgentStatus, onAgentRemoved, notInUse
      <4>2. /\ allocations'[b].used = allocations[b].used
            /\ a # b => allocations'[a] = allocations[a]
        BY <1>1, <2>2, <4>1 DEF Allocation
      <4> QED
        BY <3>2, <4>1, <4>2
    <3> QED
      BY <3>3, <3>4
  <2>4. ASSUME NEW payer \in Accounts, NEW paid \in BOOLEAN, PromoteAgent(b, payer, paid)
        PROVE  /\ allocations'[a].used = allocations[a].used
               /\ allocations'[a].status = allocations[a].status
               /\ agents'[a].status = agents[a].status
    <3> DEFINE to == agents[b].track + 1
               cap == initialCap(agents[b].vault, to)
    <3>1. /\ allocations' = [allocations EXCEPT ![b] = promoted(@, to, cap)]
          /\ agents' = [agents EXCEPT ![b].track = to]
      BY <2>4 DEF PromoteAgent, onAgentPromoted
    <3> HIDE DEF to, cap
    <3>2. /\ allocations'[b].used = allocations[b].used
          /\ allocations'[b].status = allocations[b].status
          /\ a # b => allocations'[a] = allocations[a]
      BY <1>1, <2>2, <3>1 DEF Allocation, promoted
    <3>3. agents'[b].status = agents[b].status /\ (a # b => agents'[a] = agents[a])
      BY <1>1, <2>2, <3>1 DEF Agent
    <3> QED
      BY <3>2, <3>3
  <2>5. ASSUME NEW status \in AllocationStatusInputs, SetAllocationStatus(b, status)
        PROVE  /\ allocations'[a].used = allocations[a].used
               /\ allocations'[a].status \in {allocations[a].status, status}
               /\ agents'[a] = agents[a]
    <3>1. /\ allocations' = [allocations EXCEPT ![b].status = status] /\ UNCHANGED agents
      BY <2>5 DEF SetAllocationStatus, setAllocationStatus, agentVars
    <3>2. /\ allocations'[b].used = allocations[b].used
          /\ allocations'[b].status = status
          /\ a # b => allocations'[a] = allocations[a]
      BY <1>1, <2>2, <3>1 DEF Allocation
    <3> QED
      BY <3>1, <3>2
  <2> QED
    BY <2>1, <2>3, <2>4, <2>5
<1> QED
  BY <1>2, <1>3
  DEF GovernanceStep, SetRegistryPaused, SetVaultTrackConfig, agentVars, allocationVars

LEMMA UsedKeeps ==
    ASSUME UsedInputs = {}, RouterInv, UsedIsCostBasis, [RouterNext]_protocolVars
    PROVE  UsedIsCostBasis'
<1>1. ASSUME UNCHANGED positions,
             \A a \in AgentIds : allocations'[a].used = allocations[a].used
      PROVE  UsedIsCostBasis'
  <2>1. \A a : Deployed(a)' = Deployed(a)
    BY <1>1, SumsStay
  <2> QED
    BY <1>1, <2>1 DEF UsedIsCostBasis
<1>2. CASE UNCHANGED <<positions, agents, allocations>>
  BY <1>1, <1>2
<1>3. CASE GovernanceStep /\ UNCHANGED positions
  BY <1>1, <1>3, GovernanceFrame
<1> QED
  BY <1>2, <1>3, OpenUsedKeeps, AddUsedKeeps, SaleUsedKeeps, StepKinds

\* An agent with an open position has capital in use.
LEMMA OpenUsed ==
    ASSUME RouterInv, UsedIsCostBasis, NEW id \in OpenIds
    PROVE  allocations[positions[id].agentId].used # 0
<1> DEFINE a == positions[id].agentId
           S == {k \in PositionIds : positions[k].agentId = a}
           cost == [k \in PositionIds |-> positions[k].usdcCostBasis]
<1>1. id \in PositionIds /\ IsOpen(id)
  BY DEF OpenIds
<1>2. a \in AgentIds /\ positions[id].usdcCostBasis \in Nat /\ positions[id].usdcCostBasis > 0
      /\ positions \in Seq(Position)
  BY <1>1, LedgerFacts
<1>3. id \in S /\ IsFiniteSet(S)
  BY <1>1, <1>2, GroupsFinite
<1>4. \A k \in S : cost[k] \in Nat
  BY LedgerFacts
<1>5. cost[id] > 0 /\ cost[id] \in Nat
  BY <1>1, <1>2
<1> HIDE DEF cost, S
<1>6. SumFunctionOnSet(cost, S) \in Nat /\ cost[id] <= SumFunctionOnSet(cost, S)
  BY <1>3, <1>4, SumNat
<1>7. SumFunctionOnSet(cost, S) # 0
  BY <1>5, <1>6
<1>8. allocations[a].used = SumFunctionOnSet(cost, S)
  BY <1>2 DEF UsedIsCostBasis, Deployed, cost, S
<1> QED
  BY <1>7, <1>8

\* What the agent of an open position looks like.
Exposed(id) ==
    /\ ~IsTerminal(agents[positions[id].agentId].status)
    /\ allocations[positions[id].agentId].status # "Removed"

\* Inductive: neither half of Exposed is without the other, and both need the budget.
ExposureInv ==
    /\ RouterInv
    /\ UsedInputs = {} => UsedIsCostBasis
    /\ UsedInputs = {} /\ "Removed" \notin AllocationStatusInputs =>
         \A id \in OpenIds : Exposed(id)

\* A trade leaves every agent's status and every allocation's.
LEMMA TradeStatuses ==
    ASSUME RouterInv, UNCHANGED agentVars, NEW a \in AgentIds, NEW used, setAllocationUsed(a, used),
           NEW b \in AgentIds
    PROVE  agents'[b] = agents[b] /\ allocations'[b].status = allocations[b].status
<1>1. /\ a \in DOMAIN allocations /\ b \in DOMAIN allocations
      /\ allocations[a] \in Allocation /\ allocations[b] \in Allocation
  BY AgentFacts
<1>2. allocations' = [allocations EXCEPT ![a].used = used]
  BY DEF setAllocationUsed
<1> QED
  BY <1>1, <1>2 DEF Allocation, agentVars

LEMMA ExposureKeeps ==
    ASSUME UsedInputs = {}, "Removed" \notin AllocationStatusInputs, RouterInv, UsedIsCostBasis,
           \A id \in OpenIds : Exposed(id), [RouterNext]_protocolVars, NEW id \in OpenIds'
    PROVE  Exposed(id)'
<1>0. id \in PositionIds' /\ positions'[id].status = "Open"
  BY DEF OpenIds, IsOpen
<1>1. ASSUME UNCHANGED <<positions, agents, allocations>> PROVE Exposed(id)'
  BY <1>1 DEF OpenIds, PositionIds, IsOpen, Exposed
<1>2. ASSUME GovernanceStep, UNCHANGED positions PROVE Exposed(id)'
  <2>1. id \in OpenIds
    BY <1>2 DEF OpenIds, PositionIds, IsOpen
  <2>2. /\ Exposed(id) /\ allocations[positions[id].agentId].used # 0
        /\ positions[id].agentId \in AgentIds
    BY <2>1, OpenUsed, LedgerFacts DEF OpenIds
  <2> QED
    BY <1>2, <2>2, GovernanceFrame DEF Exposed
<1>3. ASSUME NEW a \in AgentIds, NEW t \in Tokens, NEW usdc \in TradeAmounts,
             NEW slip \in Slippages, NEW exits \in SignedLadders,
             OpenPosition(a, t, usdc, slip, exits)
      PROVE  Exposed(id)'
  <2>1. /\ agents[a].status = "Active" /\ allocations[a].status = "Active"
        /\ setAllocationUsed(a, allocations[a].used + usdc) /\ UNCHANGED agentVars
    BY <1>3 DEF OpenPosition, MayOpen, MayDeploy, CanTrade
  <2>2. /\ \A k \in PositionIds : positions'[k] = positions[k]
        /\ \A k \in PositionIds' \ PositionIds : positions'[k].agentId = a
    BY <1>3, OpenFrame DEF OpenPosition
  <2>3. CASE id \in PositionIds
    <3>1. id \in OpenIds /\ positions'[id] = positions[id]
      BY <1>0, <2>2, <2>3 DEF OpenIds, IsOpen
    <3>2. Exposed(id) /\ positions[id].agentId \in AgentIds
      BY <2>3, <3>1, LedgerFacts
    <3> QED
      BY <2>1, <3>1, <3>2, TradeStatuses DEF Exposed
  <2>4. CASE id \notin PositionIds
    <3>1. positions'[id].agentId = a
      BY <1>0, <2>2, <2>4
    <3> QED
      BY <2>1, <3>1, TradeStatuses DEF Exposed, IsTerminal
  <2> QED
    BY <2>3, <2>4
<1>4. ASSUME NEW k \in PositionIds, NEW usdc \in TradeAmounts, NEW slip \in Slippages,
             AddToPosition(k, usdc, slip)
      PROVE  Exposed(id)'
  <2> DEFINE a == positions[k].agentId
  <2>1. a \in AgentIds /\ UNCHANGED agentVars /\ setAllocationUsed(a, allocations[a].used + usdc)
    BY <1>4, LedgerFacts DEF AddToPosition
  <2>2. PICK added \in Nat, entry \in Nat :
          usdc \in Nat /\ increasePosition(k, added, usdc, slip, entry)
    BY <1>4, AddParts
  <2>3. /\ PositionIds' = PositionIds
        /\ \A j \in PositionIds : j # k => positions'[j] = positions[j]
        /\ positions'[k].agentId = positions[k].agentId /\ positions'[k].status = positions[k].status
    BY <2>2, IncreaseFrame
  <2>4. id \in OpenIds /\ positions'[id].agentId = positions[id].agentId
    BY <1>0, <2>3 DEF OpenIds, IsOpen
  <2>5. Exposed(id) /\ positions[id].agentId \in AgentIds
    BY <2>4, LedgerFacts DEF OpenIds
  <2> HIDE DEF a
  <2> QED
    BY <2>1, <2>4, <2>5, TradeStatuses DEF Exposed
<1>5. ASSUME NEW k \in PositionIds,
             \/ \E exitBps \in ExitShares : ReducePosition(k, exitBps)
             \/ ExecuteExit(k) \/ ForceClose(k)
      PROVE  Exposed(id)'
  <2> DEFINE a == positions[k].agentId
  <2>1. PICK tokens, usdcOut, bounty, released, turnover, idx \in Nat :
          SaleOf(k, tokens, usdcOut, bounty, released, turnover, idx)
    BY <1>5, SaleCalls
  <2>2. a \in AgentIds /\ UNCHANGED agentVars
        /\ setAllocationUsed(a, allocations[a].used - released)
    BY <2>1, LedgerFacts DEF SaleOf, Sold
  <2>3. /\ PositionIds' = PositionIds
        /\ \A j \in PositionIds : j # k => positions'[j] = positions[j]
        /\ positions'[k].agentId = positions[k].agentId
        /\ positions'[k].status \in {positions[k].status, "Closed"}
    BY <2>1, SaleFrame DEF SaleOf
  <2>4. id \in OpenIds /\ positions'[id].agentId = positions[id].agentId
    BY <1>0, <2>3 DEF OpenIds, IsOpen
  <2>5. Exposed(id) /\ positions[id].agentId \in AgentIds
    BY <2>4, LedgerFacts DEF OpenIds
  <2> HIDE DEF a
  <2> QED
    BY <2>2, <2>4, <2>5, TradeStatuses DEF Exposed
<1> QED
  BY <1>1, <1>2, <1>3, <1>4, <1>5, StepKinds

LEMMA ExposureStarts == RouterInit => ExposureInv
<1> SUFFICES ASSUME RouterInit PROVE ExposureInv
  OBVIOUS
<1>1. positions = <<>> /\ PositionIds = {} /\ OpenIds = {}
  BY DEF RouterInit, PMInit, PositionIds, OpenIds
<1>2. UsedIsCostBasis
  <2> SUFFICES ASSUME NEW a \in AgentIds PROVE allocations[a].used = Deployed(a)
    BY DEF UsedIsCostBasis
  <2>1. allocations[a].used = 0
    BY DEF RouterInit
  <2>2. {id \in PositionIds : positions[id].agentId = a} = {}
    BY <1>1
  <2> QED
    BY <2>1, <2>2, SumEmpty DEF Deployed
<1> QED
  BY <1>1, <1>2, RouterStarts DEF ExposureInv

LEMMA ExposureInvariant == RouterSpec => []ExposureInv
<1>1. ASSUME ExposureInv, [RouterNext]_protocolVars PROVE ExposureInv'
  <2>1. RouterInv'
    BY <1>1, RouterNextKeeps DEF ExposureInv
  <2>2. UsedInputs = {} => UsedIsCostBasis'
    BY <1>1, UsedKeeps DEF ExposureInv
  <2>3. UsedInputs = {} /\ "Removed" \notin AllocationStatusInputs =>
          \A id \in OpenIds' : Exposed(id)'
    BY <1>1, ExposureKeeps DEF ExposureInv
  <2> QED
    BY <2>1, <2>2, <2>3 DEF ExposureInv
<1> QED
  BY <1>1, ExposureStarts, PTL DEF RouterSpec

\* The three read-modify-writes of used leak no budget: used is what is deployed,
\* unless the operator overrides it.
THEOREM UsedCorrect == UsedInputs = {} => (RouterSpec => []UsedIsCostBasis)
<1> SUFFICES ASSUME UsedInputs = {} PROVE RouterSpec => []UsedIsCostBasis
  OBVIOUS
<1>1. ExposureInv => UsedIsCostBasis
  BY DEF ExposureInv
<1> QED
  BY <1>1, ExposureInvariant, PTL

\* setAgentStatus cannot strand capital: an agent that failed, left or graduated has
\* nothing open, unless the operator overrides used or marks an allocation Removed
\* by hand.
THEOREM ExposureCorrect ==
    UsedInputs = {} /\ "Removed" \notin AllocationStatusInputs =>
      (RouterSpec => []TerminalHasNoExposure)
<1> SUFFICES ASSUME UsedInputs = {}, "Removed" \notin AllocationStatusInputs
             PROVE  RouterSpec => []TerminalHasNoExposure
  OBVIOUS
<1>1. ExposureInv => TerminalHasNoExposure
  BY DEF ExposureInv, Exposed, TerminalHasNoExposure
<1> QED
  BY <1>1, ExposureInvariant, PTL

-----------------------------------------------------------------------------
(* The router is a client that keeps the contract of the position manager.  *)

\* The bounds of module PositionManager taken away: amounts, prices, PnL and ids are
\* any, and the ladders it is called with include those the router accepts.
Unbounded ==
    /\ Amounts = Nat /\ EntryPrices = Nat /\ PnlDeltas = Int /\ Pnls = Int
    /\ Nat \ {0} \subseteq Ids
    /\ \A exits \in SignedLadders : ValidExitRules(exits) => exits \in Ladders

LEMMA OpenCalls ==
    ASSUME Unbounded, RouterInv, NEW a \in AgentIds, NEW t \in Tokens, NEW usdc \in TradeAmounts,
           NEW slip \in Slippages, NEW exits \in SignedLadders,
           OpenPosition(a, t, usdc, slip, exits)
    PROVE  PMNext
<1> DEFINE v == vaultOf(a)
           tokens == usdcToTokenAmount(usdc, t)
           entry == MulDiv(usdc, TokenUnit, tokens)
<1>1. /\ tokens \in Nat /\ tokens > 0 /\ usdc \in Nat /\ usdc > 0 /\ entry \in Nat
      /\ openPosition(a, v, t, tokens, entry, usdc, slip, exits)
  BY OpenParts
<1>2. v \in Vaults
  BY AgentFacts
<1>3. exits \in Ladders
  BY DEF Unbounded, OpenPosition, MayOpen, ExitRulesAllowed
<1>4. Len(positions) + 1 \in Ids
  <2>1. positions \in Seq(Position)
    BY DEF RouterInv, PMInv, PMTypeOK
  <2>2. Len(positions) + 1 \in Nat \ {0}
    BY <2>1
  <2> QED
    BY <2>2 DEF Unbounded
<1>5. tokens \in Amounts /\ usdc \in Amounts /\ entry \in EntryPrices
  BY <1>1 DEF Unbounded
<1> HIDE DEF v, tokens, entry
<1>6. CallOpen(a, v, t, tokens, entry, usdc, slip, exits)
  BY <1>1, <1>4 DEF CallOpen
<1> QED
  BY <1>2, <1>3, <1>5, <1>6 DEF PMNext

LEMMA AddCalls ==
    ASSUME Unbounded, RouterInv, NEW id \in PositionIds, NEW usdc \in TradeAmounts,
           NEW slip \in Slippages, AddToPosition(id, usdc, slip)
    PROVE  PMNext
<1>1. PICK added \in Nat, entry \in Nat :
        usdc \in Nat /\ increasePosition(id, added, usdc, slip, entry)
  BY AddParts
<1>2. positions[id].tokenAmount + added \in Nat /\ positions[id].usdcCostBasis + usdc \in Nat
  BY <1>1, LedgerFacts
<1>3. CallIncrease(id, added, usdc, slip, entry)
  BY <1>1, <1>2 DEF CallIncrease, Unbounded
<1>4. added \in Amounts /\ usdc \in Amounts /\ entry \in EntryPrices
  BY <1>1 DEF Unbounded
<1> QED
  BY <1>3, <1>4 DEF PMNext

\* A sale with the position manager's entry point that the mode calls.
LEMMA SellCalls ==
    ASSUME Unbounded, RouterInv, NEW id \in PositionIds, IsOpen(id), NEW tokens \in Nat, tokens > 0,
           NEW mode, sell(id, tokens, mode),
           mode = "Ladder" /\ getNextExitRule(id).exitBps = MAX_BPS =>
             tokens = positions[id].tokenAmount
    PROVE  PMNext
<1>1. PICK usdcOut, bounty, released, turnover, idx \in Nat :
        /\ idx = IF mode = "Ladder" THEN positions[id].nextRuleIndex + 1
                                    ELSE positions[id].nextRuleIndex
        /\ mode = "Ladder" => HasNextExitRule(id)
        /\ SaleOf(id, tokens, usdcOut, bounty, released, turnover, idx)
  BY SellParts
<1> DEFINE pnl == usdcOut - released
<1>2. /\ Sale(id, tokens, released) /\ reducePositionSize(id, tokens, released, pnl, idx)
  BY <1>1 DEF SaleOf
<1>3. pnl \in Int /\ positions[id].realizedPnlUsdc \in Int
  BY LedgerFacts
<1> HIDE DEF pnl
<1>4. positions[id].realizedPnlUsdc + pnl \in Int
  BY <1>3
<1>5. PnlBounded(id, pnl)
  BY <1>4 DEF PnlBounded, Unbounded
<1>6. tokens \in Amounts /\ released \in Amounts /\ pnl \in PnlDeltas
  BY <1>3 DEF Unbounded
<1>7. CASE mode = "Ladder"
  <2>1. applyLadderExit(id, tokens, released, pnl)
    BY <1>1, <1>2, <1>7 DEF applyLadderExit
  <2>2. CallLadderExit(id, tokens, released, pnl)
    BY <1>2, <1>5, <1>7, <2>1 DEF CallLadderExit
  <2> QED
    BY <1>6, <2>2 DEF PMNext
<1>8. CASE mode # "Ladder"
  <2>1. applyDiscretionaryReduce(id, tokens, released, pnl)
    BY <1>1, <1>2, <1>8 DEF applyDiscretionaryReduce
  <2>2. CallReduce(id, tokens, released, pnl)
    BY <1>2, <1>5, <2>1 DEF CallReduce
  <2> QED
    BY <1>6, <2>2 DEF PMNext
<1> QED
  BY <1>7, <1>8

LEMMA SaleStepCalls ==
    ASSUME Unbounded, RouterInv, NEW id \in PositionIds,
           \/ \E exitBps \in ExitShares : ReducePosition(id, exitBps)
           \/ ExecuteExit(id) \/ ForceClose(id)
    PROVE  PMNext
<1> DEFINE held == positions[id].tokenAmount
           all == MAX_BPS
<1>1. held \in Nat /\ all \in Nat /\ all > 0
  BY LedgerFacts DEF MAX_BPS
<1>2. \A x \in Nat : MulDiv(held, x, all) \in Nat
  <2> HIDE DEF held, all
  <2> QED
    BY <1>1, MulDivNat
<1>3. ASSUME NEW exitBps \in ExitShares, ReducePosition(id, exitBps) PROVE PMNext
  <2> DEFINE tokens == MulDiv(held, exitBps, all)
  <2>1. IsOpen(id) /\ tokens > 0 /\ sell(id, tokens, "Discretionary")
    BY <1>3 DEF ReducePosition
  <2>2. tokens \in Nat
    BY <1>2, RouterAssumption
  <2> HIDE DEF tokens, held, all
  <2> QED
    BY <2>1, <2>2, SellCalls
<1>4. CASE ExecuteExit(id)
  <2> DEFINE rule == getNextExitRule(id)
             tokens == MulDiv(held, rule.exitBps, all)
  <2>1. IsOpen(id) /\ HasNextExitRule(id) /\ tokens > 0 /\ sell(id, tokens, "Ladder")
    BY <1>4 DEF ExecuteExit
  <2>2. rule.exitBps \in Nat
    BY <2>1, NextRuleType
  <2>3. tokens \in Nat
    BY <1>2, <2>2
  <2>4. rule.exitBps = all => tokens = held
    <3> HIDE DEF held, all, rule
    <3> QED
      BY <1>1, <2>2, ShareFacts
  <2>5. getNextExitRule(id).exitBps = MAX_BPS => tokens = positions[id].tokenAmount
    BY <2>4
  <2> HIDE DEF tokens
  <2> QED
    BY <2>1, <2>3, <2>5, SellCalls
<1>5. CASE ForceClose(id)
  <2>1. IsOpen(id) /\ sell(id, held, "ForceClose") /\ held > 0
    BY <1>5, LedgerFacts DEF ForceClose
  <2> HIDE DEF held
  <2> QED
    BY <1>1, <2>1, SellCalls
<1> QED
  BY <1>3, <1>4, <1>5

LEMMA LadderCalls ==
    ASSUME Unbounded, RouterInv, NEW id \in PositionIds, NEW exits \in SignedLadders,
           UpdateExitLadder(id, exits)
    PROVE  PMNext
<1>1. exits \in Ladders
  BY DEF Unbounded, UpdateExitLadder, ExitRulesAllowed
<1>2. CallUpdateRules(id, exits)
  BY DEF UpdateExitLadder, CallUpdateRules
<1> QED
  BY <1>1, <1>2 DEF PMNext

LEMMA RouterStepIsPMStep ==
    ASSUME Unbounded, RouterInv, [RouterNext]_protocolVars
    PROVE  [PMNext]_pmVars
<1>1. CASE AgentStep
  BY <1>1, OpenCalls, AddCalls, SaleStepCalls, LadderCalls DEF AgentStep
<1>2. CASE KeeperStep \/ OperatorStep
  BY <1>2, SaleStepCalls DEF KeeperStep, OperatorStep
<1>3. CASE Environment
  BY <1>3 DEF Environment, GovernanceStep, VaultStep, LiquidityStep, TokenStep, OracleStep,
              NextDay, SetKeeperBounty, marketVars
<1>4. CASE UNCHANGED protocolVars
  BY <1>4 DEF protocolVars, marketVars
<1> QED
  BY <1>1, <1>2, <1>3, <1>4 DEF RouterNext, Trade

\* The position manager under the router behaves as module PositionManager says: its
\* assumptions on callers are what the router guarantees, sale for sale.
THEOREM RouterImplementsPM == Unbounded => (RouterSpec => PMSpec)
<1> SUFFICES ASSUME Unbounded PROVE RouterSpec => PMSpec
  OBVIOUS
<1>1. RouterInit => PMInit
  BY DEF RouterInit
<1>2. RouterInv /\ [RouterNext]_protocolVars => [PMNext]_pmVars
  BY RouterStepIsPMStep
<1> QED
  BY <1>1, <1>2, RouterInvariant, PTL DEF RouterSpec, PMSpec

\* Nor does a trade of any kind rewrite the past of a position.
THEOREM RouterHistoryKept == Unbounded => (RouterSpec => HistoryFrozen)
  BY RouterImplementsPM, HistoryKept

-----------------------------------------------------------------------------
(* A sale is refused for reasons outside the books only.  ENABLED is out of *)
(* the prover's reach, so that a sale can be executed is stated in its two   *)
(* halves: the guards that compare one book with another (BooksAllow) hold   *)
(* in every reachable state, for every position and every amount; and they   *)
(* are, with what the market and the administrators decide (MarketAllows),   *)
(* all that the sale asks: the step that makes its assignments (SaleWrites,  *)
(* one for each variable, so that such a step exists) is the sale.           *)

\* The cost that a sale of n tokens releases.
CostOf(id, n) == MulDiv(positions[id].usdcCostBasis, n, positions[id].tokenAmount)

\* What _reducePositionSize, _sell and _pullToken subtract is there to subtract from.
BooksAllow(id, n) ==
    LET p == positions[id]
    IN  /\ n <= p.tokenAmount /\ CostOf(id, n) <= p.usdcCostBasis
        /\ n <= agentTokenBalance[p.agentId][p.token]
        /\ n <= totalTokenLedger[p.token]
        /\ n <= tokenBalance[p.vault][p.token]
        /\ CostOf(id, n) <= allocations[p.agentId].used
        /\ HasNextExitRule(id)

\* The prices are fresh, the intent's slippage is a share, the mandate lists the token,
\* the vault trades within its limits (or the operator closes), the cap covers what
\* stays in use, and no other vault's tokens are in the ledger of this one's.
MarketAllows(id, n, mode) ==
    LET p == positions[id]
        a == p.agentId
    IN  /\ fresh[p.token]
        /\ LensSet => \A k \in OpenIds : positions[k].agentId = a => fresh[positions[k].token]
        /\ p.maxSlippageBps <= MAX_BPS
        /\ mandateToken[p.vault][p.token] = "Enabled"
        /\ mode # "ForceClose" =>
             /\ ~tradingPaused[p.vault]
             /\ WithinDailyTurnover(a, minUsdcOut(valueInAsset(n, p.token), p.maxSlippageBps))
        /\ allocations[a].used - CostOf(id, n) <= allocations[a].cap
        /\ totalTokenLedger[p.token] <= tokenBalance[p.vault][p.token]

\* The assignments of a sale, none of its guards.
LedgerWrites(id, n, pnl, ruleIndex) ==
    LET p == positions[id]
        closes == p.tokenAmount = n
    IN  /\ positions' = [positions EXCEPT ![id] =
             [p EXCEPT !.tokenAmount = @ - n,
                       !.usdcCostBasis = @ - CostOf(id, n),
                       !.realizedPnlUsdc = @ + pnl,
                       !.nextRuleIndex = ruleIndex,
                       !.status = IF closes THEN "Closed" ELSE @]]
        /\ agentTokenBalance' = [agentTokenBalance EXCEPT ![p.agentId][p.token] = @ - n]
        /\ totalTokenLedger' = [totalTokenLedger EXCEPT ![p.token] = @ - n]
        /\ openPositionId' = IF closes
                             THEN [openPositionId EXCEPT ![p.agentId][p.token] = 0]
                             ELSE openPositionId
        /\ openPositionIdsByAgent' =
             IF closes
             THEN [openPositionIdsByAgent EXCEPT ![p.agentId] = SwapAndPop(@, id)]
             ELSE openPositionIdsByAgent
        /\ exitRules' = exitRules

SaleWrites(id, n, mode) ==
    LET p == positions[id]
        a == p.agentId
        force == mode = "ForceClose"
        usdcOut == valueInAsset(n, p.token)
        pnl == realizedPnl(usdcOut, CostOf(id, n))
        bounty == IF mode = "Ladder" THEN bountyOf(usdcOut) ELSE 0
        open == {positions'[id2] : id2 \in {k \in DOMAIN positions' :
                    positions'[k].agentId = a /\ positions'[k].status = "Open"}}
    IN  /\ LedgerWrites(id, n, pnl,
                        IF mode = "Ladder" THEN p.nextRuleIndex + 1 ELSE p.nextRuleIndex)
        /\ tokenBalance' = [tokenBalance EXCEPT ![p.vault][p.token] = @ - n]
        /\ idleAssets' = [idleAssets EXCEPT ![p.vault] = @ + netProceeds(usdcOut, bounty)]
        /\ UNCHANGED <<mandateToken, tradingPaused, lpUsdc>>
        /\ allocations' = [allocations EXCEPT ![a].used = @ - CostOf(id, n)]
        /\ UNCHANGED totalAgentCaps
        /\ dailyTurnover' = [dailyTurnover EXCEPT ![a] = IF force THEN @ ELSE @ + usdcOut]
        /\ recordRealizedPnl(a, pnl)
        /\ keeperUsdc' = [keeperUsdc EXCEPT ![p.vault] = @ + bounty]
        /\ IF LensSet
           THEN onTrade(a, IF force THEN 0 ELSE usdcOut, FALSE, closesPosition(p, n), TRUE,
                        equity(allocations'[a].cap, lifetimePnl'[a], open))
           ELSE UNCHANGED lensVars
        /\ UNCHANGED <<agentVars, feeVars, vaultTrackConfigs, tokenVars, keeperBounty>>

\* The shares of an open position are in every book that is kept of them.
LEMMA BooksCover ==
    ASSUME RouterInv, UsedIsCostBasis, NEW id \in OpenIds,
           NEW n \in 1 .. positions[id].tokenAmount
    PROVE  BooksAllow(id, n)
<1> DEFINE p == positions[id]
           a == p.agentId
           v == p.vault
           t == p.token
<1>1. id \in PositionIds /\ IsOpen(id)
  BY DEF OpenIds
<1>2. /\ positions \in Seq(Position) /\ a \in AgentIds /\ v \in Vaults /\ t \in Tokens
      /\ p.tokenAmount \in Nat /\ p.tokenAmount > 0 /\ p.usdcCostBasis \in Nat
  BY <1>1, LedgerFacts
<1>3. n \in Nat /\ n <= p.tokenAmount
  BY <1>2
<1>4. CostOf(id, n) \in Nat /\ CostOf(id, n) <= p.usdcCostBasis
  <2>1. /\ MulDiv(p.usdcCostBasis, n, p.tokenAmount) \in Nat
        /\ MulDiv(p.usdcCostBasis, n, p.tokenAmount) <= p.usdcCostBasis
    <3> HIDE DEF p
    <3> QED
      BY <1>2, <1>3, ShareFacts
  <2> QED
    BY <2>1 DEF CostOf
<1>5. /\ PMTypeOK /\ OnePositionPerToken /\ BalanceIsPosition /\ LadderNeverExhausted
      /\ TotalLedgerIsSum /\ InventoryBacksPositions
      /\ tokenBalance \in [Vaults -> [Tokens -> Nat]]
  BY DEF RouterInv, PMInv, Books, MarketTypeOK, VaultTypeOK
<1>6. agentTokenBalance[a][t] = p.tokenAmount
  <2>1. openPositionId[a][t] = id /\ id # 0
    BY <1>1, <1>2, <1>5 DEF OnePositionPerToken, PositionIds
  <2> QED
    BY <1>2, <1>5, <2>1 DEF BalanceIsPosition
<1>7. p.tokenAmount <= totalTokenLedger[t]
  <2> DEFINE balance == [b \in AgentIds |-> agentTokenBalance[b][t]]
  <2>1. \A b \in AgentIds : balance[b] \in Nat
    BY <1>2, <1>5 DEF PMTypeOK
  <2>2. totalTokenLedger[t] = SumFunctionOnSet(balance, AgentIds)
    BY <1>2, <1>5 DEF TotalLedgerIsSum, SumFunction
  <2>3. balance[a] = p.tokenAmount
    BY <1>2, <1>6
  <2> HIDE DEF balance, p, a
  <2>4. balance[a] <= SumFunctionOnSet(balance, AgentIds)
    BY <1>2, <2>1, IdentitiesAssumption, SumNat
  <2> QED
    BY <2>2, <2>3, <2>4
<1>8. p.tokenAmount <= tokenBalance[v][t]
  <2> DEFINE S == {k \in PositionIds : positions[k].vault = v /\ positions[k].token = t}
             amount == [k \in PositionIds |-> positions[k].tokenAmount]
  <2>1. id \in S /\ S \subseteq PositionIds /\ IsFiniteSet(S)
    BY <1>1, <1>2, GroupsFinite
  <2>2. \A k \in S : amount[k] \in Nat
    BY LedgerFacts
  <2>3. amount[id] = p.tokenAmount
    BY <1>1
  <2>4. tokenBalance[v][t] = SumFunctionOnSet(amount, S)
    BY <1>2, <1>5 DEF InventoryBacksPositions, Held
  <2> HIDE DEF amount, S, p, v, t
  <2>5. amount[id] <= SumFunctionOnSet(amount, S)
    BY <2>1, <2>2, SumNat
  <2> QED
    BY <2>3, <2>4, <2>5
<1>9. p.usdcCostBasis <= allocations[a].used
  <2> DEFINE S == {k \in PositionIds : positions[k].agentId = a}
             cost == [k \in PositionIds |-> positions[k].usdcCostBasis]
  <2>1. id \in S /\ S \subseteq PositionIds /\ IsFiniteSet(S)
    BY <1>1, <1>2, GroupsFinite
  <2>2. \A k \in S : cost[k] \in Nat
    BY LedgerFacts
  <2>3. cost[id] = p.usdcCostBasis
    BY <1>1
  <2>4. allocations[a].used = SumFunctionOnSet(cost, S)
    BY <1>2 DEF UsedIsCostBasis, Deployed
  <2> HIDE DEF cost, S, p, a
  <2>5. cost[id] <= SumFunctionOnSet(cost, S)
    BY <2>1, <2>2, SumNat
  <2> QED
    BY <2>3, <2>4, <2>5
<1>10. /\ totalTokenLedger[t] \in Nat /\ tokenBalance[v][t] \in Nat
       /\ allocations[a].used \in Nat
  BY <1>2, <1>5, AgentFacts DEF PMTypeOK
<1>11. HasNextExitRule(id)
  BY <1>5 DEF LadderNeverExhausted
<1>12. /\ n <= agentTokenBalance[a][t] /\ n <= totalTokenLedger[t] /\ n <= tokenBalance[v][t]
       /\ CostOf(id, n) <= allocations[a].used
  <2> HIDE DEF p, a, v, t
  <2> QED
    BY <1>2, <1>3, <1>4, <1>6, <1>7, <1>8, <1>9, <1>10
<1> QED
  BY <1>3, <1>4, <1>11, <1>12 DEF BooksAllow

\* After the sale the lens still reads prices it could read before.
LEMMA LensReads ==
    ASSUME RouterInv, NEW id \in OpenIds, NEW n, NEW mode, MarketAllows(id, n, mode), LensSet,
           NEW pnl, NEW idx, LedgerWrites(id, n, pnl, idx), NEW k \in DOMAIN positions',
           positions'[k].agentId = positions[id].agentId, positions'[k].status = "Open"
    PROVE  fresh[positions'[k].token]
<1> DEFINE p == positions[id]
           q == [p EXCEPT !.tokenAmount = @ - n,
                          !.usdcCostBasis = @ - CostOf(id, n),
                          !.realizedPnlUsdc = @ + pnl,
                          !.nextRuleIndex = idx,
                          !.status = IF p.tokenAmount = n THEN "Closed" ELSE @]
<1>1. positions' = [positions EXCEPT ![id] = q]
  BY DEF LedgerWrites
<1>2. id \in PositionIds /\ p \in Position /\ positions \in Seq(Position)
  BY LedgerFacts DEF OpenIds
<1>3. q.token = p.token
  BY <1>2 DEF Position
<1>4. /\ fresh[p.token]
      /\ \A j \in OpenIds : positions[j].agentId = p.agentId => fresh[positions[j].token]
  BY DEF MarketAllows
<1> HIDE DEF q
<1>5. CASE k = id
  BY <1>1, <1>2, <1>3, <1>4, <1>5 DEF PositionIds
<1>6. CASE k # id
  <2>1. k \in PositionIds /\ positions'[k] = positions[k]
    BY <1>1, <1>2, <1>6 DEF PositionIds
  <2> QED
    BY <1>4, <2>1 DEF OpenIds, IsOpen
<1> QED
  BY <1>5, <1>6

\* The guards of a sale are those two.
LEMMA SaleGuards ==
    ASSUME RouterInv, NEW id \in OpenIds, NEW n \in 1 .. positions[id].tokenAmount,
           NEW mode \in {"Discretionary", "Ladder", "ForceClose"},
           BooksAllow(id, n), MarketAllows(id, n, mode), SaleWrites(id, n, mode)
    PROVE  sell(id, n, mode)
<1> DEFINE p == positions[id]
           a == p.agentId
           v == p.vault
           t == p.token
           usdcOut == valueInAsset(n, t)
           released == CostOf(id, n)
           pnl == realizedPnl(usdcOut, released)
           bounty == IF mode = "Ladder" THEN bountyOf(usdcOut) ELSE 0
           idx == IF mode = "Ladder" THEN p.nextRuleIndex + 1 ELSE p.nextRuleIndex
           turnover == IF mode = "ForceClose" THEN 0 ELSE usdcOut
           open == {positions'[id2] : id2 \in {k \in DOMAIN positions' :
                      positions'[k].agentId = a /\ positions'[k].status = "Open"}}
<1>1. id \in PositionIds /\ IsOpen(id)
  BY DEF OpenIds
<1>2. /\ a \in AgentIds /\ v \in Vaults /\ t \in Tokens /\ n \in Nat
      /\ a \in DOMAIN allocations /\ allocations[a] \in Allocation
      /\ totalTokenLedger \in [Tokens -> Nat] /\ tokenBalance \in [Vaults -> [Tokens -> Nat]]
  <2> HIDE DEF usdcOut, released, pnl, bounty, idx, turnover, open
  <2>1. a \in AgentIds /\ v \in Vaults /\ t \in Tokens /\ positions[id].tokenAmount \in Nat
    BY <1>1, LedgerFacts
  <2>2. n \in Nat
    BY <2>1
  <2>3. a \in DOMAIN allocations /\ allocations[a] \in Allocation
    <3> HIDE DEF a
    <3> QED
      BY <2>1, AgentFacts
  <2>4. PMTypeOK /\ MarketTypeOK
    BY DEF RouterInv, PMInv
  <2>5. totalTokenLedger \in [Tokens -> Nat] /\ tokenBalance \in [Vaults -> [Tokens -> Nat]]
    <3> HIDE DEF a, v, t, p
    <3> QED
      BY <2>4 DEF PMTypeOK, MarketTypeOK, VaultTypeOK
  <2> QED
    BY <2>1, <2>2, <2>3, <2>5
<1>3. LedgerWrites(id, n, pnl, idx)
  BY DEF SaleWrites
<1>4. reducePositionSize(id, n, released, pnl, idx)
  <2> HIDE DEF pnl, idx
  <2> QED
    BY <1>3 DEF LedgerWrites, reducePositionSize, BooksAllow
<1>5. IF mode = "Ladder" THEN applyLadderExit(id, n, released, pnl)
                         ELSE applyDiscretionaryReduce(id, n, released, pnl)
  <2>1. HasNextExitRule(id)
    BY DEF BooksAllow
  <2> HIDE DEF pnl, released
  <2> QED
    BY <1>1, <1>4, <2>1 DEF applyLadderExit, applyDiscretionaryReduce
<1>6. sellForTrade(v, t, n, usdcOut, bounty, mode = "ForceClose")
  <2>1. /\ mandateToken[v][t] = "Enabled" /\ n <= tokenBalance[v][t]
        /\ mode = "ForceClose" \/ ~tradingPaused[v]
    BY DEF MarketAllows, BooksAllow
  <2>2. /\ tokenBalance' = [tokenBalance EXCEPT ![v][t] = @ - n]
        /\ idleAssets' = [idleAssets EXCEPT ![v] = @ + netProceeds(usdcOut, bounty)]
        /\ UNCHANGED <<mandateToken, tradingPaused, lpUsdc>>
    BY DEF SaleWrites
  <2> HIDE DEF usdcOut, bounty, v, t
  <2> QED
    BY <2>1, <2>2 DEF sellForTrade, settleSell, pullToken
<1>7. releaseUsed(a, released)
  <2>1. released <= allocations[a].used /\ allocations[a].used - released <= allocations[a].cap
    BY DEF BooksAllow, MarketAllows
  <2>2. allocations' = [allocations EXCEPT ![a].used = allocations[a].used - released]
        /\ UNCHANGED totalAgentCaps
    <3>1. allocations' = [allocations EXCEPT ![a].used = @ - released]
          /\ UNCHANGED totalAgentCaps
      BY DEF SaleWrites
    <3> HIDE DEF released, a
    <3> QED
      BY <3>1
  <2> HIDE DEF released, a
  <2> QED
    BY <1>2, <2>1, <2>2 DEF releaseUsed, setAllocationUsed, HasAllocation
<1>8. notifyLens(a, turnover, FALSE, closesPosition(p, n))
  <2>1. IF LensSet
        THEN onTrade(a, turnover, FALSE, closesPosition(p, n), TRUE,
                     equity(allocations'[a].cap, lifetimePnl'[a], open))
        ELSE UNCHANGED lensVars
    BY DEF SaleWrites
  <2>2. UNCHANGED fresh
    BY DEF SaleWrites, tokenVars
  <2>3. LensSet => \A q \in open : canValue(q.tokenAmount, q.token)
    <3> HIDE DEF pnl, idx
    <3> QED
      BY <1>3, LensReads DEF canValue
  <2> HIDE DEF turnover, open
  <2>4. LensSet => onTrade(a, turnover, FALSE, closesPosition(p, n),
                           \A q \in open : canValue(q.tokenAmount, q.token),
                           equity(allocations'[a].cap, lifetimePnl'[a], open))
    BY <2>1, <2>3 DEF onTrade
  <2> QED
    BY <2>1, <2>4 DEF notifyLens, open
<1>9. LedgerBackedAfter(v, t)
  <2>1. totalTokenLedger[t] <= tokenBalance[v][t]
    BY DEF MarketAllows
  <2>2. /\ totalTokenLedger' = [totalTokenLedger EXCEPT ![t] = @ - n]
        /\ tokenBalance' = [tokenBalance EXCEPT ![v][t] = @ - n]
    BY <1>3 DEF SaleWrites, LedgerWrites
  <2> HIDE DEF v, t
  <2>3. /\ totalTokenLedger'[t] = totalTokenLedger[t] - n
        /\ tokenBalance'[v][t] = tokenBalance[v][t] - n
    BY <1>2, <2>2
  <2>4. totalTokenLedger[t] \in Nat /\ tokenBalance[v][t] \in Nat
    BY <1>2
  <2> QED
    BY <1>2, <2>1, <2>3, <2>4 DEF LedgerBackedAfter
<1>10. /\ n <= p.tokenAmount /\ fresh[t] /\ p.maxSlippageBps <= MAX_BPS
       /\ mode = "ForceClose" \/ WithinDailyTurnover(a, minUsdcOut(usdcOut, p.maxSlippageBps))
  BY DEF BooksAllow, MarketAllows
<1>11. /\ dailyTurnover' = [dailyTurnover EXCEPT ![a] =
                              IF mode = "ForceClose" THEN @ ELSE @ + usdcOut]
       /\ recordRealizedPnl(a, pnl)
       /\ keeperUsdc' = [keeperUsdc EXCEPT ![v] = @ + bounty]
       /\ UNCHANGED <<agentVars, feeVars, vaultTrackConfigs, tokenVars, keeperBounty>>
  BY DEF SaleWrites
<1>12. released = MulDiv(p.usdcCostBasis, n, p.tokenAmount)
  BY DEF CostOf
<1> QED
  BY <1>5, <1>6, <1>7, <1>8, <1>9, <1>10, <1>11, <1>12 DEF sell

\* No sale of an open position, of any size, is ever refused because one book has less
\* than another: not by the position manager, the allocation or the vault's inventory.
THEOREM SalesBooked ==
    UsedInputs = {} =>
      (RouterSpec => [](\A id \in OpenIds : \A n \in 1 .. positions[id].tokenAmount :
                          BooksAllow(id, n)))
<1> SUFFICES ASSUME UsedInputs = {}
             PROVE  RouterSpec => [](\A id \in OpenIds : \A n \in 1 .. positions[id].tokenAmount :
                                       BooksAllow(id, n))
  OBVIOUS
<1>1. ExposureInv => \A id \in OpenIds : \A n \in 1 .. positions[id].tokenAmount :
                       BooksAllow(id, n)
  BY BooksCover DEF ExposureInv
<1> QED
  BY <1>1, ExposureInvariant, PTL

\* forceClose: in every state of the invariant the operator can close any open position of
\* a suspended agent, whether the vault trades or not, unless the market refuses it.
THEOREM ForceCloseAccepted ==
    ASSUME UsedInputs = {}, ExposureInv, NEW id \in OpenIds,
           agents[positions[id].agentId].status = "Suspended",
           MarketAllows(id, positions[id].tokenAmount, "ForceClose"),
           SaleWrites(id, positions[id].tokenAmount, "ForceClose"), UNCHANGED nonces
    PROVE  ForceClose(id)
<1> DEFINE n == positions[id].tokenAmount
<1>1. id \in PositionIds /\ IsOpen(id) /\ RouterInv /\ UsedIsCostBasis
  BY DEF OpenIds, ExposureInv
<1>2. n \in 1 .. positions[id].tokenAmount
  BY <1>1, LedgerFacts
<1>3. BooksAllow(id, n)
  BY <1>1, <1>2, BooksCover
<1>4. sell(id, n, "ForceClose")
  BY <1>1, <1>2, <1>3, SaleGuards
<1> QED
  BY <1>1, <1>4 DEF ForceClose

\* executeExit: in every state of the invariant a keeper can execute the next rule of any
\* open position when its trigger has fired and its share is at least one token unit
\* and at most everything, unless the market refuses it.
THEOREM TriggeredExitAccepted ==
    ASSUME UsedInputs = {}, ExposureInv, NEW id \in OpenIds,
           IsTriggered(getNextExitRule(id), positionPnlBps(positions[id])),
           NEW n, n = MulDiv(positions[id].tokenAmount, getNextExitRule(id).exitBps, MAX_BPS),
           n > 0, getNextExitRule(id).exitBps <= MAX_BPS,
           MarketAllows(id, n, "Ladder"), SaleWrites(id, n, "Ladder"), UNCHANGED nonces
    PROVE  ExecuteExit(id)
<1> DEFINE p == positions[id]
           share == getNextExitRule(id).exitBps
<1>1. id \in PositionIds /\ IsOpen(id) /\ RouterInv /\ UsedIsCostBasis
  BY DEF OpenIds, ExposureInv
<1>2. HasNextExitRule(id)
  BY <1>1 DEF RouterInv, PMInv, LadderNeverExhausted
<1>3. share \in Nat /\ p.tokenAmount \in Nat
  BY <1>1, <1>2, NextRuleType, LedgerFacts
<1>4. n \in 1 .. p.tokenAmount
  <2> DEFINE all == MAX_BPS
  <2>1. all \in Nat /\ all > 0 /\ share <= all /\ n = MulDiv(p.tokenAmount, share, all)
    BY DEF MAX_BPS
  <2> HIDE DEF all, share, p
  <2>2. n \in Nat /\ n <= p.tokenAmount
    BY <1>3, <2>1, ShareFacts
  <2> QED
    BY <1>3, <2>2
<1>5. BooksAllow(id, n)
  BY <1>1, <1>4, BooksCover
<1>6. sell(id, n, "Ladder")
  BY <1>1, <1>4, <1>5, SaleGuards
<1>7. fresh[p.token]
  BY DEF MarketAllows
<1> QED
  BY <1>1, <1>2, <1>6, <1>7 DEF ExecuteExit

\* What _assertLedgerInvariant asserts of one vault and one token after a trade, of all.
LedgerBacked == \A v \in Vaults, t \in Tokens : totalTokenLedger[t] <= tokenBalance[v][t]

LEMMA BackingKeeps ==
    ASSUME \A v, w \in Vaults : v = w, RouterInv, LedgerBacked, [RouterNext]_protocolVars
    PROVE  LedgerBacked'
<1>1. ASSUME UNCHANGED <<totalTokenLedger, tokenBalance>> PROVE LedgerBacked'
  BY <1>1 DEF LedgerBacked
<1>2. ASSUME NEW v \in Vaults, NEW t \in Tokens, LedgerBackedAfter(v, t),
             \A s \in Tokens \ {t} : /\ totalTokenLedger'[s] = totalTokenLedger[s]
                                     /\ tokenBalance'[v][s] = tokenBalance[v][s]
      PROVE  LedgerBacked'
  <2> SUFFICES ASSUME NEW w \in Vaults, NEW s \in Tokens
               PROVE  totalTokenLedger'[s] <= tokenBalance'[w][s]
    BY DEF LedgerBacked
  <2>1. w = v
    OBVIOUS
  <2> QED
    BY <1>2, <2>1 DEF LedgerBacked, LedgerBackedAfter
<1>3. totalTokenLedger \in [Tokens -> Nat] /\ tokenBalance \in [Vaults -> [Tokens -> Nat]]
  BY DEF RouterInv, PMInv, PMTypeOK, MarketTypeOK, VaultTypeOK
<1>4. ASSUME NEW v \in Vaults, NEW t \in Tokens, NEW d \in Int, NEW e \in Int,
             totalTokenLedger' = [totalTokenLedger EXCEPT ![t] = @ + d],
             tokenBalance' = [tokenBalance EXCEPT ![v][t] = @ + e],
             LedgerBackedAfter(v, t)
      PROVE  LedgerBacked'
  BY <1>2, <1>3, <1>4
<1>5. ASSUME NEW a \in AgentIds, NEW t \in Tokens, NEW usdc \in TradeAmounts,
             NEW slip \in Slippages, NEW exits \in SignedLadders,
             OpenPosition(a, t, usdc, slip, exits)
      PROVE  LedgerBacked'
  <2> DEFINE v == vaultOf(a)
             tokens == usdcToTokenAmount(usdc, t)
  <2>1. v \in Vaults /\ tokens \in Int
    <3>1. TokenTypeOK /\ usdc \in Nat
      BY RouterAssumption DEF RouterInv, MarketTypeOK
    <3> QED
      BY <3>1, AgentFacts, PriceFacts
  <2>2. /\ totalTokenLedger' = [totalTokenLedger EXCEPT ![t] = @ + tokens]
        /\ tokenBalance' = [tokenBalance EXCEPT ![v][t] = @ + tokens]
        /\ LedgerBackedAfter(v, t)
    BY <1>5 DEF OpenPosition, openPosition, recordPosition, creditTokens, buyForTrade, settleBuy
  <2> HIDE DEF v, tokens
  <2> QED
    BY <1>4, <2>1, <2>2
<1>6. ASSUME NEW id \in PositionIds, NEW usdc \in TradeAmounts, NEW slip \in Slippages,
             AddToPosition(id, usdc, slip)
      PROVE  LedgerBacked'
  <2> DEFINE v == positions[id].vault
             t == positions[id].token
             added == usdcToTokenAmount(usdc, t)
  <2>1. v \in Vaults /\ t \in Tokens /\ added \in Int
    <3>1. TokenTypeOK /\ usdc \in Nat
      BY RouterAssumption DEF RouterInv, MarketTypeOK
    <3>2. v \in Vaults /\ t \in Tokens
      BY LedgerFacts
    <3> HIDE DEF t
    <3> QED
      BY <3>1, <3>2, PriceFacts
  <2>2. /\ totalTokenLedger' = [totalTokenLedger EXCEPT ![t] = @ + added]
        /\ tokenBalance' = [tokenBalance EXCEPT ![v][t] = @ + added]
        /\ LedgerBackedAfter(v, t)
    BY <1>6 DEF AddToPosition, increasePosition, creditTokens, buyForTrade, settleBuy
  <2> HIDE DEF v, t, added
  <2> QED
    BY <1>4, <2>1, <2>2
<1>7. ASSUME NEW id \in PositionIds,
             \/ \E exitBps \in ExitShares : ReducePosition(id, exitBps)
             \/ ExecuteExit(id) \/ ForceClose(id)
      PROVE  LedgerBacked'
  <2> DEFINE v == positions[id].vault
             t == positions[id].token
  <2>1. v \in Vaults /\ t \in Tokens
    BY LedgerFacts
  <2>2. PICK tokens, usdcOut, bounty, released, turnover, idx \in Nat :
          SaleOf(id, tokens, usdcOut, bounty, released, turnover, idx)
    BY <1>7, SaleCalls
  <2>3. LedgerBackedAfter(v, t)
    BY <1>7 DEF ReducePosition, ExecuteExit, ForceClose, sell
  <2>4. /\ totalTokenLedger' = [totalTokenLedger EXCEPT ![t] = @ - tokens]
        /\ tokenBalance' = [tokenBalance EXCEPT ![v][t] = @ - tokens]
    BY <2>2 DEF SaleOf, Sold, reducePositionSize
  <2> HIDE DEF v, t
  <2>5. \A s \in Tokens \ {t} : /\ totalTokenLedger'[s] = totalTokenLedger[s]
                                /\ tokenBalance'[v][s] = tokenBalance[v][s]
    BY <1>3, <2>1, <2>4
  <2> QED
    BY <1>2, <2>1, <2>3, <2>5
<1>8. CASE AgentStep
  BY <1>1, <1>5, <1>6, <1>7, <1>8
  DEF AgentStep, UpdateExitLadder, updatePendingExitRules, vaultVars, inventoryVars
<1>9. CASE KeeperStep \/ OperatorStep
  BY <1>7, <1>9 DEF KeeperStep, OperatorStep
<1>10. CASE Environment
  BY <1>1, <1>10
  DEF Environment, GovernanceStep, VaultStep, LiquidityStep, TokenStep, OracleStep, NextDay,
      SetKeeperBounty, marketVars, pmVars, vaultVars, inventoryVars, setTradingPaused,
      enableToken, setTokenEnabled, depositIdle, withdrawIdle
<1>11. CASE UNCHANGED protocolVars
  BY <1>1, <1>11 DEF protocolVars, marketVars, pmVars, vaultVars, inventoryVars
<1> QED
  BY <1>8, <1>9, <1>10, <1>11 DEF RouterNext, Trade

\* The one condition of MarketAllows that other vaults decide always holds when there is
\* a single vault: no sale can be refused by _assertLedgerInvariant.
THEOREM LedgerBackedCorrect ==
    (\A v, w \in Vaults : v = w) => (RouterSpec => []LedgerBacked)
<1> SUFFICES ASSUME \A v, w \in Vaults : v = w PROVE RouterSpec => []LedgerBacked
  OBVIOUS
<1>1. RouterInit => LedgerBacked
  BY DEF RouterInit, PMInit, LedgerBacked
<1>2. RouterInv /\ LedgerBacked /\ [RouterNext]_protocolVars => LedgerBacked'
  BY BackingKeeps
<1> QED
  BY <1>1, <1>2, RouterInvariant, PTL DEF RouterSpec
=============================================================================
