------------------------ MODULE AgentRegistryProofs ------------------------
(***************************************************************************)
(* For every set of agents, accounts, vaults and identities: the registry  *)
(* and the allocation manager agree about every agent, the owner index is  *)
(* exact and an ERC-8004 identity stands for at most one agent.            *)
(***************************************************************************)
EXTENDS AgentRegistry, DataProofs

AgentTypeOK ==
    /\ agents \in Seq(Agent) /\ RegisteredIds \subseteq AgentIds
    /\ agentIdsByOwner \in [Accounts -> Seq(Nat)]
    /\ agentIdByErc8004 \in [Erc8004Ids -> Nat]
    /\ signerNonces \in [Accounts -> Nat]
    /\ registryPaused \in BOOLEAN
    /\ erc8004Owner \in [Erc8004Ids -> Accounts]

FeeTypeOK ==
    /\ registrationFee \in Nat /\ treasuryUsdc \in Nat
    /\ promotionFee \in [Vaults -> [Track -> Nat]]
    /\ accountUsdc \in [Accounts -> Nat]

\* What the registry itself stores; it is inductive without the other contracts.
AgentInv == AgentTypeOK /\ OwnerIndexExact /\ LinkExact

AllocationInv == AllocationTypeOK /\ AllocationTracksAgent

RegistryInv == AgentInv /\ FeeTypeOK /\ AllocationInv

-----------------------------------------------------------------------------
(* The registry's own storage. *)

LEMMA AgentInvUnchanged ==
    ASSUME AgentInv, UNCHANGED agentVars
    PROVE  AgentInv'
  BY DEF AgentInv, AgentTypeOK, OwnerIndexExact, LinkExact, agentVars, identityVars,
         RegisteredIds

\* A handler that rewrites one agent and keeps its owner and identity.
LEMMA FieldKeeps ==
    ASSUME AgentInv, NEW a \in RegisteredIds, NEW q \in Agent,
           q.owner = agents[a].owner, q.erc8004 = agents[a].erc8004,
           agents' = [agents EXCEPT ![a] = q],
           UNCHANGED <<agentIdsByOwner, agentIdByErc8004, erc8004Owner>>,
           signerNonces' \in [Accounts -> Nat], registryPaused' \in BOOLEAN
    PROVE  AgentInv'
<1>1. /\ agents' \in Seq(Agent) /\ DOMAIN agents' = DOMAIN agents
      /\ \A b \in DOMAIN agents : agents'[b] = IF b = a THEN q ELSE agents[b]
  BY ExceptFacts DEF AgentInv, AgentTypeOK, RegisteredIds
<1>2. \A b \in DOMAIN agents : /\ agents'[b].owner = agents[b].owner
                               /\ agents'[b].erc8004 = agents[b].erc8004
  BY <1>1
<1>3. AgentTypeOK'
  BY <1>1 DEF AgentInv, AgentTypeOK, RegisteredIds
<1>4. OwnerIndexExact'
  BY <1>1, <1>2 DEF AgentInv, OwnerIndexExact, RegisteredIds
<1>5. LinkExact'
  BY <1>1, <1>2 DEF AgentInv, LinkExact, RegisteredIds
<1> QED
  BY <1>3, <1>4, <1>5 DEF AgentInv

\* A new agent is appended to the agents and to its owner's index, and takes an
\* identity only when no agent has it.
LEMMA CreateKeeps ==
    ASSUME AgentInv,
           NEW owner \in Accounts, NEW v \in Vaults, NEW signer \in Accounts,
           NEW e \in Erc8004Ids \cup {NoErc8004},
           createAgent(owner, v, signer, e), signerNonces' \in [Accounts -> Nat]
    PROVE  AgentInv'
<1> DEFINE a == Len(agents) + 1
           q == [owner |-> owner, signer |-> signer, vault |-> v,
                 track |-> CHALLENGE, status |-> "Active", erc8004 |-> e]
<1>1. /\ a \in AgentIds
      /\ e # NoErc8004 => CanLink(a, owner, e)
      /\ agents' = Append(agents, q)
      /\ agentIdsByOwner' = [agentIdsByOwner EXCEPT ![owner] = Append(@, a)]
      /\ agentIdByErc8004' = [x \in Erc8004Ids |-> IF x = e THEN a ELSE agentIdByErc8004[x]]
      /\ registryPaused' = registryPaused /\ erc8004Owner' = erc8004Owner
  BY DEF createAgent
<1>2. q \in Agent
  BY DEF Agent, CHALLENGE, Track, AgentStatus
<1>3. /\ agents \in Seq(Agent) /\ a \in Nat /\ a # 0 /\ a \notin DOMAIN agents
      /\ agentIdsByOwner \in [Accounts -> Seq(Nat)]
  BY DEF AgentInv, AgentTypeOK
<1>4. q.owner = owner /\ q.erc8004 = e
  OBVIOUS
<1> HIDE DEF q
<1>5. /\ agents' \in Seq(Agent) /\ DOMAIN agents' = DOMAIN agents \cup {a}
      /\ \A b \in DOMAIN agents : agents'[b] = agents[b]
      /\ agents'[a] = q
  BY <1>1, <1>2, <1>3, AppendFacts
<1> HIDE DEF a
<1>6. /\ agentIdsByOwner' \in [Accounts -> Seq(Nat)]
      /\ \A x \in Accounts : x # owner => agentIdsByOwner'[x] = agentIdsByOwner[x]
      /\ agentIdsByOwner'[owner] = Append(agentIdsByOwner[owner], a)
  BY <1>1, <1>3
<1>7. AgentTypeOK'
  <2>1. agentIdByErc8004' \in [Erc8004Ids -> Nat]
    BY <1>1, <1>3 DEF AgentInv, AgentTypeOK
  <2>2. RegisteredIds' \subseteq AgentIds
    BY <1>1, <1>5 DEF AgentInv, AgentTypeOK, RegisteredIds
  <2> QED
    BY <1>1, <1>5, <1>6, <2>1, <2>2 DEF AgentInv, AgentTypeOK
<1>8. OwnerIndexExact'
  <2> DEFINE old == agentIdsByOwner[owner]
             new == agentIdsByOwner'[owner]
             n == Len(old) + 1
  <2>1. /\ old \in Seq(Nat) /\ n \notin DOMAIN old
        /\ DOMAIN new = DOMAIN old \cup {n}
        /\ \A i \in DOMAIN old : new[i] = old[i]
        /\ new[n] = a
    BY <1>3, <1>6, AppendFacts
  <2> HIDE DEF n
  <2>2. \A i \in DOMAIN old : old[i] \in DOMAIN agents /\ old[i] # a
    BY <1>3 DEF AgentInv, OwnerIndexExact, RegisteredIds
  <2>3. ASSUME NEW x \in Accounts, NEW i \in DOMAIN agentIdsByOwner'[x]
        PROVE  /\ agentIdsByOwner'[x][i] \in DOMAIN agents'
               /\ agents'[agentIdsByOwner'[x][i]].owner = x
    <3>1. CASE x # owner
      <4>1. agentIdsByOwner'[x] = agentIdsByOwner[x]
        BY <1>6, <3>1
      <4>2. /\ agentIdsByOwner[x][i] \in DOMAIN agents
            /\ agents[agentIdsByOwner[x][i]].owner = x
        BY <4>1 DEF AgentInv, OwnerIndexExact, RegisteredIds
      <4> QED
        BY <1>5, <4>1, <4>2
    <3>2. CASE x = owner /\ i = n
      BY <1>4, <1>5, <2>1, <3>2
    <3>3. CASE x = owner /\ i # n
      <4>1. i \in DOMAIN old /\ agentIdsByOwner'[x][i] = old[i]
        BY <2>1, <2>3, <3>3
      <4>2. old[i] \in DOMAIN agents /\ agents[old[i]].owner = owner
        BY <4>1 DEF AgentInv, OwnerIndexExact, RegisteredIds
      <4>3. agents'[old[i]] = agents[old[i]] /\ old[i] \in DOMAIN agents'
        BY <1>5, <4>2
      <4> QED
        BY <3>3, <4>1, <4>2, <4>3
    <3> QED
      BY <3>1, <3>2, <3>3
  <2>4. ASSUME NEW x \in Accounts, NEW i \in DOMAIN agentIdsByOwner'[x],
               NEW j \in DOMAIN agentIdsByOwner'[x],
               agentIdsByOwner'[x][i] = agentIdsByOwner'[x][j]
        PROVE  i = j
    <3>1. CASE x # owner
      BY <1>6, <2>4, <3>1 DEF AgentInv, OwnerIndexExact
    <3>2. CASE x = owner
      BY <2>1, <2>2, <2>4, <3>2 DEF AgentInv, OwnerIndexExact
    <3> QED
      BY <3>1, <3>2
  <2>5. ASSUME NEW b \in DOMAIN agents'
        PROVE  \E i \in DOMAIN agentIdsByOwner'[agents'[b].owner] :
                  agentIdsByOwner'[agents'[b].owner][i] = b
    <3>1. CASE b = a
      BY <1>4, <1>5, <2>1, <3>1
    <3>2. CASE b # a
      <4>1. b \in DOMAIN agents /\ agents'[b] = agents[b]
        BY <1>5, <3>2
      <4>2. agents[b].owner \in Accounts
        <5>1. agents[b] \in Agent
          BY <1>3, <4>1
        <5> QED
          BY <5>1 DEF Agent
      <4>3. PICK i \in DOMAIN agentIdsByOwner[agents[b].owner] :
               agentIdsByOwner[agents[b].owner][i] = b
        BY <4>1 DEF AgentInv, OwnerIndexExact, RegisteredIds
      <4>4. CASE agents[b].owner = owner
        BY <2>1, <4>1, <4>3, <4>4
      <4>5. CASE agents[b].owner # owner
        BY <1>6, <4>1, <4>2, <4>3, <4>5
      <4> QED
        BY <4>4, <4>5
    <3> QED
      BY <3>1, <3>2
  <2> QED
    BY <2>3, <2>4, <2>5 DEF OwnerIndexExact, RegisteredIds
<1>9. LinkExact'
  <2>1. \A b \in DOMAIN agents : agents[b].erc8004 \in Erc8004Ids \cup {NoErc8004}
    <3>1. \A b \in DOMAIN agents : agents[b] \in Agent
      BY <1>3
    <3> QED
      BY <3>1 DEF Agent
  <2>2. ASSUME NEW b \in DOMAIN agents', agents'[b].erc8004 # NoErc8004
        PROVE  agentIdByErc8004'[agents'[b].erc8004] = b
    <3>1. CASE b = a
      BY <1>1, <1>4, <1>5, <2>2, <3>1
    <3>2. CASE b # a
      <4>1. b \in DOMAIN agents /\ agents'[b] = agents[b]
        BY <1>5, <3>2
      <4>2. agentIdByErc8004[agents[b].erc8004] = b /\ b # 0 /\ agents[b].erc8004 \in Erc8004Ids
        BY <1>3, <2>1, <2>2, <4>1 DEF AgentInv, LinkExact, RegisteredIds
      <4>3. agents[b].erc8004 # e
        BY <1>1, <2>2, <3>2, <4>1, <4>2 DEF CanLink
      <4> QED
        BY <1>1, <4>1, <4>2, <4>3
    <3> QED
      BY <3>1, <3>2
  <2>3. ASSUME NEW x \in Erc8004Ids, agentIdByErc8004'[x] # 0
        PROVE  /\ agentIdByErc8004'[x] \in DOMAIN agents'
               /\ agents'[agentIdByErc8004'[x]].erc8004 = x
    <3>1. CASE x = e
      BY <1>1, <1>4, <1>5, <3>1
    <3>2. CASE x # e
      BY <1>1, <1>5, <2>3, <3>2 DEF AgentInv, LinkExact, RegisteredIds
    <3> QED
      BY <3>1, <3>2
  <2> QED
    BY <2>2, <2>3 DEF LinkExact, RegisteredIds
<1> QED
  BY <1>7, <1>8, <1>9 DEF AgentInv

\* The link is written to an agent without one, under an identity without an agent.
LEMMA LinkKeeps ==
    ASSUME AgentInv, NEW a \in RegisteredIds, NEW e \in Erc8004Ids,
           LinkERC8004Identity(a, e)
    PROVE  AgentInv'
<1>1. /\ agents[a].erc8004 = NoErc8004 /\ agentIdByErc8004[e] \in {0, a}
      /\ agents' = [agents EXCEPT ![a].erc8004 = e]
      /\ agentIdByErc8004' = [agentIdByErc8004 EXCEPT ![e] = a]
      /\ UNCHANGED <<agentIdsByOwner, signerNonces, registryPaused, erc8004Owner>>
  BY DEF LinkERC8004Identity, CanLink
<1> DEFINE q == [agents[a] EXCEPT !.erc8004 = e]
<1>2. /\ agents \in Seq(Agent) /\ a \in DOMAIN agents /\ agents[a] \in Agent
      /\ agentIdByErc8004 \in [Erc8004Ids -> Nat] /\ a \in Nat /\ a # 0
  BY IdentitiesAssumption DEF AgentInv, AgentTypeOK, RegisteredIds
<1>3. q \in Agent /\ q.erc8004 = e /\ q.owner = agents[a].owner
  BY <1>2 DEF Agent
<1>4. agents' = [agents EXCEPT ![a] = q]
  BY <1>1
<1> HIDE DEF q
<1>5. /\ agents' \in Seq(Agent) /\ DOMAIN agents' = DOMAIN agents
      /\ \A b \in DOMAIN agents : agents'[b] = IF b = a THEN q ELSE agents[b]
  BY <1>2, <1>3, <1>4, ExceptFacts
<1>6. /\ agentIdByErc8004' \in [Erc8004Ids -> Nat]
      /\ agentIdByErc8004'[e] = a
      /\ \A x \in Erc8004Ids : x # e => agentIdByErc8004'[x] = agentIdByErc8004[x]
  BY <1>1, <1>2
<1>7. AgentTypeOK'
  BY <1>1, <1>5, <1>6 DEF AgentInv, AgentTypeOK, RegisteredIds
<1>8. OwnerIndexExact'
  <2>1. \A b \in DOMAIN agents : agents'[b].owner = agents[b].owner
    BY <1>3, <1>5
  <2> QED
    BY <1>1, <1>5, <2>1 DEF AgentInv, OwnerIndexExact, RegisteredIds
<1>9. LinkExact'
  <2>1. ASSUME NEW b \in DOMAIN agents', agents'[b].erc8004 # NoErc8004
        PROVE  agentIdByErc8004'[agents'[b].erc8004] = b
    <3>1. CASE b = a
      BY <1>3, <1>5, <1>6, <3>1
    <3>2. CASE b # a
      <4>1. b \in DOMAIN agents /\ agents'[b] = agents[b] /\ agents[b] \in Agent
        BY <1>2, <1>5, <3>2
      <4>2. agents[b].erc8004 \in Erc8004Ids
        BY <2>1, <4>1 DEF Agent
      <4>3. agentIdByErc8004[agents[b].erc8004] = b
        BY <2>1, <4>1 DEF AgentInv, LinkExact, RegisteredIds
      <4>4. agents[b].erc8004 # e
        BY <1>1, <1>2, <3>2, <4>1, <4>3
      <4> QED
        BY <1>6, <4>1, <4>2, <4>3, <4>4
    <3> QED
      BY <3>1, <3>2
  <2>2. ASSUME NEW x \in Erc8004Ids, agentIdByErc8004'[x] # 0
        PROVE  /\ agentIdByErc8004'[x] \in DOMAIN agents'
               /\ agents'[agentIdByErc8004'[x]].erc8004 = x
    <3>1. CASE x = e
      BY <1>2, <1>3, <1>5, <1>6, <3>1
    <3>2. CASE x # e
      <4>1. /\ agentIdByErc8004'[x] = agentIdByErc8004[x]
            /\ agentIdByErc8004[x] \in DOMAIN agents
            /\ agents[agentIdByErc8004[x]].erc8004 = x
        BY <1>6, <2>2, <3>2 DEF AgentInv, LinkExact, RegisteredIds
      <4>2. agentIdByErc8004[x] # a
        BY <1>1, <4>1, RegistryAssumption
      <4> QED
        BY <1>5, <4>1, <4>2
    <3> QED
      BY <3>1, <3>2
  <2> QED
    BY <2>1, <2>2 DEF LinkExact, RegisteredIds
<1> QED
  BY <1>7, <1>8, <1>9 DEF AgentInv

\* _removeAgentFromOwner takes exactly the agent off its owner's list and the push
\* adds it to the new owner's, who may be the old one.
LEMMA TransferKeeps ==
    ASSUME AgentInv, NEW a \in RegisteredIds, NEW newOwner \in Accounts,
           TransferAgentOwnership(a, newOwner)
    PROVE  AgentInv'
<1> DEFINE owner == agents[a].owner
           q == [agents[a] EXCEPT !.owner = newOwner]
           rest == SwapAndPop(agentIdsByOwner[owner], a)
           removed == [agentIdsByOwner EXCEPT ![owner] = rest]
           n == Len(removed[newOwner]) + 1
<1>1. /\ agents' = [agents EXCEPT ![a].owner = newOwner]
      /\ agentIdsByOwner' = [removed EXCEPT ![newOwner] = Append(@, a)]
      /\ UNCHANGED <<agentIdByErc8004, signerNonces, registryPaused, erc8004Owner>>
  BY DEF TransferAgentOwnership
<1>2. /\ agents \in Seq(Agent) /\ a \in DOMAIN agents /\ agents[a] \in Agent
      /\ agentIdsByOwner \in [Accounts -> Seq(Nat)] /\ a \in Nat
  BY IdentitiesAssumption DEF AgentInv, AgentTypeOK, RegisteredIds
<1>3. /\ q \in Agent /\ owner \in Accounts
      /\ q.owner = newOwner /\ q.erc8004 = agents[a].erc8004
  BY <1>2 DEF Agent
<1>4. agents' = [agents EXCEPT ![a] = q]
  BY <1>1
<1> HIDE DEF q
<1>5. /\ agents' \in Seq(Agent) /\ DOMAIN agents' = DOMAIN agents
      /\ \A b \in DOMAIN agents : agents'[b] = IF b = a THEN q ELSE agents[b]
  BY <1>2, <1>3, <1>4, ExceptFacts
<1>6. /\ \A x \in Accounts : \A i \in DOMAIN agentIdsByOwner[x] :
            /\ agentIdsByOwner[x][i] \in DOMAIN agents
            /\ agents[agentIdsByOwner[x][i]].owner = x
      /\ \A x \in Accounts : \A i, j \in DOMAIN agentIdsByOwner[x] :
            agentIdsByOwner[x][i] = agentIdsByOwner[x][j] => i = j
      /\ \A b \in DOMAIN agents : \E i \in DOMAIN agentIdsByOwner[agents[b].owner] :
            agentIdsByOwner[agents[b].owner][i] = b
  BY DEF AgentInv, OwnerIndexExact, RegisteredIds
<1>7. PICK k \in DOMAIN agentIdsByOwner[owner] : agentIdsByOwner[owner][k] = a
  BY <1>2, <1>6
<1> HIDE DEF owner
<1>8. /\ rest \in Seq(Nat)
      /\ \A i \in DOMAIN rest : rest[i] # a /\ \E j \in DOMAIN agentIdsByOwner[owner] :
                                                agentIdsByOwner[owner][j] = rest[i]
      /\ \A i, j \in DOMAIN rest : rest[i] = rest[j] => i = j
      /\ \A j \in DOMAIN agentIdsByOwner[owner] : agentIdsByOwner[owner][j] # a =>
            \E i \in DOMAIN rest : rest[i] = agentIdsByOwner[owner][j]
  <2>1. agentIdsByOwner[owner] \in Seq(Nat)
    BY <1>2, <1>3
  <2>2. \A i, j \in DOMAIN agentIdsByOwner[owner] :
           agentIdsByOwner[owner][i] = agentIdsByOwner[owner][j] => i = j
    BY <1>3, <1>6
  <2> QED
    BY <1>7, <2>1, <2>2, SwapAndPopFacts
<1> HIDE DEF rest
\* The intermediate index: exact for every agent but a.
<1>9. /\ removed \in [Accounts -> Seq(Nat)] /\ removed[owner] = rest
      /\ \A x \in Accounts : x # owner => removed[x] = agentIdsByOwner[x]
  BY <1>2, <1>3, <1>8
<1> HIDE DEF removed
<1>10. ASSUME NEW x \in Accounts, NEW i \in DOMAIN removed[x]
       PROVE  /\ removed[x][i] # a /\ removed[x][i] \in DOMAIN agents
              /\ agents[removed[x][i]].owner = x
  <2>1. CASE x = owner
    <3>1. i \in DOMAIN rest /\ removed[x][i] = rest[i] /\ rest[i] # a
      BY <1>8, <1>9, <1>10, <2>1
    <3>2. PICK j \in DOMAIN agentIdsByOwner[owner] : agentIdsByOwner[owner][j] = rest[i]
      BY <1>8, <3>1
    <3> QED
      BY <1>3, <1>6, <2>1, <3>1, <3>2
  <2>2. CASE x # owner
    <3>1. i \in DOMAIN agentIdsByOwner[x] /\ removed[x][i] = agentIdsByOwner[x][i]
      BY <1>9, <1>10, <2>2
    <3>2. agents[agentIdsByOwner[x][i]].owner = x /\ agentIdsByOwner[x][i] \in DOMAIN agents
      BY <1>6, <3>1
    <3>3. agents[a].owner # x
      BY <2>2 DEF owner
    <3> QED
      BY <3>1, <3>2, <3>3
  <2> QED
    BY <2>1, <2>2
<1>11. ASSUME NEW x \in Accounts, NEW i \in DOMAIN removed[x], NEW j \in DOMAIN removed[x],
              removed[x][i] = removed[x][j]
       PROVE  i = j
  <2>1. CASE x = owner
    BY <1>8, <1>9, <1>11, <2>1
  <2>2. CASE x # owner
    BY <1>6, <1>9, <1>11, <2>2
  <2> QED
    BY <2>1, <2>2
<1>12. ASSUME NEW b \in DOMAIN agents, b # a
       PROVE  \E i \in DOMAIN removed[agents[b].owner] : removed[agents[b].owner][i] = b
  <2>1. PICK j \in DOMAIN agentIdsByOwner[agents[b].owner] :
           agentIdsByOwner[agents[b].owner][j] = b
    BY <1>6
  <2>2. agents[b].owner \in Accounts
    <3>1. agents[b] \in Agent
      BY <1>2
    <3> QED
      BY <3>1 DEF Agent
  <2>3. CASE agents[b].owner = owner
    BY <1>8, <1>9, <1>12, <2>1, <2>3
  <2>4. CASE agents[b].owner # owner
    BY <1>9, <2>1, <2>2, <2>4
  <2> QED
    BY <2>3, <2>4
\* The push.
<1>13. /\ DOMAIN agentIdsByOwner'[newOwner] = DOMAIN removed[newOwner] \cup {n}
       /\ n \notin DOMAIN removed[newOwner]
       /\ agentIdsByOwner'[newOwner] \in Seq(Nat) /\ agentIdsByOwner'[newOwner][n] = a
       /\ \A i \in DOMAIN removed[newOwner] :
             agentIdsByOwner'[newOwner][i] = removed[newOwner][i]
       /\ \A x \in Accounts : x # newOwner => agentIdsByOwner'[x] = removed[x]
       /\ agentIdsByOwner' \in [Accounts -> Seq(Nat)]
  <2>1. removed[newOwner] \in Seq(Nat)
    BY <1>9
  <2>2. /\ agentIdsByOwner'[newOwner] = Append(removed[newOwner], a)
        /\ \A x \in Accounts : x # newOwner => agentIdsByOwner'[x] = removed[x]
        /\ agentIdsByOwner' \in [Accounts -> Seq(Nat)]
    BY <1>1, <1>2, <1>9
  <2>3. /\ Append(removed[newOwner], a) \in Seq(Nat)
        /\ DOMAIN Append(removed[newOwner], a) = DOMAIN removed[newOwner] \cup {n}
        /\ \A i \in DOMAIN removed[newOwner] :
              Append(removed[newOwner], a)[i] = removed[newOwner][i]
        /\ Append(removed[newOwner], a)[n] = a
    BY <1>2, <2>1, AppendFacts, SMTT(30)
  <2>4. n \notin DOMAIN removed[newOwner]
    BY <2>1
  <2> QED
    BY <2>2, <2>3, <2>4
<1> HIDE DEF n
<1>14. ASSUME NEW x \in Accounts, NEW i \in DOMAIN agentIdsByOwner'[x]
       PROVE  \/ x = newOwner /\ i = n /\ agentIdsByOwner'[x][i] = a
              \/ i \in DOMAIN removed[x] /\ agentIdsByOwner'[x][i] = removed[x][i]
  BY <1>13
<1>15. AgentTypeOK'
  BY <1>1, <1>5, <1>13 DEF AgentInv, AgentTypeOK, RegisteredIds
<1>16. OwnerIndexExact'
  <2>1. ASSUME NEW x \in Accounts, NEW i \in DOMAIN agentIdsByOwner'[x]
        PROVE  /\ agentIdsByOwner'[x][i] \in DOMAIN agents'
               /\ agents'[agentIdsByOwner'[x][i]].owner = x
    <3>1. CASE x = newOwner /\ agentIdsByOwner'[x][i] = a
      BY <1>2, <1>3, <1>5, <3>1
    <3>2. CASE i \in DOMAIN removed[x] /\ agentIdsByOwner'[x][i] = removed[x][i]
      <4>1. /\ removed[x][i] # a /\ removed[x][i] \in DOMAIN agents
            /\ agents[removed[x][i]].owner = x
        BY <1>10, <3>2
      <4> QED
        BY <1>5, <3>2, <4>1
    <3> QED
      BY <1>14, <2>1, <3>1, <3>2
  <2>2. ASSUME NEW x \in Accounts, NEW i \in DOMAIN agentIdsByOwner'[x],
               NEW j \in DOMAIN agentIdsByOwner'[x],
               agentIdsByOwner'[x][i] = agentIdsByOwner'[x][j]
        PROVE  i = j
    <3>1. \/ i = n /\ agentIdsByOwner'[x][i] = a
          \/ i \in DOMAIN removed[x] /\ agentIdsByOwner'[x][i] = removed[x][i]
             /\ removed[x][i] # a
      BY <1>10, <1>14
    <3>2. \/ j = n /\ agentIdsByOwner'[x][j] = a
          \/ j \in DOMAIN removed[x] /\ agentIdsByOwner'[x][j] = removed[x][j]
             /\ removed[x][j] # a
      BY <1>10, <1>14
    <3> QED
      BY <1>11, <2>2, <3>1, <3>2
  <2>3. ASSUME NEW b \in DOMAIN agents'
        PROVE  \E i \in DOMAIN agentIdsByOwner'[agents'[b].owner] :
                  agentIdsByOwner'[agents'[b].owner][i] = b
    <3>1. CASE b = a
      BY <1>2, <1>3, <1>5, <1>13, <3>1
    <3>2. CASE b # a
      <4>1. b \in DOMAIN agents /\ agents'[b] = agents[b]
        BY <1>5, <3>2
      <4>2. PICK i \in DOMAIN removed[agents[b].owner] : removed[agents[b].owner][i] = b
        BY <1>12, <3>2, <4>1
      <4>3. agents[b].owner \in Accounts
        <5>1. agents[b] \in Agent
          BY <1>2, <4>1
        <5> QED
          BY <5>1 DEF Agent
      <4>4. /\ i \in DOMAIN agentIdsByOwner'[agents[b].owner]
            /\ agentIdsByOwner'[agents[b].owner][i] = b
        BY <1>13, <4>2, <4>3
      <4> QED
        BY <4>1, <4>4
    <3> QED
      BY <3>1, <3>2
  <2> QED
    BY <2>1, <2>2, <2>3 DEF OwnerIndexExact, RegisteredIds
<1>17. LinkExact'
  <2>1. \A b \in DOMAIN agents : agents'[b].erc8004 = agents[b].erc8004
    BY <1>3, <1>5
  <2> QED
    BY <1>1, <1>5, <2>1 DEF AgentInv, LinkExact, RegisteredIds
<1> QED
  BY <1>15, <1>16, <1>17 DEF AgentInv

-----------------------------------------------------------------------------
(* The allocations. *)

\* The caps of a vault stay natural: the subtraction of resizeCaps is checked.
LEMMA ResizeKeeps ==
    ASSUME AllocationTypeOK, NEW v \in Vaults, NEW from \in Nat, NEW to \in Nat,
           resizeCaps(v, from, to)
    PROVE  totalAgentCaps' \in [Vaults -> Nat]
<1>1. totalAgentCaps[v] - from + to \in Nat
  BY DEF AllocationTypeOK, resizeCaps
<1>2. totalAgentCaps' = [totalAgentCaps EXCEPT ![v] = totalAgentCaps[v] - from + to]
  BY DEF resizeCaps
<1> QED
  BY <1>1, <1>2 DEF AllocationTypeOK

\* The initial cap of every track is natural.
LEMMA InitialCapType ==
    ASSUME AllocationTypeOK, NEW v \in Vaults, NEW k \in Track
    PROVE  initialCap(v, k) \in Nat
<1>1. vaultTrackConfigs[v][k] \in VaultTrackConfig
  BY DEF AllocationTypeOK
<1> QED
  BY <1>1 DEF initialCap, VaultTrackConfig

\* An agent and its allocation rewritten together, or one of them alone, keep
\* agreeing when the new records agree.
LEMMA PairKeeps ==
    ASSUME AgentInv, AllocationInv, NEW a \in RegisteredIds,
           NEW q \in Agent, NEW al \in Allocation, al.vault = q.vault, al.trackId = q.track,
           agents' = [agents EXCEPT ![a] = q],
           allocations' = [allocations EXCEPT ![a] = al],
           totalAgentCaps' \in [Vaults -> Nat], UNCHANGED vaultTrackConfigs
    PROVE  AllocationInv'
<1>1. /\ agents \in Seq(Agent) /\ a \in DOMAIN agents /\ DOMAIN allocations = DOMAIN agents
      /\ allocations \in [DOMAIN allocations -> Allocation]
  BY DEF AgentInv, AgentTypeOK, RegisteredIds, AllocationInv, AllocationTypeOK,
         AllocationTracksAgent
<1>2. /\ DOMAIN agents' = DOMAIN agents
      /\ \A b \in DOMAIN agents : agents'[b] = IF b = a THEN q ELSE agents[b]
  BY <1>1, ExceptFacts
<1>3. /\ DOMAIN allocations' = DOMAIN allocations
      /\ allocations' \in [DOMAIN allocations -> Allocation]
      /\ \A b \in DOMAIN agents : allocations'[b] = IF b = a THEN al ELSE allocations[b]
  BY <1>1
<1>4. AllocationTypeOK'
  BY <1>3 DEF AllocationInv, AllocationTypeOK
<1>5. AllocationTracksAgent'
  <2>1. \A b \in DOMAIN agents : /\ allocations[b].vault = agents[b].vault
                                 /\ allocations[b].trackId = agents[b].track
    BY DEF AllocationInv, AllocationTracksAgent, RegisteredIds
  <2>2. ASSUME NEW b \in DOMAIN agents
        PROVE  /\ allocations'[b].vault = agents'[b].vault
               /\ allocations'[b].trackId = agents'[b].track
    <3>1. CASE b = a
      BY <1>2, <1>3, <3>1
    <3>2. CASE b # a
      BY <1>2, <1>3, <2>1, <3>2
    <3> QED
      BY <3>1, <3>2
  <2> QED
    BY <1>1, <1>2, <1>3, <2>2 DEF AllocationTracksAgent, RegisteredIds
<1> QED
  BY <1>4, <1>5 DEF AllocationInv

\* An untouched record is the rewrite of itself.
LEMMA SelfExcept ==
    ASSUME AgentInv, AllocationInv, NEW a \in RegisteredIds
    PROVE  /\ agents = [agents EXCEPT ![a] = agents[a]] /\ agents[a] \in Agent
           /\ allocations = [allocations EXCEPT ![a] = allocations[a]]
           /\ allocations[a] \in Allocation
           /\ allocations[a].vault = agents[a].vault /\ allocations[a].trackId = agents[a].track
           /\ a \in DOMAIN allocations
<1>1. /\ agents \in Seq(Agent) /\ a \in DOMAIN agents /\ a \in DOMAIN allocations
      /\ allocations \in [DOMAIN allocations -> Allocation]
  BY DEF AgentInv, AgentTypeOK, RegisteredIds, AllocationInv, AllocationTypeOK,
         AllocationTracksAgent
<1> QED
  BY <1>1 DEF AllocationInv, AllocationTracksAgent, RegisteredIds

\* onAgentRegistered opens the allocation of exactly the new agent.
LEMMA AllocationOpens ==
    ASSUME AgentInv, AllocationInv,
           NEW owner \in Accounts, NEW v \in Vaults, NEW signer \in Accounts,
           NEW e \in Erc8004Ids \cup {NoErc8004}, createAgent(owner, v, signer, e)
    PROVE  AllocationInv'
<1> DEFINE a == Len(agents) + 1
           q == [owner |-> owner, signer |-> signer, vault |-> v,
                 track |-> CHALLENGE, status |-> "Active", erc8004 |-> e]
           al == [vault |-> v, trackId |-> CHALLENGE, cap |-> initialCap(v, CHALLENGE),
                  used |-> 0, status |-> "Active"]
<1>1. /\ a \in AgentIds /\ agents' = Append(agents, q)
      /\ allocations' = [b \in DOMAIN allocations \cup {a} |->
                            IF b = a THEN al ELSE allocations[b]]
      /\ resizeCaps(v, 0, initialCap(v, CHALLENGE)) /\ UNCHANGED vaultTrackConfigs
  BY DEF createAgent, onAgentRegistered
<1>2. q \in Agent /\ CHALLENGE \in Track
  BY DEF Agent, CHALLENGE, Track, AgentStatus
<1>3. initialCap(v, CHALLENGE) \in Nat
  BY <1>2, InitialCapType DEF AllocationInv
<1>4. al \in Allocation
  BY <1>2, <1>3 DEF Allocation, AllocationStatus
<1>5. totalAgentCaps' \in [Vaults -> Nat]
  BY <1>1, <1>3, ResizeKeeps DEF AllocationInv
<1>6. /\ al.vault = q.vault /\ al.trackId = q.track
  OBVIOUS
<1>7. agents \in Seq(Agent) /\ DOMAIN allocations = DOMAIN agents
  BY DEF AgentInv, AgentTypeOK, AllocationInv, AllocationTracksAgent, RegisteredIds
<1> HIDE DEF q, al
<1>8. /\ DOMAIN agents' = DOMAIN agents \cup {a} /\ a \notin DOMAIN agents
      /\ \A b \in DOMAIN agents : agents'[b] = agents[b]
      /\ agents'[a] = q
  BY <1>1, <1>2, <1>7, AppendFacts
<1> HIDE DEF a
<1>9. /\ DOMAIN allocations' = DOMAIN allocations \cup {a} /\ allocations'[a] = al
      /\ \A b \in DOMAIN allocations : allocations'[b] = allocations[b]
  BY <1>1, <1>7, <1>8
<1>10. AllocationTypeOK'
  <2>1. allocations' \in [DOMAIN allocations' -> Allocation]
    BY <1>1, <1>4, <1>9 DEF AllocationInv, AllocationTypeOK
  <2> QED
    BY <1>1, <1>5, <1>9, <2>1 DEF AllocationInv, AllocationTypeOK
<1>11. AllocationTracksAgent'
  <2>1. \A b \in DOMAIN agents : /\ allocations[b].vault = agents[b].vault
                                 /\ allocations[b].trackId = agents[b].track
    BY DEF AllocationInv, AllocationTracksAgent, RegisteredIds
  <2>2. ASSUME NEW b \in DOMAIN agents'
        PROVE  /\ allocations'[b].vault = agents'[b].vault
               /\ allocations'[b].trackId = agents'[b].track
    <3>1. CASE b = a
      BY <1>6, <1>8, <1>9, <3>1
    <3>2. CASE b \in DOMAIN agents
      BY <1>7, <1>8, <1>9, <2>1, <3>2
    <3> QED
      BY <1>8, <3>1, <3>2
  <2> QED
    BY <1>7, <1>8, <1>9, <2>2 DEF AllocationTracksAgent, RegisteredIds
<1> QED
  BY <1>10, <1>11 DEF AllocationInv

-----------------------------------------------------------------------------
(* The handlers. *)

\* payTreasury is guarded by the payer's balance, so no balance underflows.
LEMMA PayKeeps ==
    ASSUME FeeTypeOK, NEW payer \in Accounts, NEW amount \in Nat, payTreasury(payer, amount),
           UNCHANGED <<registrationFee, promotionFee>>
    PROVE  FeeTypeOK'
<1>1. accountUsdc[payer] - amount \in Nat /\ treasuryUsdc + amount \in Nat
  BY DEF FeeTypeOK, payTreasury
<1> QED
  BY <1>1 DEF FeeTypeOK, payTreasury, transferFee

\* Registration by the registrar and by the agent's own signer.
LEMMA RegistrationKeeps ==
    ASSUME RegistryInv, Registration
    PROVE  RegistryInv'
<1>1. PICK owner \in Accounts, signer \in Accounts, v \in Vaults,
           e \in Erc8004Ids \cup {NoErc8004} :
        RegisterAgent(owner, v, signer, e) \/ SelfRegisterAgent(signer, v, e, owner)
  BY DEF Registration
<1>2. CASE RegisterAgent(owner, v, signer, e)
  <2>1. /\ createAgent(owner, v, signer, e) /\ UNCHANGED <<signerNonces, feeVars>>
    BY <1>2 DEF RegisterAgent
  <2>2. signerNonces' \in [Accounts -> Nat]
    BY <2>1 DEF RegistryInv, AgentInv, AgentTypeOK
  <2>3. AgentInv' /\ AllocationInv'
    BY <2>1, <2>2, CreateKeeps, AllocationOpens DEF RegistryInv
  <2>4. FeeTypeOK'
    BY <2>1 DEF RegistryInv, FeeTypeOK, feeVars
  <2> QED
    BY <2>3, <2>4 DEF RegistryInv
<1>3. CASE SelfRegisterAgent(signer, v, e, owner)
  <2>1. /\ createAgent(signer, v, signer, e) /\ payRegistrationFee(owner)
        /\ signerNonces' = [signerNonces EXCEPT ![signer] = @ + 1]
    BY <1>3 DEF SelfRegisterAgent
  <2>2. signerNonces' \in [Accounts -> Nat]
    BY <2>1 DEF RegistryInv, AgentInv, AgentTypeOK
  <2>3. AgentInv' /\ AllocationInv'
    BY <2>1, <2>2, CreateKeeps, AllocationOpens DEF RegistryInv
  <2>4. FeeTypeOK'
    <3>1. registrationFee \in Nat
      BY DEF RegistryInv, FeeTypeOK
    <3> QED
      BY <2>1, <3>1, PayKeeps DEF RegistryInv, payRegistrationFee
  <2> QED
    BY <2>3, <2>4 DEF RegistryInv
<1> QED
  BY <1>1, <1>2, <1>3

\* Link, signer change and transfer write neither fees nor allocations.
LEMMA OwnerStepKeeps ==
    ASSUME RegistryInv, OwnerStep
    PROVE  RegistryInv'
<1>1. PICK a \in RegisteredIds :
        \/ \E e \in Erc8004Ids : LinkERC8004Identity(a, e)
        \/ \E x \in Accounts : SetAgentSigner(a, x) \/ TransferAgentOwnership(a, x)
  BY DEF OwnerStep
<1> DEFINE old == agents[a]
<1>2. /\ AgentInv /\ AllocationInv /\ FeeTypeOK
      /\ old \in Agent /\ allocations[a] \in Allocation
      /\ allocations = [allocations EXCEPT ![a] = allocations[a]]
      /\ allocations[a].vault = old.vault /\ allocations[a].trackId = old.track
      /\ totalAgentCaps \in [Vaults -> Nat]
  BY SelfExcept DEF RegistryInv, AllocationInv, AllocationTypeOK
<1> HIDE DEF old
<1>3. ASSUME NEW q \in Agent, q.vault = old.vault, q.track = old.track,
             agents' = [agents EXCEPT ![a] = q],
             UNCHANGED <<feeVars, allocationVars, vaultTrackConfigs>>
      PROVE  AllocationInv' /\ FeeTypeOK'
  <2>1. AllocationInv'
    BY <1>2, <1>3, PairKeeps DEF allocationVars
  <2>2. FeeTypeOK'
    BY <1>2, <1>3 DEF FeeTypeOK, feeVars
  <2> QED
    BY <2>1, <2>2
<1>4. ASSUME NEW e \in Erc8004Ids, LinkERC8004Identity(a, e)
      PROVE  RegistryInv'
  <2> DEFINE q == [old EXCEPT !.erc8004 = e]
  <2>1. /\ q \in Agent /\ q.vault = old.vault /\ q.track = old.track
    BY <1>2 DEF Agent
  <2>2. /\ agents' = [agents EXCEPT ![a] = q]
        /\ UNCHANGED <<feeVars, allocationVars, vaultTrackConfigs>>
    BY <1>4 DEF LinkERC8004Identity, old
  <2> HIDE DEF q
  <2> QED
    BY <1>2, <1>3, <1>4, <2>1, <2>2, LinkKeeps DEF RegistryInv
<1>5. ASSUME NEW x \in Accounts, SetAgentSigner(a, x)
      PROVE  RegistryInv'
  <2> DEFINE q == [old EXCEPT !.signer = x]
  <2>1. /\ q \in Agent /\ q.vault = old.vault /\ q.track = old.track
        /\ q.owner = old.owner /\ q.erc8004 = old.erc8004
    BY <1>2 DEF Agent
  <2>2. /\ agents' = [agents EXCEPT ![a] = q]
        /\ UNCHANGED <<identityVars, registryPaused, feeVars, allocationVars, vaultTrackConfigs>>
    BY <1>5 DEF SetAgentSigner, old
  <2> HIDE DEF q
  <2>3. AgentInv'
    <3>1. /\ UNCHANGED <<agentIdsByOwner, agentIdByErc8004, erc8004Owner>>
          /\ signerNonces' \in [Accounts -> Nat] /\ registryPaused' \in BOOLEAN
      BY <1>2, <2>2 DEF identityVars, AgentInv, AgentTypeOK
    <3> QED
      BY <1>2, <2>1, <2>2, <3>1, FieldKeeps DEF old
  <2> QED
    BY <1>3, <2>1, <2>2, <2>3 DEF RegistryInv
<1>6. ASSUME NEW x \in Accounts, TransferAgentOwnership(a, x)
      PROVE  RegistryInv'
  <2> DEFINE q == [old EXCEPT !.owner = x]
  <2>1. /\ q \in Agent /\ q.vault = old.vault /\ q.track = old.track
    BY <1>2 DEF Agent
  <2>2. /\ agents' = [agents EXCEPT ![a] = q]
        /\ UNCHANGED <<feeVars, allocationVars, vaultTrackConfigs>>
    BY <1>6 DEF TransferAgentOwnership, old
  <2> HIDE DEF q
  <2> QED
    BY <1>2, <1>3, <1>6, <2>1, <2>2, TransferKeeps DEF RegistryInv
<1> QED
  BY <1>1, <1>4, <1>5, <1>6

\* A write to an allocation that keeps its vault, track and the cap totals, by the
\* operator or by the trade router.
LEMMA AllocationWriteKeeps ==
    ASSUME RegistryInv, NEW a \in RegisteredIds, NEW al \in Allocation,
           al.vault = allocations[a].vault, al.trackId = allocations[a].trackId,
           allocations' = [allocations EXCEPT ![a] = al], UNCHANGED totalAgentCaps,
           UNCHANGED <<agentVars, feeVars, vaultTrackConfigs>>
    PROVE  RegistryInv'
<1> DEFINE old == agents[a]
<1>1. /\ AgentInv /\ AllocationInv /\ FeeTypeOK
      /\ agents = [agents EXCEPT ![a] = old] /\ old \in Agent
      /\ allocations[a].vault = old.vault /\ allocations[a].trackId = old.track
      /\ totalAgentCaps \in [Vaults -> Nat]
  BY SelfExcept DEF RegistryInv, AgentInv, AgentTypeOK, AllocationInv, AllocationTypeOK,
                    AllocationTracksAgent
<1> HIDE DEF old
<1>2. AgentInv'
  BY <1>1, AgentInvUnchanged
<1>3. AllocationInv'
  BY <1>1, PairKeeps DEF agentVars
<1>4. FeeTypeOK'
  BY <1>1 DEF FeeTypeOK, feeVars
<1> QED
  BY <1>2, <1>3, <1>4 DEF RegistryInv

\* Status, promotion and allocation writes keep the two records of an agent together.
LEMMA LifecycleKeeps ==
    ASSUME RegistryInv, LifecycleStep
    PROVE  RegistryInv'
<1>1. PICK a \in RegisteredIds :
        \/ \E status \in StatusInputs : SetAgentStatus(a, status)
        \/ \E payer \in Accounts, feeAlreadyPaid \in BOOLEAN :
              PromoteAgent(a, payer, feeAlreadyPaid)
        \/ \E status \in AllocationStatusInputs : SetAllocationStatus(a, status)
        \/ \E used \in UsedInputs : SetAllocationUsed(a, used)
  BY DEF LifecycleStep
<1> DEFINE old == agents[a]
           was == allocations[a]
<1>2. /\ AgentInv /\ AllocationInv /\ FeeTypeOK
      /\ agents = [agents EXCEPT ![a] = old] /\ old \in Agent
      /\ allocations = [allocations EXCEPT ![a] = was] /\ was \in Allocation
      /\ was.vault = old.vault /\ was.trackId = old.track
      /\ totalAgentCaps \in [Vaults -> Nat] /\ AllocationTypeOK
      /\ signerNonces \in [Accounts -> Nat] /\ registryPaused \in BOOLEAN
  BY SelfExcept DEF RegistryInv, AgentInv, AgentTypeOK, AllocationInv, AllocationTypeOK
<1>3. /\ old.vault \in Vaults /\ old.track \in Track /\ was.cap \in Nat /\ was.vault \in Vaults
  BY <1>2 DEF Agent, Allocation
<1> HIDE DEF old, was
<1>4. ASSUME NEW q \in Agent, q.owner = old.owner, q.erc8004 = old.erc8004,
             agents' = [agents EXCEPT ![a] = q], UNCHANGED <<identityVars, registryPaused>>
      PROVE  AgentInv'
  BY <1>2, <1>4, FieldKeeps DEF identityVars, old
<1>5. ASSUME NEW status \in StatusInputs, SetAgentStatus(a, status)
      PROVE  RegistryInv'
  <2> DEFINE q == [old EXCEPT !.status = status]
             al == [was EXCEPT !.status = "Removed", !.cap = 0]
  <2>1. /\ q \in Agent /\ q.owner = old.owner /\ q.erc8004 = old.erc8004
        /\ q.vault = old.vault /\ q.track = old.track
    BY <1>2, RegistryAssumption DEF Agent
  <2>2. /\ agents' = [agents EXCEPT ![a] = q]
        /\ UNCHANGED <<identityVars, registryPaused, feeVars, vaultTrackConfigs>>
        /\ UNCHANGED allocationVars \/ onAgentRemoved(a)
    BY <1>5 DEF SetAgentStatus, old
  <2>3. al \in Allocation /\ al.vault = was.vault /\ al.trackId = was.trackId
    BY <1>2 DEF Allocation, AllocationStatus
  <2> HIDE DEF q
  <2>4. ASSUME UNCHANGED allocationVars PROVE AllocationInv'
    BY <1>2, <2>1, <2>2, <2>4, PairKeeps DEF allocationVars
  <2>5. ASSUME resizeCaps(was.vault, was.cap, 0), allocations' = [allocations EXCEPT ![a] = al]
        PROVE  AllocationInv'
    <3>1. totalAgentCaps' \in [Vaults -> Nat]
      BY <1>2, <1>3, <2>5, ResizeKeeps
    <3> HIDE DEF al
    <3> QED
      BY <1>2, <2>1, <2>2, <2>3, <2>5, <3>1, PairKeeps
  <2>6. AllocationInv'
    <3>1. \/ UNCHANGED allocationVars
          \/ /\ resizeCaps(was.vault, was.cap, 0)
             /\ allocations' = [allocations EXCEPT ![a].status = "Removed", ![a].cap = 0]
      BY <2>2 DEF onAgentRemoved, was
    <3>2. [allocations EXCEPT ![a].status = "Removed", ![a].cap = 0] =
          [allocations EXCEPT ![a] = al]
      BY <1>2 DEF was
    <3> QED
      BY <2>4, <2>5, <3>1, <3>2
  <2>7. FeeTypeOK'
    BY <1>2, <2>2 DEF FeeTypeOK, feeVars
  <2> QED
    BY <1>4, <2>1, <2>2, <2>6, <2>7 DEF RegistryInv
<1>6. ASSUME NEW payer \in Accounts, NEW feeAlreadyPaid \in BOOLEAN,
             PromoteAgent(a, payer, feeAlreadyPaid)
      PROVE  RegistryInv'
  <2> DEFINE cap == initialCap(old.vault, old.track + 1)
             q == [old EXCEPT !.track = old.track + 1]
             al == [was EXCEPT !.trackId = old.track + 1, !.cap = cap]
  <2>1. /\ old.track < PRIME
        /\ UNCHANGED feeVars \/ payPromotionFee(payer, old.vault, old.track)
        /\ resizeCaps(old.vault, was.cap, cap)
        /\ allocations' = [allocations EXCEPT ![a] = al]
        /\ agents' = [agents EXCEPT ![a] = q]
        /\ UNCHANGED <<identityVars, registryPaused, vaultTrackConfigs>>
    BY <1>6 DEF PromoteAgent, onAgentPromoted, promoted, old, was
  <2>2. old.track + 1 \in Track
    BY <1>3, <2>1 DEF Track, PRIME
  <2>3. cap \in Nat
    BY <1>2, <1>3, <2>2, InitialCapType
  <2> HIDE DEF cap
  <2>4. /\ q \in Agent /\ q.owner = old.owner /\ q.erc8004 = old.erc8004
        /\ q.vault = old.vault /\ q.track = old.track + 1
    BY <1>2, <2>2 DEF Agent
  <2>5. al \in Allocation /\ al.vault = was.vault /\ al.trackId = old.track + 1
    BY <1>2, <2>2, <2>3 DEF Allocation
  <2>6. totalAgentCaps' \in [Vaults -> Nat]
    BY <1>2, <1>3, <2>1, <2>3, ResizeKeeps
  <2> HIDE DEF q, al
  <2>7. AllocationInv'
    BY <1>2, <2>1, <2>4, <2>5, <2>6, PairKeeps
  <2>8. FeeTypeOK'
    <3>1. CASE UNCHANGED feeVars
      BY <1>2, <3>1 DEF FeeTypeOK, feeVars
    <3>2. CASE payPromotionFee(payer, old.vault, old.track)
      <4>1. promotionFee[old.vault][old.track] \in Nat
        BY <1>2, <1>3 DEF FeeTypeOK
      <4> QED
        BY <1>2, <3>2, <4>1, PayKeeps DEF payPromotionFee
    <3> QED
      BY <2>1, <3>1, <3>2
  <2> QED
    BY <1>4, <2>1, <2>4, <2>7, <2>8 DEF RegistryInv
<1>7. ASSUME NEW al \in Allocation, al.vault = was.vault, al.trackId = was.trackId,
             allocations' = [allocations EXCEPT ![a] = al], UNCHANGED totalAgentCaps,
             UNCHANGED <<agentVars, feeVars, vaultTrackConfigs>>
      PROVE  RegistryInv'
  BY <1>7, AllocationWriteKeeps DEF was
<1>8. ASSUME NEW status \in AllocationStatusInputs, SetAllocationStatus(a, status)
      PROVE  RegistryInv'
  <2> DEFINE al == [was EXCEPT !.status = status]
  <2>1. al \in Allocation /\ al.vault = was.vault /\ al.trackId = was.trackId
    BY <1>2, AllocationInputsAssumption DEF Allocation
  <2>2. /\ allocations' = [allocations EXCEPT ![a] = al] /\ UNCHANGED totalAgentCaps
        /\ UNCHANGED <<agentVars, feeVars, vaultTrackConfigs>>
    BY <1>8 DEF SetAllocationStatus, setAllocationStatus, was
  <2> HIDE DEF al
  <2> QED
    BY <1>7, <2>1, <2>2
<1>9. ASSUME NEW used \in UsedInputs, SetAllocationUsed(a, used)
      PROVE  RegistryInv'
  <2> DEFINE al == [was EXCEPT !.used = used]
  <2>1. al \in Allocation /\ al.vault = was.vault /\ al.trackId = was.trackId
    BY <1>2, AllocationInputsAssumption DEF Allocation
  <2>2. /\ allocations' = [allocations EXCEPT ![a] = al] /\ UNCHANGED totalAgentCaps
        /\ UNCHANGED <<agentVars, feeVars, vaultTrackConfigs>>
    BY <1>9 DEF SetAllocationUsed, setAllocationUsed, was
  <2> HIDE DEF al
  <2> QED
    BY <1>7, <2>1, <2>2
<1> QED
  BY <1>1, <1>5, <1>6, <1>8, <1>9

\* Policies, fees and ERC-8004 tokens change under the registry without its knowledge.
LEMMA AdminKeeps ==
    ASSUME RegistryInv, AdminStep
    PROVE  RegistryInv'
<1>1. ASSUME NEW v \in Vaults, NEW k \in Track, NEW config \in Configs,
             SetVaultTrackConfig(v, k, config)
      PROVE  RegistryInv'
  <2>1. /\ vaultTrackConfigs' = [vaultTrackConfigs EXCEPT ![v][k] = config]
        /\ UNCHANGED <<agentVars, feeVars, allocationVars>>
    BY <1>1 DEF SetVaultTrackConfig, setVaultTrackConfig
  <2>2. vaultTrackConfigs' \in [Vaults -> [Track -> VaultTrackConfig]]
    <3>1. vaultTrackConfigs \in [Vaults -> [Track -> VaultTrackConfig]]
      BY DEF RegistryInv, AllocationInv, AllocationTypeOK
    <3>2. config \in VaultTrackConfig
      BY ConfigsAssumption
    <3> QED
      BY <2>1, <3>1, <3>2
  <2>3. AllocationInv'
    BY <2>1, <2>2 DEF RegistryInv, AllocationInv, AllocationTypeOK, AllocationTracksAgent,
                      allocationVars, agentVars, RegisteredIds
  <2>4. AgentInv'
    BY <2>1, AgentInvUnchanged DEF RegistryInv
  <2>5. FeeTypeOK'
    BY <2>1 DEF RegistryInv, FeeTypeOK, feeVars
  <2> QED
    BY <2>3, <2>4, <2>5 DEF RegistryInv
<1>2. ASSUME SetFees
      PROVE  RegistryInv'
  <2>1. /\ \/ \E amount \in FeeInputs : setRegistrationFee(amount)
           \/ \E v \in Vaults, from \in Track, amount \in FeeInputs :
                setPromotionFee(v, from, amount)
        /\ UNCHANGED <<agentVars, allocationVars, vaultTrackConfigs>>
    BY <1>2 DEF SetFees
  <2>2. ASSUME NEW amount \in FeeInputs, setRegistrationFee(amount)
        PROVE  FeeTypeOK'
    BY <2>2, FeeAssumption DEF RegistryInv, FeeTypeOK, setRegistrationFee
  <2>3. ASSUME NEW v \in Vaults, NEW from \in Track, NEW amount \in FeeInputs,
               setPromotionFee(v, from, amount)
        PROVE  FeeTypeOK'
    <3>1. promotionFee' \in [Vaults -> [Track -> Nat]]
      BY <2>3, FeeAssumption DEF RegistryInv, FeeTypeOK, setPromotionFee
    <3> QED
      BY <2>3, <3>1 DEF RegistryInv, FeeTypeOK, setPromotionFee
  <2>4. AllocationInv'
    BY <2>1 DEF RegistryInv, AllocationInv, AllocationTypeOK, AllocationTracksAgent,
                allocationVars, agentVars, RegisteredIds
  <2>5. AgentInv'
    BY <2>1, AgentInvUnchanged DEF RegistryInv
  <2> QED
    BY <2>1, <2>2, <2>3, <2>4, <2>5 DEF RegistryInv
<1>3. ASSUME NEW e \in Erc8004Ids, NEW x \in Accounts, TransferErc8004(e, x)
      PROVE  RegistryInv'
  <2>1. /\ erc8004Owner' \in [Erc8004Ids -> Accounts]
        /\ UNCHANGED <<agents, agentIdsByOwner, agentIdByErc8004, signerNonces, registryPaused,
                       feeVars, allocationVars, vaultTrackConfigs>>
    BY <1>3 DEF TransferErc8004, RegistryInv, AgentInv, AgentTypeOK
  <2>2. AgentInv'
    BY <2>1 DEF RegistryInv, AgentInv, AgentTypeOK, OwnerIndexExact, LinkExact, RegisteredIds
  <2>3. AllocationInv' /\ FeeTypeOK'
    BY <2>1 DEF RegistryInv, AllocationInv, AllocationTypeOK, AllocationTracksAgent,
                FeeTypeOK, feeVars, allocationVars, RegisteredIds
  <2> QED
    BY <2>2, <2>3 DEF RegistryInv
<1> QED
  BY <1>1, <1>2, <1>3 DEF AdminStep

\* The registry after deployment: no agent, no allocation, no identity linked.
LEMMA InitEstablishes == RegistryInit => RegistryInv
<1> SUFFICES ASSUME RegistryInit PROVE RegistryInv
  OBVIOUS
<1>1. AgentTypeOK
  <2>1. agents \in Seq(Agent) /\ RegisteredIds \subseteq AgentIds
    BY DEF RegistryInit, RegisteredIds
  <2>2. agentIdsByOwner \in [Accounts -> Seq(Nat)]
    BY DEF RegistryInit
  <2>3. agentIdByErc8004 \in [Erc8004Ids -> Nat] /\ signerNonces \in [Accounts -> Nat]
    BY DEF RegistryInit
  <2> QED
    BY <2>1, <2>2, <2>3 DEF RegistryInit, AgentTypeOK
<1>2. OwnerIndexExact /\ LinkExact
  BY DEF RegistryInit, OwnerIndexExact, LinkExact, RegisteredIds
<1>3. FeeTypeOK
  BY FeeAssumption DEF RegistryInit, FeeInit, FeeTypeOK
<1>4. AllocationInv
  <2>1. vaultTrackConfigs \in [Vaults -> [Track -> VaultTrackConfig]]
    BY ConfigsAssumption DEF RegistryInit
  <2>2. DOMAIN allocations = {} /\ DOMAIN agents = {}
    BY DEF RegistryInit, AllocationInit
  <2>3. allocations \in [DOMAIN allocations -> Allocation]
    BY <2>2 DEF RegistryInit, AllocationInit
  <2> QED
    BY <2>1, <2>2, <2>3 DEF RegistryInit, AllocationInit, AllocationInv, AllocationTypeOK,
                            AllocationTracksAgent, RegisteredIds
<1> QED
  BY <1>1, <1>2, <1>3, <1>4 DEF RegistryInv, AgentInv

\* Every transaction of the registry, and a stutter, keeps the invariant.
LEMMA RegistryNextKeeps == RegistryInv /\ [RegistryNext]_registryVars => RegistryInv'
<1> SUFFICES ASSUME RegistryInv, [RegistryNext]_registryVars PROVE RegistryInv'
  OBVIOUS
<1>1. CASE Registration
  BY <1>1, RegistrationKeeps
<1>2. CASE OwnerStep
  BY <1>2, OwnerStepKeeps
<1>3. CASE LifecycleStep
  BY <1>3, LifecycleKeeps
<1>4. ASSUME NEW paused \in BOOLEAN, SetRegistryPaused(paused)
      PROVE  RegistryInv'
  <2>1. /\ registryPaused' \in BOOLEAN
        /\ UNCHANGED <<agents, identityVars, feeVars, allocationVars, vaultTrackConfigs>>
    BY <1>4 DEF SetRegistryPaused
  <2>2. AgentInv'
    BY <2>1 DEF RegistryInv, AgentInv, AgentTypeOK, OwnerIndexExact, LinkExact, RegisteredIds,
                identityVars
  <2>3. AllocationInv' /\ FeeTypeOK'
    BY <2>1 DEF RegistryInv, AllocationInv, AllocationTypeOK, AllocationTracksAgent,
                FeeTypeOK, feeVars, allocationVars, RegisteredIds
  <2> QED
    BY <2>2, <2>3 DEF RegistryInv
<1>5. CASE AdminStep
  BY <1>5, AdminKeeps
<1>6. CASE UNCHANGED registryVars
  <2>1. AgentInv'
    BY <1>6, AgentInvUnchanged DEF registryVars, RegistryInv
  <2>2. AllocationInv' /\ FeeTypeOK'
    BY <1>6 DEF RegistryInv, AllocationInv, AllocationTypeOK, AllocationTracksAgent,
                FeeTypeOK, feeVars, allocationVars, RegisteredIds, registryVars, agentVars
  <2> QED
    BY <2>1, <2>2 DEF RegistryInv
<1> QED
  BY <1>1, <1>2, <1>3, <1>4, <1>5, <1>6 DEF RegistryNext

-----------------------------------------------------------------------------
(* Fees. *)

\* What the payer loses the treasury gains.
LEMMA FeesMove ==
    ASSUME FeeTypeOK, FeesReachTreasury, NEW payer \in Accounts, NEW amount \in Nat,
           payTreasury(payer, amount)
    PROVE  FeesReachTreasury'
<1> DEFINE x == accountUsdc[payer] - amount
<1>1. /\ accountUsdc \in [Accounts -> Nat] /\ treasuryUsdc \in Nat
      /\ treasuryUsdc + SumFunctionOnSet(accountUsdc, Accounts)
           = InitialUsdc * Cardinality(Accounts)
  BY DEF FeeTypeOK, FeesReachTreasury, SumFunction
<1>2. /\ accountUsdc' = [accountUsdc EXCEPT ![payer] = x]
      /\ treasuryUsdc' = treasuryUsdc + amount /\ amount <= accountUsdc[payer]
  BY DEF payTreasury, transferFee
<1>3. /\ \A y \in Accounts : /\ accountUsdc[y] \in Int /\ accountUsdc'[y] \in Int
                             /\ y # payer => accountUsdc'[y] = accountUsdc[y]
      /\ accountUsdc'[payer] = accountUsdc[payer] - amount
      /\ DOMAIN accountUsdc' = Accounts
  BY <1>1, <1>2
<1>4. IsFiniteSet(Accounts)
  BY FeeAssumption
<1>5. SumFunctionOnSet(accountUsdc', Accounts) =
        SumFunctionOnSet(accountUsdc, Accounts) + (accountUsdc'[payer] - accountUsdc[payer])
  BY <1>3, <1>4, SumChange
<1>6. SumFunctionOnSet(accountUsdc, Accounts) \in Int
  BY <1>3, <1>4, SumType
<1>7. treasuryUsdc' + SumFunctionOnSet(accountUsdc', Accounts)
        = treasuryUsdc + SumFunctionOnSet(accountUsdc, Accounts)
  BY <1>1, <1>2, <1>3, <1>5, <1>6
<1> QED
  BY <1>1, <1>3, <1>7 DEF FeesReachTreasury, SumFunction

LEMMA FeesStart == RegistryInit => FeesReachTreasury
<1> SUFFICES ASSUME RegistryInit PROVE FeesReachTreasury
  OBVIOUS
<1>1. /\ accountUsdc = [x \in Accounts |-> InitialUsdc] /\ treasuryUsdc = 0
      /\ DOMAIN accountUsdc = Accounts
      /\ \A x \in Accounts : accountUsdc[x] = InitialUsdc
  BY DEF RegistryInit, FeeInit
<1>2. IsFiniteSet(Accounts) /\ InitialUsdc \in Int /\ Cardinality(Accounts) \in Nat
  BY FeeAssumption, FS_CardinalityType
<1>3. SumFunctionOnSet(accountUsdc, Accounts) = InitialUsdc * Cardinality(Accounts)
  BY <1>1, <1>2, SumConstant
<1> QED
  BY <1>1, <1>2, <1>3 DEF FeesReachTreasury, SumFunction

\* A fee is paid in self-registration and promotion, and nowhere else.
LEMMA FeesKeep ==
    RegistryInv /\ FeesReachTreasury /\ [RegistryNext]_registryVars => FeesReachTreasury'
<1> SUFFICES ASSUME RegistryInv, FeesReachTreasury, [RegistryNext]_registryVars
             PROVE  FeesReachTreasury'
  OBVIOUS
<1>1. FeeTypeOK /\ registrationFee \in Nat /\ promotionFee \in [Vaults -> [Track -> Nat]]
  BY DEF RegistryInv, FeeTypeOK
<1>2. ASSUME UNCHANGED <<accountUsdc, treasuryUsdc>> PROVE FeesReachTreasury'
  BY <1>2 DEF FeesReachTreasury
<1>3. CASE Registration
  <2>1. PICK owner \in Accounts, signer \in Accounts, v \in Vaults,
             e \in Erc8004Ids \cup {NoErc8004} :
          RegisterAgent(owner, v, signer, e) \/ SelfRegisterAgent(signer, v, e, owner)
    BY <1>3 DEF Registration
  <2>2. CASE RegisterAgent(owner, v, signer, e)
    BY <1>2, <2>2 DEF RegisterAgent, feeVars
  <2>3. CASE SelfRegisterAgent(signer, v, e, owner)
    <3>1. payTreasury(owner, registrationFee)
      BY <2>3 DEF SelfRegisterAgent, payRegistrationFee
    <3> QED
      BY <1>1, <3>1, FeesMove
  <2> QED
    BY <2>1, <2>2, <2>3
<1>4. CASE OwnerStep
  BY <1>2, <1>4 DEF OwnerStep, LinkERC8004Identity, SetAgentSigner, TransferAgentOwnership,
                    feeVars
<1>5. CASE LifecycleStep
  <2>1. PICK a \in RegisteredIds :
          \/ \E status \in StatusInputs : SetAgentStatus(a, status)
          \/ \E payer \in Accounts, feeAlreadyPaid \in BOOLEAN :
                PromoteAgent(a, payer, feeAlreadyPaid)
          \/ \E status \in AllocationStatusInputs : SetAllocationStatus(a, status)
          \/ \E used \in UsedInputs : SetAllocationUsed(a, used)
    BY <1>5 DEF LifecycleStep
  <2>2. ASSUME NEW payer \in Accounts, NEW feeAlreadyPaid \in BOOLEAN,
               PromoteAgent(a, payer, feeAlreadyPaid)
        PROVE  FeesReachTreasury'
    <3>1. agents[a].vault \in Vaults /\ agents[a].track \in Track
      <4>1. agents[a] \in Agent
        BY DEF RegistryInv, AgentInv, AgentTypeOK, RegisteredIds
      <4> QED
        BY <4>1 DEF Agent
    <3>2. CASE feeAlreadyPaid
      BY <1>2, <2>2, <3>2 DEF PromoteAgent, feeVars
    <3>3. CASE ~feeAlreadyPaid
      <4>1. payTreasury(payer, promotionFee[agents[a].vault][agents[a].track])
        BY <2>2, <3>3 DEF PromoteAgent, payPromotionFee
      <4>2. promotionFee[agents[a].vault][agents[a].track] \in Nat
        BY <1>1, <3>1
      <4> QED
        BY <1>1, <4>1, <4>2, FeesMove
    <3> QED
      BY <3>2, <3>3
  <2> QED
    BY <1>2, <2>1, <2>2 DEF SetAgentStatus, SetAllocationStatus, SetAllocationUsed, feeVars
<1>6. ASSUME NEW paused \in BOOLEAN, SetRegistryPaused(paused) PROVE FeesReachTreasury'
  BY <1>2, <1>6 DEF SetRegistryPaused, feeVars
<1>7. CASE AdminStep
  BY <1>2, <1>7 DEF AdminStep, SetVaultTrackConfig, SetFees, TransferErc8004, feeVars,
                    setRegistrationFee, setPromotionFee
<1>8. CASE UNCHANGED registryVars
  BY <1>2, <1>8 DEF registryVars, feeVars
<1> QED
  BY <1>3, <1>4, <1>5, <1>6, <1>7, <1>8 DEF RegistryNext

-----------------------------------------------------------------------------
(* Caps. *)

\* The allocations of a vault are finitely many, and their caps natural.
LEMMA CapFacts ==
    ASSUME AllocationTypeOK, NEW v \in Vaults
    PROVE  /\ IsFiniteSet({b \in DOMAIN allocations : allocations[b].vault = v})
           /\ \A b \in DOMAIN allocations : /\ allocations[b] \in Allocation
                                            /\ allocations[b].cap \in Nat
                                            /\ allocations[b].vault \in Vaults
<1>1. DOMAIN allocations \subseteq AgentIds /\ IsFiniteSet(AgentIds)
  BY IdentitiesAssumption DEF AllocationTypeOK
<1>2. IsFiniteSet({b \in DOMAIN allocations : allocations[b].vault = v})
  BY <1>1, FS_Subset
<1>3. \A b \in DOMAIN allocations : allocations[b] \in Allocation
  BY DEF AllocationTypeOK
<1> QED
  BY <1>2, <1>3 DEF Allocation

\* One allocation is rewritten and its vault's total moves with the cap.
LEMMA CapMoves ==
    ASSUME AllocationTypeOK, CapsAddUp, NEW a \in DOMAIN allocations, NEW al \in Allocation,
           al.vault = allocations[a].vault,
           allocations' = [allocations EXCEPT ![a] = al],
           \A v \in Vaults : totalAgentCaps'[v] =
             IF v = al.vault THEN totalAgentCaps[v] - allocations[a].cap + al.cap
                             ELSE totalAgentCaps[v]
    PROVE  CapsAddUp'
<1> SUFFICES ASSUME NEW v \in Vaults
             PROVE  totalAgentCaps'[v] =
                      SumFunction([b \in {c \in DOMAIN allocations' : allocations'[c].vault = v}
                                     |-> allocations'[b].cap])
  BY DEF CapsAddUp
<1> DEFINE S == {c \in DOMAIN allocations : allocations[c].vault = v}
           f == [b \in S |-> allocations[b].cap]
           g == [b \in S |-> allocations'[b].cap]
<1>1. /\ allocations \in [DOMAIN allocations -> Allocation]
      /\ totalAgentCaps[v] \in Nat /\ totalAgentCaps[v] = SumFunctionOnSet(f, S)
  BY DEF AllocationTypeOK, CapsAddUp, SumFunction
<1>2. /\ DOMAIN allocations' = DOMAIN allocations /\ allocations'[a] = al
      /\ \A b \in DOMAIN allocations : b # a => allocations'[b] = allocations[b]
      /\ \A b \in DOMAIN allocations : allocations'[b].vault = allocations[b].vault
  BY <1>1
<1>3. {c \in DOMAIN allocations' : allocations'[c].vault = v} = S
  BY <1>2
<1>4. SUFFICES totalAgentCaps'[v] = SumFunctionOnSet(g, S)
  BY <1>3 DEF SumFunction
<1>5. /\ IsFiniteSet(S) /\ allocations[a].cap \in Nat /\ al.cap \in Nat
      /\ \A b \in S : /\ f[b] = allocations[b].cap /\ g[b] = allocations'[b].cap
                      /\ f[b] \in Int /\ g[b] \in Int
                      /\ b # a => g[b] = f[b]
  <2>1. al.cap \in Nat
    BY DEF Allocation
  <2>2. IsFiniteSet(S) /\ \A b \in DOMAIN allocations : allocations[b].cap \in Nat
    BY CapFacts
  <2>3. \A b \in S : f[b] = allocations[b].cap /\ g[b] = allocations'[b].cap
    OBVIOUS
  <2>4. \A b \in S : b \in DOMAIN allocations
    OBVIOUS
  <2> HIDE DEF f, g, S
  <2>5. ASSUME NEW b \in S PROVE f[b] \in Int /\ g[b] \in Int /\ (b # a => g[b] = f[b])
    <3>1. CASE b = a
      BY <1>2, <2>1, <2>2, <2>3, <2>4, <3>1
    <3>2. CASE b # a
      BY <1>2, <2>2, <2>3, <2>4, <3>2
    <3> QED
      BY <3>1, <3>2
  <2> QED
    BY <2>1, <2>2, <2>3, <2>5
<1>6. a \in S <=> v = al.vault
  OBVIOUS
<1> HIDE DEF f, g, S
<1>7. CASE a \in S
  <2>1. SumFunctionOnSet(g, S) = SumFunctionOnSet(f, S) + (g[a] - f[a])
    BY <1>5, <1>7, SumChange
  <2> QED
    BY <1>1, <1>2, <1>5, <1>6, <1>7, <2>1
<1>8. CASE a \notin S
  <2>1. SumFunctionOnSet(f, S) = SumFunctionOnSet(g, S)
    BY <1>5, <1>8, SumSame
  <2> QED
    BY <1>1, <1>6, <1>8, <2>1
<1> QED
  BY <1>7, <1>8

\* A registration opens one allocation and adds its cap.
LEMMA CapOpens ==
    ASSUME AllocationTypeOK, CapsAddUp, NEW a, a \notin DOMAIN allocations,
           NEW al \in Allocation, NEW v \in Vaults, al.vault = v,
           allocations' = [b \in DOMAIN allocations \cup {a} |->
                             IF b = a THEN al ELSE allocations[b]],
           resizeCaps(v, 0, al.cap)
    PROVE  CapsAddUp'
<1> SUFFICES ASSUME NEW w \in Vaults
             PROVE  totalAgentCaps'[w] =
                      SumFunction([b \in {c \in DOMAIN allocations' : allocations'[c].vault = w}
                                     |-> allocations'[b].cap])
  BY DEF CapsAddUp
<1> DEFINE S == {c \in DOMAIN allocations : allocations[c].vault = w}
           T == {c \in DOMAIN allocations' : allocations'[c].vault = w}
           f == [b \in S |-> allocations[b].cap]
           g == [b \in T |-> allocations'[b].cap]
<1>1. /\ totalAgentCaps[w] \in Nat /\ totalAgentCaps[w] = SumFunctionOnSet(f, S)
  BY DEF AllocationTypeOK, CapsAddUp, SumFunction
<1>2. /\ DOMAIN allocations' = DOMAIN allocations \cup {a} /\ allocations'[a] = al
      /\ \A b \in DOMAIN allocations : b # a /\ allocations'[b] = allocations[b]
  OBVIOUS
<1>3. T = IF w = v THEN S \cup {a} ELSE S
  BY <1>2
<1>4. totalAgentCaps'[w] = IF w = v THEN totalAgentCaps[w] + al.cap ELSE totalAgentCaps[w]
  <2>1. al.cap \in Nat /\ totalAgentCaps \in [Vaults -> Nat]
    BY DEF Allocation, AllocationTypeOK
  <2> QED
    BY <2>1 DEF resizeCaps
<1>5. SUFFICES totalAgentCaps'[w] = SumFunctionOnSet(g, T)
  BY DEF SumFunction
<1>6. /\ IsFiniteSet(S) /\ a \notin S /\ al.cap \in Int
      /\ \A b \in S : allocations[b].cap \in Int
  <2>1. al.cap \in Nat
    BY DEF Allocation
  <2> QED
    BY <2>1, CapFacts
<1>7. /\ \A b \in S : f[b] = allocations[b].cap
      /\ \A b \in S : b \in T => g[b] = f[b]
      /\ a \in T => g[a] = al.cap
  BY <1>2
<1> HIDE DEF f, g, S, T
<1>8. CASE w = v
  <2>1. /\ \A b \in S \cup {a} : g[b] \in Int
        /\ \A b \in S : g[b] = f[b]
        /\ g[a] = al.cap
    BY <1>3, <1>6, <1>7, <1>8
  <2>2. SumFunctionOnSet(g, S \cup {a}) = SumFunctionOnSet(f, S) + g[a]
    BY <1>6, <2>1, SumAdd
  <2> QED
    BY <1>1, <1>3, <1>4, <1>8, <2>1, <2>2
<1>9. CASE w # v
  <2>1. SumFunctionOnSet(f, S) = SumFunctionOnSet(g, S)
    BY <1>3, <1>6, <1>7, <1>9, SumSame
  <2> QED
    BY <1>1, <1>3, <1>4, <1>9, <2>1
<1> QED
  BY <1>8, <1>9

LEMMA CapsStart == RegistryInit => CapsAddUp
<1> SUFFICES ASSUME RegistryInit, NEW v \in Vaults
             PROVE  totalAgentCaps[v] =
                      SumFunction([a \in {b \in DOMAIN allocations : allocations[b].vault = v} |->
                                     allocations[a].cap])
  BY DEF CapsAddUp
<1>1. {b \in DOMAIN allocations : allocations[b].vault = v} = {} /\ totalAgentCaps[v] = 0
  BY DEF RegistryInit, AllocationInit
<1> QED
  BY <1>1, SumEmpty DEF SumFunction

\* Promotion, removal and registration resize the total with the cap; every other
\* transaction keeps every cap.
LEMMA CapsKeep == RegistryInv /\ CapsAddUp /\ [RegistryNext]_registryVars => CapsAddUp'
<1> SUFFICES ASSUME RegistryInv, CapsAddUp, [RegistryNext]_registryVars
             PROVE  CapsAddUp'
  OBVIOUS
<1>1. AllocationTypeOK /\ totalAgentCaps \in [Vaults -> Nat]
  BY DEF RegistryInv, AllocationInv, AllocationTypeOK
<1>2. ASSUME UNCHANGED allocationVars PROVE CapsAddUp'
  BY <1>2 DEF CapsAddUp, allocationVars
<1>3. CASE Registration
  <2>1. PICK owner \in Accounts, signer \in Accounts, v \in Vaults,
             e \in Erc8004Ids \cup {NoErc8004} :
          createAgent(owner, v, signer, e) \/ createAgent(signer, v, signer, e)
    BY <1>3 DEF Registration, RegisterAgent, SelfRegisterAgent
  <2> DEFINE a == Len(agents) + 1
             al == [vault |-> v, trackId |-> CHALLENGE, cap |-> initialCap(v, CHALLENGE),
                    used |-> 0, status |-> "Active"]
  <2>2. /\ a \notin DOMAIN allocations
        /\ allocations' = [b \in DOMAIN allocations \cup {a} |->
                              IF b = a THEN al ELSE allocations[b]]
        /\ resizeCaps(v, 0, al.cap)
    BY <2>1 DEF createAgent, onAgentRegistered, HasAllocation
  <2>3. al \in Allocation /\ al.vault = v
    <3>1. CHALLENGE \in Track
      BY DEF CHALLENGE, Track
    <3>2. initialCap(v, CHALLENGE) \in Nat
      BY <1>1, <3>1, InitialCapType
    <3> QED
      BY <3>1, <3>2 DEF Allocation, AllocationStatus
  <2> HIDE DEF a, al
  <2> QED
    BY <1>1, <2>2, <2>3, CapOpens
<1>4. CASE OwnerStep
  BY <1>2, <1>4 DEF OwnerStep, LinkERC8004Identity, SetAgentSigner, TransferAgentOwnership
<1>5. CASE LifecycleStep
  <2>1. PICK a \in RegisteredIds :
          \/ \E status \in StatusInputs : SetAgentStatus(a, status)
          \/ \E payer \in Accounts, feeAlreadyPaid \in BOOLEAN :
                PromoteAgent(a, payer, feeAlreadyPaid)
          \/ \E status \in AllocationStatusInputs : SetAllocationStatus(a, status)
          \/ \E used \in UsedInputs : SetAllocationUsed(a, used)
    BY <1>5 DEF LifecycleStep
  <2> DEFINE was == allocations[a]
  <2>2. /\ a \in DOMAIN allocations /\ was \in Allocation
        /\ was.cap \in Nat /\ was.vault \in Vaults
    <3>1. a \in DOMAIN allocations /\ was \in Allocation
      BY DEF RegistryInv, AllocationInv, AllocationTypeOK, AllocationTracksAgent, RegisteredIds
    <3> QED
      BY <3>1 DEF Allocation
  <2> HIDE DEF was
  <2>3. ASSUME NEW al \in Allocation, al.vault = was.vault,
               allocations' = [allocations EXCEPT ![a] = al],
               resizeCaps(was.vault, was.cap, al.cap)
        PROVE  CapsAddUp'
    <3>1. \A v \in Vaults : totalAgentCaps'[v] =
             IF v = al.vault THEN totalAgentCaps[v] - was.cap + al.cap ELSE totalAgentCaps[v]
      BY <1>1, <2>2, <2>3 DEF resizeCaps
    <3> QED
      BY <1>1, <2>2, <2>3, <3>1, CapMoves DEF was
  <2>4. ASSUME NEW al \in Allocation, al.vault = was.vault, al.cap = was.cap,
               allocations' = [allocations EXCEPT ![a] = al], UNCHANGED totalAgentCaps
        PROVE  CapsAddUp'
    <3>1. \A v \in Vaults : totalAgentCaps'[v] =
             IF v = al.vault THEN totalAgentCaps[v] - was.cap + al.cap ELSE totalAgentCaps[v]
      BY <1>1, <2>2, <2>4
    <3> QED
      BY <1>1, <2>2, <2>4, <3>1, CapMoves DEF was
  <2>5. ASSUME NEW status \in StatusInputs, SetAgentStatus(a, status) PROVE CapsAddUp'
    <3> DEFINE al == [was EXCEPT !.status = "Removed", !.cap = 0]
    <3>1. \/ UNCHANGED allocationVars
          \/ /\ resizeCaps(was.vault, was.cap, 0)
             /\ allocations' = [allocations EXCEPT ![a].status = "Removed", ![a].cap = 0]
      BY <2>5 DEF SetAgentStatus, onAgentRemoved, was
    <3>2. /\ al \in Allocation /\ al.vault = was.vault /\ al.cap = 0
          /\ [allocations EXCEPT ![a].status = "Removed", ![a].cap = 0] =
             [allocations EXCEPT ![a] = al]
      BY <2>2 DEF Allocation, AllocationStatus, was
    <3> HIDE DEF al
    <3> QED
      BY <1>2, <2>3, <3>1, <3>2
  <2>6. ASSUME NEW payer \in Accounts, NEW feeAlreadyPaid \in BOOLEAN,
               PromoteAgent(a, payer, feeAlreadyPaid)
        PROVE  CapsAddUp'
    <3> DEFINE cap == initialCap(agents[a].vault, agents[a].track + 1)
               al == [was EXCEPT !.trackId = agents[a].track + 1, !.cap = cap]
    <3>1. /\ agents[a].track < PRIME /\ agents[a].vault = was.vault
          /\ resizeCaps(agents[a].vault, was.cap, cap)
          /\ allocations' = [allocations EXCEPT ![a] = al]
      BY <2>6 DEF PromoteAgent, onAgentPromoted, promoted, was
    <3>2. agents[a].vault \in Vaults /\ agents[a].track + 1 \in Track
      <4>1. agents[a] \in Agent
        BY DEF RegistryInv, AgentInv, AgentTypeOK, RegisteredIds
      <4>2. agents[a].vault \in Vaults /\ agents[a].track \in Track
        BY <4>1 DEF Agent
      <4> QED
        BY <3>1, <4>2 DEF Track, PRIME
    <3>3. cap \in Nat
      BY <1>1, <3>2, InitialCapType
    <3> HIDE DEF cap
    <3>4. al \in Allocation /\ al.vault = was.vault /\ al.cap = cap
      BY <2>2, <3>2, <3>3 DEF Allocation
    <3> HIDE DEF al
    <3> QED
      BY <2>3, <3>1, <3>4
  <2>7. ASSUME NEW status \in AllocationStatusInputs, SetAllocationStatus(a, status)
        PROVE  CapsAddUp'
    <3> DEFINE al == [was EXCEPT !.status = status]
    <3>1. al \in Allocation /\ al.vault = was.vault /\ al.cap = was.cap
      BY <2>2, AllocationInputsAssumption DEF Allocation
    <3>2. allocations' = [allocations EXCEPT ![a] = al] /\ UNCHANGED totalAgentCaps
      BY <2>7 DEF SetAllocationStatus, setAllocationStatus, was
    <3> HIDE DEF al
    <3> QED
      BY <2>4, <3>1, <3>2
  <2>8. ASSUME NEW used \in UsedInputs, SetAllocationUsed(a, used) PROVE CapsAddUp'
    <3> DEFINE al == [was EXCEPT !.used = used]
    <3>1. al \in Allocation /\ al.vault = was.vault /\ al.cap = was.cap
      BY <2>2, AllocationInputsAssumption DEF Allocation
    <3>2. allocations' = [allocations EXCEPT ![a] = al] /\ UNCHANGED totalAgentCaps
      BY <2>8 DEF SetAllocationUsed, setAllocationUsed, was
    <3> HIDE DEF al
    <3> QED
      BY <2>4, <3>1, <3>2
  <2> QED
    BY <2>1, <2>5, <2>6, <2>7, <2>8
<1>6. ASSUME NEW paused \in BOOLEAN, SetRegistryPaused(paused) PROVE CapsAddUp'
  BY <1>2, <1>6 DEF SetRegistryPaused
<1>7. CASE AdminStep
  BY <1>2, <1>7 DEF AdminStep, SetVaultTrackConfig, SetFees, TransferErc8004
<1>8. CASE UNCHANGED registryVars
  BY <1>2, <1>8 DEF registryVars
<1> QED
  BY <1>3, <1>4, <1>5, <1>6, <1>7, <1>8 DEF RegistryNext

-----------------------------------------------------------------------------
(* Theorems of the specification. *)

\* RegistryInv holds in every state the registry's transactions reach.
THEOREM RegistryInvariant == RegistrySpec => []RegistryInv
  BY InitEstablishes, RegistryNextKeeps, PTL DEF RegistrySpec

\* Storage keeps its types: no balance, cap total or fee goes below zero.
THEOREM RegistryTypeCorrect == RegistrySpec => []RegistryTypeOK
<1>1. RegistryInv => RegistryTypeOK
  BY DEF RegistryInv, AgentInv, AgentTypeOK, FeeTypeOK, AllocationInv, RegistryTypeOK
<1> QED
  BY <1>1, RegistryInvariant, PTL

\* Registration and promotion write two contracts in one transaction: an agent and
\* its allocation always agree on vault and track, for any number of agents.
THEOREM AllocationAgreement == RegistrySpec => []AllocationTracksAgent
<1>1. RegistryInv => AllocationTracksAgent
  BY DEF RegistryInv, AllocationInv
<1> QED
  BY <1>1, RegistryInvariant, PTL

\* The swap-and-pop index of owners stays exact through any chain of transfers.
THEOREM OwnerIndexCorrect == RegistrySpec => []OwnerIndexExact
<1>1. RegistryInv => OwnerIndexExact
  BY DEF RegistryInv, AgentInv
<1> QED
  BY <1>1, RegistryInvariant, PTL

\* An ERC-8004 identity names at most one agent, whoever owns the token later.
THEOREM LinkCorrect == RegistrySpec => []LinkExact
<1>1. RegistryInv => LinkExact
  BY DEF RegistryInv, AgentInv
<1> QED
  BY <1>1, RegistryInvariant, PTL

\* No USDC is lost or created between the payers of fees and the treasury, whatever
\* fees the administrator sets.
THEOREM FeesCorrect == RegistrySpec => []FeesReachTreasury
<1>1. /\ RegistryInit => RegistryInv /\ FeesReachTreasury
      /\ (RegistryInv /\ FeesReachTreasury) /\ [RegistryNext]_registryVars
           => (RegistryInv /\ FeesReachTreasury)'
  BY InitEstablishes, RegistryNextKeeps, FeesStart, FeesKeep
<1> QED
  BY <1>1, PTL DEF RegistrySpec

\* totalAgentCaps of a vault is the sum of its agents' caps in every reachable state,
\* for any number of registrations, promotions, removals and policy changes.
THEOREM CapsCorrect == RegistrySpec => []CapsAddUp
<1>1. /\ RegistryInit => RegistryInv /\ CapsAddUp
      /\ (RegistryInv /\ CapsAddUp) /\ [RegistryNext]_registryVars => (RegistryInv /\ CapsAddUp)'
  BY InitEstablishes, RegistryNextKeeps, CapsStart, CapsKeep
<1> QED
  BY <1>1, PTL DEF RegistrySpec
=============================================================================
