--------------------------- MODULE AgentRegistry ---------------------------
(***************************************************************************)
(* contracts/src/core/AgentRegistry.sol with the contracts its handlers    *)
(* call: AllocationManager (hooks), FeeManager (fees), VaultTrackRegistry  *)
(* (vault approval) and the external ERC-8004 identity registry.  Every    *)
(* external call is one transaction and one action; the interleaving is    *)
(* between owners, registrar, operator, administrators and the holders of  *)
(* ERC-8004 tokens.  The wiring is the deployed one: fee manager, track    *)
(* registry and allocation manager are set.  Names, metadata and payout    *)
(* recipients are not read by any handler and are left out.                *)
(***************************************************************************)
EXTENDS AllocationManager, FeeManager, FiniteSets

CONSTANTS Erc8004Ids,      \* portable identity tokens
          NoErc8004,       \* hasERC8004Identity == false
          StatusInputs     \* statuses the operator writes

VARIABLES agents,              \* _agents, ids 1 .. _nextAgentId - 1
          agentIdsByOwner,     \* _agentIdsByOwner
          agentIdByErc8004,    \* _agentIdByErc8004, 0 when there is none
          signerNonces,        \* OpenZeppelin Nonces, consumed by self-registration
          registryPaused,      \* Pausable
          erc8004Owner         \* external: ownerOf of the identity registry

identityVars == <<agentIdsByOwner, agentIdByErc8004, signerNonces, erc8004Owner>>
agentVars == <<agents, identityVars, registryPaused>>
registryVars == <<agentVars, feeVars, allocationVars, vaultTrackConfigs>>

ASSUME RegistryAssumption ==
    NoErc8004 \notin Erc8004Ids /\ StatusInputs \subseteq AgentStatus

Agent == [owner : Accounts, signer : Accounts, vault : Vaults, track : Track,
          status : AgentStatus, erc8004 : Erc8004Ids \cup {NoErc8004}]

RegisteredIds == DOMAIN agents
CHALLENGE == 0
PRIME == 2

\* _isTerminalAgentStatus
IsTerminal(status) == status \in {"Failed", "Exited", "Graduated"}

RegistryInit ==
    /\ AllocationInit
    /\ FeeInit
    /\ vaultTrackConfigs = InitialConfig
    /\ agents = <<>>
    /\ agentIdsByOwner = [x \in Accounts |-> <<>>]
    /\ agentIdByErc8004 = [e \in Erc8004Ids |-> 0]
    /\ signerNonces = [x \in Accounts |-> 0]
    /\ registryPaused = FALSE
    /\ erc8004Owner \in [Erc8004Ids -> Accounts]

-----------------------------------------------------------------------------
(* Registration. *)

\* _applyErc8004Link's checks for an agent of that owner.
CanLinkAgain(a, owner, e) == erc8004Owner[e] = owner
CanLink(a, owner, e) ==
    /\ erc8004Owner[e] = owner
    /\ agentIdByErc8004[e] \in {0, a}

\* _registerAgent; the fee is the caller's conjunct.
createAgent(owner, v, signer, e) ==
    LET a == Len(agents) + 1
    IN  /\ a \in AgentIds
        /\ isVaultTrackActive(v, CHALLENGE)
        /\ e # NoErc8004 => CanLink(a, owner, e)
        /\ agents' = Append(agents, [owner |-> owner, signer |-> signer, vault |-> v,
                                     track |-> CHALLENGE, status |-> "Active", erc8004 |-> e])
        /\ agentIdsByOwner' = [agentIdsByOwner EXCEPT ![owner] = Append(@, a)]
        /\ agentIdByErc8004' = [x \in Erc8004Ids |-> IF x = e THEN a ELSE agentIdByErc8004[x]]
        /\ onAgentRegistered(a, v, CHALLENGE)
        /\ UNCHANGED <<registryPaused, erc8004Owner, vaultTrackConfigs>>

\* registerAgent: REGISTRAR_ROLE, no fee.
RegisterAgent(owner, v, signer, e) ==
    /\ ~registryPaused
    /\ createAgent(owner, v, signer, e)
    /\ UNCHANGED <<signerNonces, feeVars>>

\* selfRegisterAgent: any caller relays the signer's EIP-712 message and pays.
SelfRegisterAgent(signer, v, e, payer) ==
    /\ ~registryPaused
    /\ signerNonces' = [signerNonces EXCEPT ![signer] = @ + 1]
    /\ createAgent(signer, v, signer, e)
    /\ payRegistrationFee(payer)

-----------------------------------------------------------------------------
(* Agent management by the owner (or the registrar). *)

LinkERC8004Identity(a, e) ==
    /\ ~registryPaused
    /\ agents[a].erc8004 = NoErc8004
    /\ CanLink(a, agents[a].owner, e)
    /\ agents' = [agents EXCEPT ![a].erc8004 = e]
    /\ agentIdByErc8004' = [agentIdByErc8004 EXCEPT ![e] = a]
    /\ UNCHANGED <<agentIdsByOwner, signerNonces, registryPaused, erc8004Owner,
                   feeVars, allocationVars, vaultTrackConfigs>>

SetAgentSigner(a, signer) ==
    /\ ~registryPaused
    /\ agents' = [agents EXCEPT ![a].signer = signer]
    /\ UNCHANGED <<identityVars, registryPaused, feeVars, allocationVars, vaultTrackConfigs>>

\* _removeAgentFromOwner(from), then push to the new owner, who may be the same.
TransferAgentOwnership(a, newOwner) ==
    LET removed == [agentIdsByOwner EXCEPT ![agents[a].owner] = SwapAndPop(@, a)]
    IN  /\ ~registryPaused
        /\ agents' = [agents EXCEPT ![a].owner = newOwner]
        /\ agentIdsByOwner' = [removed EXCEPT ![newOwner] = Append(@, a)]
        /\ UNCHANGED <<agentIdByErc8004, signerNonces, registryPaused, erc8004Owner,
                       feeVars, allocationVars, vaultTrackConfigs>>

-----------------------------------------------------------------------------
(* Operator. *)

\* Any status to any status; terminal ones release the allocation.
SetAgentStatus(a, status) ==
    /\ agents' = [agents EXCEPT ![a].status = status]
    /\ IF IsTerminal(status) THEN onAgentRemoved(a) ELSE UNCHANGED allocationVars
    /\ UNCHANGED <<identityVars, registryPaused, feeVars, vaultTrackConfigs>>

\* promoteAgent reads neither the agent's status nor its exposure.
PromoteAgent(a, payer, feeAlreadyPaid) ==
    LET from == agents[a].track
    IN  /\ ~registryPaused
        /\ from < PRIME
        /\ IF feeAlreadyPaid
           THEN UNCHANGED feeVars
           ELSE /\ payer \in {agents[a].owner, agents[a].signer}
                /\ payPromotionFee(payer, agents[a].vault, from)
        /\ onAgentPromoted(a, agents[a].vault, from, from + 1)
        /\ agents' = [agents EXCEPT ![a].track = from + 1]
        /\ UNCHANGED <<identityVars, registryPaused, vaultTrackConfigs>>

\* pause and unpause.
SetRegistryPaused(paused) ==
    /\ registryPaused' = paused
    /\ UNCHANGED <<agents, identityVars, feeVars, allocationVars, vaultTrackConfigs>>

SetAllocationStatus(a, status) ==
    setAllocationStatus(a, status) /\ UNCHANGED <<agentVars, feeVars, vaultTrackConfigs>>

SetAllocationUsed(a, used) ==
    setAllocationUsed(a, used) /\ UNCHANGED <<agentVars, feeVars, vaultTrackConfigs>>

-----------------------------------------------------------------------------
(* Administrators and the identity registry. *)

SetVaultTrackConfig(v, k, config) ==
    setVaultTrackConfig(v, k, config) /\ UNCHANGED <<agentVars, feeVars, allocationVars>>

SetFees ==
    /\ \/ \E amount \in FeeInputs : setRegistrationFee(amount)
       \/ \E v \in Vaults, from \in Track, amount \in FeeInputs : setPromotionFee(v, from, amount)
    /\ UNCHANGED <<agentVars, allocationVars, vaultTrackConfigs>>

\* external: an ERC-8004 token changes hands.
TransferErc8004(e, to) ==
    /\ erc8004Owner' = [erc8004Owner EXCEPT ![e] = to]
    /\ UNCHANGED <<agents, agentIdsByOwner, agentIdByErc8004, signerNonces, registryPaused,
                   feeVars, allocationVars, vaultTrackConfigs>>

-----------------------------------------------------------------------------

Registration ==
    \E owner, signer \in Accounts, v \in Vaults, e \in Erc8004Ids \cup {NoErc8004} :
      \/ RegisterAgent(owner, v, signer, e)
      \/ SelfRegisterAgent(signer, v, e, owner)

OwnerStep ==
    \E a \in RegisteredIds :
      \/ \E e \in Erc8004Ids : LinkERC8004Identity(a, e)
      \/ \E x \in Accounts : SetAgentSigner(a, x) \/ TransferAgentOwnership(a, x)

\* The operator steps that the trading modules compose with as well.
LifecycleStep ==
    \E a \in RegisteredIds :
      \/ \E status \in StatusInputs : SetAgentStatus(a, status)
      \/ \E payer \in Accounts, feeAlreadyPaid \in BOOLEAN : PromoteAgent(a, payer, feeAlreadyPaid)
      \/ \E status \in AllocationStatusInputs : SetAllocationStatus(a, status)
      \/ \E used \in UsedInputs : SetAllocationUsed(a, used)

AdminStep ==
    \/ \E v \in Vaults, k \in Track, config \in Configs : SetVaultTrackConfig(v, k, config)
    \/ SetFees
    \/ \E e \in Erc8004Ids, x \in Accounts : TransferErc8004(e, x)

RegistryNext ==
    \/ Registration
    \/ OwnerStep
    \/ LifecycleStep
    \/ \E paused \in BOOLEAN : SetRegistryPaused(paused)
    \/ AdminStep

RegistrySpec == RegistryInit /\ [][RegistryNext]_registryVars

-----------------------------------------------------------------------------
(* Properties. *)

\* Storage types of the registry, of the fees and of the allocations.
RegistryTypeOK ==
    /\ agents \in Seq(Agent) /\ RegisteredIds \subseteq AgentIds
    /\ agentIdsByOwner \in [Accounts -> Seq(Nat)]
    /\ agentIdByErc8004 \in [Erc8004Ids -> Nat]
    /\ signerNonces \in [Accounts -> Nat]
    /\ registryPaused \in BOOLEAN
    /\ erc8004Owner \in [Erc8004Ids -> Accounts]
    /\ registrationFee \in Nat /\ treasuryUsdc \in Nat
    /\ promotionFee \in [Vaults -> [Track -> Nat]]
    /\ accountUsdc \in [Accounts -> Nat]
    /\ AllocationTypeOK

\* The two contracts that keep an agent's vault and track agree: every agent
\* has an allocation, there is no other, and through every promotion (two
\* writes in two contracts) the allocation's track is the agent's.
AllocationTracksAgent ==
    /\ DOMAIN allocations = RegisteredIds
    /\ \A a \in RegisteredIds : /\ allocations[a].vault = agents[a].vault
                                /\ allocations[a].trackId = agents[a].track

\* agentIdsByOwner lists each agent of an owner once and no other agent,
\* through chains of transfers, a transfer to oneself included.
OwnerIndexExact ==
    /\ \A x \in Accounts : \A i \in DOMAIN agentIdsByOwner[x] :
          /\ agentIdsByOwner[x][i] \in RegisteredIds
          /\ agents[agentIdsByOwner[x][i]].owner = x
    /\ \A x \in Accounts : \A i, j \in DOMAIN agentIdsByOwner[x] :
          agentIdsByOwner[x][i] = agentIdsByOwner[x][j] => i = j
    /\ \A a \in RegisteredIds : \E i \in DOMAIN agentIdsByOwner[agents[a].owner] :
          agentIdsByOwner[agents[a].owner][i] = a

\* An ERC-8004 identity stands for at most one agent and the reverse lookup
\* answers exactly the agent that carries it, however often the agent and the
\* token change hands after the link.
LinkExact ==
    /\ \A a \in RegisteredIds : agents[a].erc8004 # NoErc8004 =>
          agentIdByErc8004[agents[a].erc8004] = a
    /\ \A e \in Erc8004Ids : agentIdByErc8004[e] # 0 =>
          /\ agentIdByErc8004[e] \in RegisteredIds
          /\ agents[agentIdByErc8004[e]].erc8004 = e

\* Fees only move USDC from the payer to the treasury: over any sequence of
\* registrations, promotions and fee changes nothing is lost or paid twice.
FeesReachTreasury ==
    treasuryUsdc + SumFunction(accountUsdc) = InitialUsdc * Cardinality(Accounts)
=============================================================================
