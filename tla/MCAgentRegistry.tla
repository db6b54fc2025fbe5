--------------------------- MODULE MCAgentRegistry ---------------------------
(***************************************************************************)
(* AgentRegistry with two agents, two accounts and one ERC-8004 identity:  *)
(* an owner may hold both agents, so that a transfer removes the first or  *)
(* the last entry of its index, and two agents compete for the identity.   *)
(***************************************************************************)
EXTENDS AgentRegistry, TLC

MCAgentIds == {1, 2}

Policy(cap) == [UnsetConfig EXCEPT !.initialAllocation = cap, !.maxAllocation = cap,
                                   !.active = TRUE]

\* Caps shrink at the second promotion: the policy does not forbid it.
MCInitialConfig == [v \in Vaults |-> (0 :> Policy(2)) @@ (1 :> Policy(3)) @@ (2 :> Policy(1))]

\* Policies an administrator may write later: a lower cap, an inactive track.
MCConfigs == {Policy(1), [Policy(2) EXCEPT !.active = FALSE]}

AccountSymmetry == Permutations(Accounts)
=============================================================================
