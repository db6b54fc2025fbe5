------------------------- MODULE AllocationManager -------------------------
(***************************************************************************)
(* contracts/src/core/AllocationManager.sol: the capital budget of every   *)
(* agent (cap, used) and the sum of the caps of a vault.  The hooks are    *)
(* called by AgentRegistry, setAllocationUsedByRouter by TradeRouter; the  *)
(* modules of those contracts conjoin these operators with their own.      *)
(*                                                                         *)
(* _allocations is a partial function: an agent outside its domain has     *)
(* vault == address(0), and _requireAllocation reverts for it.             *)
(***************************************************************************)
EXTENDS VaultTrackRegistry, Functions

CONSTANTS AllocationStatusInputs,   \* statuses the operator writes
          UsedInputs                \* values of used the operator writes

VARIABLES allocations,      \* _allocations
          totalAgentCaps    \* _totalAgentCaps

allocationVars == <<allocations, totalAgentCaps>>

ASSUME AllocationInputsAssumption ==
    AllocationStatusInputs \subseteq AllocationStatus /\ UsedInputs \subseteq Nat

Allocation == [vault : Vaults, trackId : Track, cap : Nat, used : Nat, status : AllocationStatus]

HasAllocation(a) == a \in DOMAIN allocations

AllocationInit ==
    /\ allocations = <<>>
    /\ totalAgentCaps = [v \in Vaults |-> 0]

\* _initialCap: reads initialAllocation only; ExceedsMaxAllocation cannot happen
\* for a configuration that setVaultTrackConfig accepted.
initialCap(v, k) == vaultTrackConfigs[v][k].initialAllocation

\* totalAgentCaps -= from, += to; the subtraction is checked.
GrowCapsOnly(v, from, to) == totalAgentCaps' = [totalAgentCaps EXCEPT ![v] = @ + to]
resizeCaps(v, from, to) ==
    /\ from <= totalAgentCaps[v]
    /\ totalAgentCaps' = [totalAgentCaps EXCEPT ![v] = @ - from + to]

\* The allocation a promotion leaves.
PromotedInPlace(al, to, cap) == [al EXCEPT !.cap = cap]
promoted(al, to, cap) == [al EXCEPT !.trackId = to, !.cap = cap]

\* AllocationInUse
NeverInUse(al) == TRUE
notInUse(al) == al.used = 0

-----------------------------------------------------------------------------
(* Hooks of AgentRegistry. *)

onAgentRegistered(a, v, k) ==
    LET created == [vault |-> v, trackId |-> k, cap |-> initialCap(v, k), used |-> 0,
                    status |-> "Active"]
    IN  /\ ~HasAllocation(a)
        /\ allocations' = [b \in DOMAIN allocations \cup {a} |->
                             IF b = a THEN created ELSE allocations[b]]
        /\ resizeCaps(v, 0, initialCap(v, k))

\* Replaces the cap whatever the status of the allocation and whatever is used.
onAgentPromoted(a, v, from, to) ==
    /\ HasAllocation(a)
    /\ allocations[a].vault = v
    /\ allocations[a].trackId = from
    /\ resizeCaps(v, allocations[a].cap, initialCap(v, to))
    /\ allocations' = [allocations EXCEPT ![a] = promoted(@, to, initialCap(v, to))]

\* Idempotent for a Removed allocation, AllocationInUse while capital is deployed.
onAgentRemoved(a) ==
    LET al == allocations[a]
    IN  /\ HasAllocation(a)
        /\ \/ /\ al.status = "Removed"
              /\ UNCHANGED allocationVars
           \/ /\ al.status # "Removed"
              /\ notInUse(al)
              /\ resizeCaps(al.vault, al.cap, 0)
              /\ allocations' = [allocations EXCEPT ![a].status = "Removed", ![a].cap = 0]

-----------------------------------------------------------------------------
(* Operator and router. *)

setAllocationStatus(a, status) ==
    /\ HasAllocation(a)
    /\ allocations' = [allocations EXCEPT ![a].status = status]
    /\ UNCHANGED totalAgentCaps

\* _setAllocationUsed, shared by the operator's and the router's entry points.
setAllocationUsed(a, used) ==
    /\ HasAllocation(a)
    /\ used <= allocations[a].cap
    /\ allocations' = [allocations EXCEPT ![a].used = used]
    /\ UNCHANGED totalAgentCaps

-----------------------------------------------------------------------------
(* Properties of this component, checked in the compositions. *)

\* Storage types of VaultTrackRegistry and AllocationManager.
AllocationTypeOK ==
    /\ vaultTrackConfigs \in [Vaults -> [Track -> VaultTrackConfig]]
    /\ DOMAIN allocations \subseteq AgentIds
    /\ allocations \in [DOMAIN allocations -> Allocation]
    /\ totalAgentCaps \in [Vaults -> Nat]

\* IAllocationManager.totalAgentCaps: the sum of all agent caps on the vault,
\* through registration, promotion, removal and policy changes, so that its
\* subtractions never underflow.
CapsAddUp ==
    \A v \in Vaults :
      totalAgentCaps[v] =
        SumFunction([a \in {b \in DOMAIN allocations : allocations[b].vault = v} |->
                       allocations[a].cap])
=============================================================================
