--------------------------- MODULE ProtocolTypes ---------------------------
(***************************************************************************)
(* The vocabulary the contracts share: the identities that index every     *)
(* mapping, the enumerations of contracts/src/interfaces, and the integer  *)
(* arithmetic Solidity gives them.                                         *)
(***************************************************************************)
EXTENDS IndexArrays, FiniteSets

CONSTANTS AgentIds,   \* agent ids the registry may hand out: 1, 2, ...
          Vaults,     \* deployed MandateVaults
          Tokens      \* tokenized assets a vault may hold

\* An id is a uint256, so there are finitely many.
ASSUME IdentitiesAssumption == AgentIds \subseteq Nat \ {0} /\ IsFiniteSet(AgentIds)

\* IAgentRegistry.AgentStatus
AgentStatus == {"Draft", "Active", "Suspended", "Failed", "Graduated", "Exited"}

\* IAgentRegistry.Track: CHALLENGE, FUNDED, PRIME
Track == 0 .. 2

\* IAllocationManager.AllocationStatus
AllocationStatus == {"Active", "Paused", "Removed"}

\* IPositionTypes.PositionStatus
PositionStatus == {"Open", "Closed"}

\* IPositionTypes.ExitRule: a trigger and the share of the remaining tokens it sells
ExitRule == [triggerType : {"StopLoss", "TakeProfit"}, triggerBps : Int, exitBps : Nat]

MAX_BPS == 10000

\* mulDiv(a, b, c, Rounding.Floor)
MulDiv(a, b, c) == (a * b) \div c

\* Signed division of the EVM truncates towards zero; TLA+'s \div floors.
SignedDiv(a, b) == IF a < 0 THEN -((-a) \div b) ELSE a \div b
=============================================================================
