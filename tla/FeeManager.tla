----------------------------- MODULE FeeManager -----------------------------
(***************************************************************************)
(* contracts/src/core/FeeManager.sol: registration and promotion fees,     *)
(* pulled from a payer's USDC to the treasury.  The USDC token is external *)
(* (transferFrom moves the balance or reverts).                            *)
(***************************************************************************)
EXTENDS ProtocolTypes, Functions

CONSTANTS Accounts,       \* owners, signers and payers
          FeeInputs,      \* fee amounts the fee administrator writes
          InitialUsdc     \* USDC each account starts with

VARIABLES registrationFee,   \* _registrationFeeAmount
          promotionFee,      \* _promotionFeeAmounts, by vault and from-track
          accountUsdc,       \* external: USDC balances of the payers
          treasuryUsdc       \* external: USDC received by the treasury

feeVars == <<registrationFee, promotionFee, accountUsdc, treasuryUsdc>>

\* An account is an address of 160 bits.
ASSUME FeeAssumption ==
    FeeInputs \subseteq Nat /\ InitialUsdc \in Nat /\ IsFiniteSet(Accounts)

FeeInit ==
    /\ registrationFee = 0
    /\ promotionFee = [v \in Vaults |-> [k \in Track |-> 0]]
    /\ accountUsdc = [x \in Accounts |-> InitialUsdc]
    /\ treasuryUsdc = 0

\* safeTransferFrom(payer, treasury, amount)
FeeBurnt(payer, amount) ==
    accountUsdc' = [accountUsdc EXCEPT ![payer] = @ - amount] /\ UNCHANGED treasuryUsdc
transferFee(payer, amount) ==
    /\ accountUsdc' = [accountUsdc EXCEPT ![payer] = @ - amount]
    /\ treasuryUsdc' = treasuryUsdc + amount
payTreasury(payer, amount) ==
    amount <= accountUsdc[payer] /\ transferFee(payer, amount)

payRegistrationFee(payer) ==
    payTreasury(payer, registrationFee) /\ UNCHANGED <<registrationFee, promotionFee>>

payPromotionFee(payer, v, from) ==
    payTreasury(payer, promotionFee[v][from]) /\ UNCHANGED <<registrationFee, promotionFee>>

setRegistrationFee(amount) ==
    registrationFee' = amount /\ UNCHANGED <<promotionFee, accountUsdc, treasuryUsdc>>

\* A fee is charged only for from + 1, the one step promoteAgent allows.
setPromotionFee(v, from, amount) ==
    /\ promotionFee' = [promotionFee EXCEPT ![v][from] = amount]
    /\ UNCHANGED <<registrationFee, accountUsdc, treasuryUsdc>>
=============================================================================
