--------------------------- MODULE TokenRegistry ---------------------------
(***************************************************************************)
(* contracts/src/core/TokenRegistry.sol, its price oracle (external) and   *)
(* libraries/OracleLib.sol.  Staleness is one bit per token: whether the   *)
(* age of its last price is within the vaults' maxPriceAge.                *)
(***************************************************************************)
EXTENDS ProtocolTypes

CONSTANTS Prices,       \* USDC base units of one whole token
          TokenUnit     \* 10 ** tokenDecimals

VARIABLES tokenStatus,  \* _listed and _configs[token].active
          price,        \* external: the oracle's answer
          fresh         \* external: block.timestamp - updatedAt <= maxPriceAge

tokenVars == <<tokenStatus, price, fresh>>

ASSUME PricesAssumption == Prices \subseteq Nat \ {0} /\ TokenUnit \in Nat \ {0}

isTokenActive(t) == tokenStatus[t] = "Active"

registerToken(t) ==
    /\ tokenStatus[t] = "Unlisted"
    /\ tokenStatus' = [tokenStatus EXCEPT ![t] = "Active"]
    /\ UNCHANGED <<price, fresh>>

setTokenActive(t, active) ==
    /\ tokenStatus[t] # "Unlisted"
    /\ tokenStatus' = [tokenStatus EXCEPT ![t] = IF active THEN "Active" ELSE "Inactive"]
    /\ UNCHANGED <<price, fresh>>

\* external: the feed publishes an answer.
publishPrice(t, p) ==
    /\ price' = [price EXCEPT ![t] = p]
    /\ fresh' = [fresh EXCEPT ![t] = TRUE]
    /\ UNCHANGED tokenStatus

\* external: time passes and the last answer exceeds maxPriceAge.
goStale(t) ==
    /\ fresh' = [fresh EXCEPT ![t] = FALSE]
    /\ UNCHANGED <<tokenStatus, price>>

\* valueInAsset reverts with StalePrice, except that nothing is worth nothing.
canValue(amount, t) == amount = 0 \/ fresh[t]
valueInAsset(amount, t) == MulDiv(amount, price[t], TokenUnit)
=============================================================================
