------------------------- MODULE VaultTrackRegistry -------------------------
(***************************************************************************)
(* contracts/src/core/VaultTrackRegistry.sol: the risk policy of every     *)
(* (vault, track) pair.  Only the fields the other contracts read are      *)
(* kept; maxDrawdownBps and the promotion criteria are stored for          *)
(* off-chain use.                                                          *)
(***************************************************************************)
EXTENDS ProtocolTypes

CONSTANTS Configs,         \* configurations an administrator may write
          InitialConfig    \* [Vaults -> [Track -> config]] written by the deployment

VARIABLES vaultTrackConfigs   \* _vaultTrackConfigs

VaultTrackConfig ==
    [initialAllocation : Nat, maxAllocation : Nat, maxTradeSizeBps : Nat,
     maxDailyTurnoverBps : Nat, maxDailyLossBps : Nat, active : BOOLEAN,
     maxStopLossBps : Nat, minTakeProfitBps : Nat, maxTakeProfitBps : Nat,
     requireStopLoss : BOOLEAN, requireTakeProfit : BOOLEAN]

\* What a pair that was never configured reads as.
UnsetConfig ==
    [initialAllocation |-> 0, maxAllocation |-> 0, maxTradeSizeBps |-> 0,
     maxDailyTurnoverBps |-> 0, maxDailyLossBps |-> 0, active |-> FALSE,
     maxStopLossBps |-> 0, minTakeProfitBps |-> 0, maxTakeProfitBps |-> 0,
     requireStopLoss |-> FALSE, requireTakeProfit |-> FALSE]

\* _validateBps on every bps field, AllocationOutOfRange.
ValidConfig(config) ==
    /\ \A bps \in {config.maxTradeSizeBps, config.maxDailyTurnoverBps, config.maxDailyLossBps,
                   config.maxStopLossBps, config.minTakeProfitBps, config.maxTakeProfitBps} :
          bps <= MAX_BPS
    /\ config.initialAllocation <= config.maxAllocation

ASSUME ConfigsAssumption ==
    /\ Configs \subseteq VaultTrackConfig
    /\ InitialConfig \in [Vaults -> [Track -> VaultTrackConfig]]
    /\ \A v \in Vaults, k \in Track : ValidConfig(InitialConfig[v][k])

setVaultTrackConfig(v, k, config) ==
    /\ ValidConfig(config)
    /\ vaultTrackConfigs' = [vaultTrackConfigs EXCEPT ![v][k] = config]

isVaultTrackActive(v, k) == vaultTrackConfigs[v][k].active
=============================================================================
