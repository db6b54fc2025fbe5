------------------------- MODULE MCPositionManager -------------------------
(***************************************************************************)
(* PositionManager with two agents, three tokens and ladders of one and    *)
(* two rules: enough for an agent to hold three positions at once, so that *)
(* swap-and-pop removes the first, the middle and the last entry, and for  *)
(* a position to be reopened after its close.                              *)
(***************************************************************************)
EXTENDS PositionManager, TLC

MCAgentIds == {1, 2}

SellAll == [triggerType |-> "StopLoss", triggerBps |-> -1000, exitBps |-> MAX_BPS]
SellHalf == [triggerType |-> "TakeProfit", triggerBps |-> 1000, exitBps |-> 5000]
MCLadders == {<<SellAll>>, <<SellHalf, SellAll>>}

TokenSymmetry == Permutations(Tokens)
=============================================================================
