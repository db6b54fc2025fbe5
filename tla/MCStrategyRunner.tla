-------------------------- MODULE MCStrategyRunner --------------------------
(***************************************************************************)
(* Two agents, two invocations and a DUE_LIMIT of one, so that one agent   *)
(* can stand in the way of the other; decisions of two actions on one      *)
(* symbol, of which the second fails when the first is mined; one crash.   *)
(***************************************************************************)
EXTENDS StrategyRunner, TLC
=============================================================================
