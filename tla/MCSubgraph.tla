----------------------------- MODULE MCSubgraph -----------------------------
(***************************************************************************)
(* Up to twelve events in a block and five transactions in all, so that a  *)
(* position opens and closes, or an agent trades and is promoted, within   *)
(* one block, and another block follows it.                                *)
(***************************************************************************)
EXTENDS Subgraph, TLC
MCLadders == {<<"all">>, <<"half", "all">>}
MCCapOfTrack == 0 :> 2 @@ 1 :> 3
=============================================================================
