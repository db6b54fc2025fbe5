------------------------- MODULE MCTradeSubmission -------------------------
(***************************************************************************)
(* Requests that compete for the nonces of one agent, a signer that may be *)
(* rotated and an allocation of two trades.                                *)
(***************************************************************************)
EXTENDS TradeSubmission
=============================================================================
