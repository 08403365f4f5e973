--------------------------- MODULE MCTradeHistory ---------------------------
(* Instances of TradeHistory for TLC. *)
EXTENDS TradeHistory

CONSTANTS alice, bob
=============================================================================
