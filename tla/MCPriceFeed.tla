---------------------------- MODULE MCPriceFeed -----------------------------
(* Instances of PriceFeed for TLC. *)
EXTENDS PriceFeed

CONSTANTS shown, quoted
=============================================================================
