---------------------------- MODULE MCQuoteCache ----------------------------
(* Instances of QuoteCache for TLC. *)
EXTENDS QuoteCache

CONSTANTS alice, bob, q1, g1, g2

MCOwner == [q \in Quotes |-> alice]
=============================================================================
