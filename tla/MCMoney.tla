------------------------------- MODULE MCMoney ------------------------------
(* Instances of Money for TLC: decimal.js and the columns scaled down, with  *)
(* the relations between their sizes kept (a column has one digit less than  *)
(* the precision, an amount may have more decimals than a minor unit, and    *)
(* the smallest amounts are written with an exponent).                       *)
EXTENDS Money

MCToExpNeg == -1
MCAmounts == [c: 0 .. 130, e: 0 .. 3] \cup [c: {990, 999, 1000, 1001}, e: 0 .. 3]
MCPrices == [c: {1, 3, 7, 10, 13, 29, 97, 104, 333}, e: 0 .. 4]
=============================================================================
