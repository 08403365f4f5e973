---------------------------- MODULE BalanceLine -----------------------------
(***************************************************************************)
(* The balances a page shows: whichever answer of GET /v1/balances, or of  *)
(* POST /v1/deposits, arrives last is put on the page, whenever it was     *)
(* read.  QuotesPage and BalancesPage differ in when they ask.             *)
(***************************************************************************)
EXTENDS TradingApi

VARIABLE line       \* the balances of the mounted page and its requests

Slots == 0 .. MaxQuotes
OnMount == 0

\* Version None: nothing is shown, asked or due.  What a request will bring is
\* known to be no older than what was committed when it was sent, which is
\* what reads keeps; due is history, the version the page has reason to show.
NoLine == [shown |-> None, due |-> None, reads |-> [s \in Slots |-> None]]

InFlight(l) == \E s \in Slots : l.reads[s] # None

\* Nothing is due of requests that overlap.
Asking(l, s) ==
    [l EXCEPT !.reads[s] = funds, !.due = IF InFlight(l) THEN None ELSE funds]

\* The mount effect.
Mounted == Asking(NoLine, OnMount)

\* The balances were read at any time since the request was sent.
Arrive(s) ==
    /\ line.reads[s] # None
    /\ \E v \in line.reads[s] .. funds :
          line' = [line EXCEPT !.reads[s] = None, !.shown = v]

\* Nor of a request whose answer is lost.
Fail(s) ==
    /\ line.reads[s] # None
    /\ line' = [line EXCEPT !.reads[s] = None, !.due = None]

\* With no request out, the page shows all that was committed when it last
\* asked, unless an answer was lost or two requests overlapped.
ShownBalanceIsFresh == ~InFlight(line) => line.shown >= line.due
=============================================================================
