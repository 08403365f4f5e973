----------------------------- MODULE TradingApi -----------------------------
(***************************************************************************)
(* The API as the web client meets it: quotes that live as QuoteLife says, *)
(* executions that name a key, and balances, seen as the number of commits *)
(* that have changed them.  TradeExecution says how this comes about.      *)
(***************************************************************************)
EXTENDS Naturals

CONSTANTS
    MaxQuotes,      \* bound: quotes the API issues
    MaxDeposits     \* bound: deposits that are asked for

ASSUME MaxQuotesAssumption == MaxQuotes \in Nat \ {0}
ASSUME MaxDepositsAssumption == MaxDeposits \in Nat

VARIABLES
    row,        \* quotes.status in the database
    lapsed,     \* the quotes whose expires_at has passed at the API
    held,       \* the quotes whose row an execution has locked
    trades,     \* the quote and the key of each trade
    funds       \* the version of the balances

api == <<row, lapsed, held, trades, funds>>

\* Quotes are numbered in the order in which the API issues them, and a key is
\* named by the quote it was generated with.
Quotes == 1 .. MaxQuotes
None == 0
Versions == 1 .. 1 + MaxQuotes + MaxDeposits

Life == INSTANCE QuoteLife WITH status <- row

ApiInit == Life!Init /\ trades = {} /\ funds = 1

ApiIssue(q) ==
    /\ \A p \in Quotes : p < q => row[p] # "ABSENT"
    /\ Life!Issue(q) /\ lapsed' = lapsed
    /\ UNCHANGED <<trades, funds>>

\* That an EXECUTED quote lapses makes no difference to anybody.
ApiLapse(q) ==
    /\ row[q] = "ACTIVE"
    /\ Life!Lapse({q})
    /\ UNCHANGED <<trades, funds>>

ApiDeposit == funds' = funds + 1 /\ UNCHANGED <<row, lapsed, held, trades>>

-----------------------------------------------------------------------------
(* executeTrade, for an attempt with a quote, a key, and how far it is.    *)

\* The locked quote is ACTIVE and in time.
ApiHold(attempt) ==
    /\ attempt.at = "sent"
    /\ Life!Hold(attempt.quote)
    /\ UNCHANGED <<trades, funds>>

ApiSettle(attempt) ==
    /\ attempt.at = "held"
    /\ \A t \in trades : t.key # attempt.key
    /\ Life!Settle(attempt.quote)
    /\ trades' = trades \cup {[quote |-> attempt.quote, key |-> attempt.key]}
    /\ funds' = funds + 1

\* A replay, a refusal or a failure, which gives up the quote if it is held.
ApiAnswer(attempt, answer) ==
    LET used == \E t \in trades : t.key = attempt.key /\ t.quote # attempt.quote
        done == row[attempt.quote] = "EXECUTED"
    IN  /\ attempt.at \in {"sent", "held"}
        /\ CASE answer = "trade" -> /\ attempt.at = "sent"
                                    /\ [quote |-> attempt.quote,
                                        key |-> attempt.key] \in trades
             [] answer = "409" -> used \/ done
             [] answer = "410" -> /\ attempt.at = "sent"
                                  /\ ~done /\ attempt.quote \in lapsed
             [] OTHER -> TRUE
        /\ IF attempt.at = "held" THEN Life!Release({attempt.quote})
                                  ELSE UNCHANGED <<row, lapsed, held>>
        /\ UNCHANGED <<trades, funds>>
=============================================================================
