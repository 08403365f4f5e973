------------------------------- MODULE WebApp -------------------------------
(***************************************************************************)
(* apps/web: App renders the page of one tab.  Choosing another unmounts   *)
(* it, its state and its answers with it, while the API goes on with what  *)
(* it has been sent.  The pages of the prices and the trade history ask    *)
(* one thing at a time and are here the tabs that show neither page.       *)
(***************************************************************************)
EXTENDS QuotesPage, BalancesPage

VARIABLE tab

vars == <<api, line, quotesPage, balancesPage, tab>>

Tabs == {"quotes", "balances", "another"}

Init ==
    /\ ApiInit
    /\ line = NoLine
    /\ QuotesInit
    /\ BalancesInit
    /\ tab = "another"

SelectTab(t) ==
    /\ tab' = t /\ t # tab
    /\ line' = IF t = "another" THEN NoLine ELSE Mounted
    /\ LeaveQuotes
    /\ LeaveBalances
    /\ UNCHANGED api

\* Whatever is shown, quotes lapse and the API ends what it has begun.
Background ==
    /\ \/ \E q \in Quotes : ApiLapse(q) /\ UNCHANGED <<line, quotesPage, balancesPage>>
       \/ \E a \in abandoned : PayAbandoned(a) /\ UNCHANGED balancesPage
       \/ CreditOrphan /\ UNCHANGED quotesPage
    /\ UNCHANGED tab

Next ==
    \/ \E t \in Tabs : SelectTab(t)
    \/ tab = "quotes" /\ OnQuotesPage /\ UNCHANGED <<balancesPage, tab>>
    \/ tab = "balances" /\ OnBalancesPage /\ UNCHANGED <<quotesPage, tab>>
    \/ Background

Spec == Init /\ [][Next]_vars

-----------------------------------------------------------------------------
\* Every variable keeps its shape; a page that is not mounted has no state,
\* and a quote is held by one attempt, whoever waits for it.
TypeOK ==
    /\ QuotesTypeOK /\ BalancesTypeOK
    /\ row \in [Quotes -> {"ABSENT", "ACTIVE", "EXECUTED"}]
    /\ lapsed \subseteq Quotes
    /\ held = {a.quote : a \in {b \in abandoned \cup {paying} : b.at = "held"}}
    /\ trades \subseteq [quote: Quotes, key: Quotes]
    /\ funds \in Versions
    /\ line \in [shown: Versions \cup {None}, due: Versions \cup {None},
                 reads: [Slots -> Versions \cup {None}]]
    /\ tab \in Tabs
    /\ tab # "quotes" => page = NoPage /\ paying = NoPayment
=============================================================================
