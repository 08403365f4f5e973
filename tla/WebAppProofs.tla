---------------------------- MODULE WebAppProofs ----------------------------
(***************************************************************************)
(* The safety of WebApp, for any number of quotes and deposits.            *)
(***************************************************************************)
EXTENDS WebApp, FiniteSetTheorems, TLAPS

-----------------------------------------------------------------------------
(* The inductive invariant.                                                *)

\* Attempts that the page or the API has not done with, and whatever else
\* names a quote and a key.
Attempts == abandoned \cup ({paying} \ {NoPayment})
Pairs == Attempts \cup trades

\* An attempt that holds its quote is the only one that does.
AttemptsOK ==
    /\ held = {a.quote : a \in {b \in abandoned \cup {paying} : b.at = "held"}}
    /\ \A a, b \in abandoned :
          a.at = "held" /\ b.at = "held" /\ a.quote = b.quote => a = b
    /\ paying.at = "held" =>
          \A a \in abandoned : a.at = "held" => a.quote # paying.quote
    /\ \A q \in held : row[q] = "ACTIVE"
    /\ \A t \in trades : row[t.quote] = "EXECUTED"

\* A quote on its way is not known to anybody; a key that names another quote
\* than its own comes of a click on a quote that has gone, never of the one that
\* is current.
PairOK(q, k) ==
    /\ q \in Quotes /\ k \in Quotes
    /\ row[q] # "ABSENT" /\ row[k] # "ABSENT"
    /\ k # making.quote /\ q # making.quote
    /\ k = page.key /\ q # k => overlap.shown
    /\ q = page.quote => k = q

PairsOK == \A p \in Pairs : PairOK(p.quote, p.key)

PageOK ==
    /\ page.key = page.quote
    /\ page.quote # None =>
          row[page.quote] # "ABSENT" /\ page.quote # making.quote
    /\ drawn # None => row[drawn] # "ABSENT" /\ drawn # making.quote
    /\ making.quote # None => row[making.quote] # "ABSENT" /\ making.asked
    /\ page.trade # None => row[page.trade] = "EXECUTED"

\* What an answer on its way says.
AnswerOK ==
    /\ paying.at = "trade" => row[paying.quote] = "EXECUTED"
    /\ paying.at = "409" =>
          \/ row[paying.quote] = "EXECUTED"
          \/ \E t \in trades : t.key = paying.key /\ t.quote # paying.quote

\* Without an overlap, nothing is being paid while a quote is made, and what
\* is being paid is the quote on the page.
HonestOK ==
    /\ making # NoQuote /\ ~overlap.making =>
          paying = NoPayment /\ page.trade = None
    /\ page.quote # None /\ ~overlap.shown /\ paying # NoPayment =>
          paying.quote = page.quote /\ paying.key = page.key

\* A balance line, by its parts, that can be met while the balances have the
\* version f.  Of a request that is due, nothing older is shown.
Fits(shown, due, reads, f) ==
    /\ shown \in Nat /\ due \in Nat /\ reads \in [Slots -> Nat] /\ f \in Nat
    /\ shown <= f /\ due <= f /\ \A s \in Slots : reads[s] <= f
    /\ \A s, t \in Slots : due # 0 /\ reads[s] # 0 /\ reads[t] # 0 => s = t /\ due <= reads[s]
    /\ (\A s \in Slots : reads[s] = 0) => due <= shown

LineShape == [shown: Nat, due: Nat, reads: [Slots -> Nat]]

LineOK ==
    /\ line \in LineShape
    /\ Fits(line.shown, line.due, line.reads, funds)
    /\ crediting => line.reads[Posted] # None /\ tab = "balances"

\* The balances have changed with each trade and each deposit.
Executed == {q \in Quotes : row[q] = "EXECUTED"}
ToCome == IF crediting THEN orphans + 1 ELSE orphans
FundsOK ==
    /\ funds \in Nat \ {0}
    /\ funds + ToCome <= 1 + Cardinality(Executed) + asked

ShapeOK ==
    /\ QuotesTypeOK /\ BalancesTypeOK
    /\ row \in [Quotes -> {"ABSENT", "ACTIVE", "EXECUTED"}]
    /\ lapsed \subseteq Quotes
    /\ trades \subseteq [quote: Quotes, key: Quotes]
    /\ tab \in Tabs
    /\ tab # "quotes" => page = NoPage /\ paying = NoPayment
    /\ (paying = NoPayment) <=> (paying.at = "none")

IInv ==
    /\ ShapeOK /\ AttemptsOK /\ PairsOK /\ PageOK /\ AnswerOK
    /\ HonestOK /\ HonestUnlessOverlapped
    /\ LineOK /\ FundsOK

-----------------------------------------------------------------------------
LEMMA Initially == Init => IInv
<1> SUFFICES ASSUME Init PROVE IInv
  OBVIOUS
<1> USE DEF Init, ApiInit, Life!Init, QuotesInit, BalancesInit, NoPage, NoQuote,
            NoPayment, NoLine, None
<1>1. ShapeOK
  <2>1. QuotesTypeOK
    BY DEF QuotesTypeOK
  <2>2. crediting \in BOOLEAN
    OBVIOUS
  <2>3. asked \in 0 .. MaxDeposits /\ orphans \in Nat
    BY MaxDepositsAssumption
  <2> QED
    BY <2>1, <2>2, <2>3 DEF ShapeOK, BalancesTypeOK, Tabs
<1>2. AttemptsOK /\ PairsOK /\ PageOK /\ AnswerOK
  BY DEF AttemptsOK, PairsOK, Pairs, Attempts, PageOK, AnswerOK
<1>3. HonestOK /\ HonestUnlessOverlapped
  BY DEF HonestOK, HonestUnlessOverlapped
<1>4. LineOK
  BY DEF LineOK, LineShape, Fits
<1>5. FundsOK
  <2>1. Executed = {}
    BY DEF Executed
  <2> QED
    BY <2>1, FS_EmptySet DEF FundsOK, ToCome
<1> QED
  BY <1>1, <1>2, <1>3, <1>4, <1>5 DEF IInv

LEMMA OrphanedIs ==
    ASSUME BalancesTypeOK
    PROVE  Orphaned \in Nat /\ orphans <= Orphaned /\ Orphaned = ToCome
<1>1. CASE crediting
  BY <1>1 DEF Orphaned, ToCome, BalancesTypeOK
<1>2. CASE ~crediting
  BY <1>2 DEF Orphaned, ToCome, BalancesTypeOK
<1> QED
  BY <1>1, <1>2

\* Every variable keeps its shape.
LEMMA ShapeStep == ASSUME IInv, [Next]_vars PROVE ShapeOK'
<1> DEFINE Good == ShapeOK'
           OnQuotes == tab = "quotes" /\ UNCHANGED <<balancesPage, tab>>
           OnBalances == tab = "balances" /\ UNCHANGED <<quotesPage, tab>>
<1> USE DEF None
<1>1. /\ QuotesTypeOK /\ BalancesTypeOK
      /\ row \in [Quotes -> {"ABSENT", "ACTIVE", "EXECUTED"}] /\ lapsed \subseteq Quotes
      /\ trades \subseteq [quote: Quotes, key: Quotes] /\ tab \in Tabs
      /\ tab # "quotes" => page = NoPage /\ paying = NoPayment
      /\ (paying = NoPayment) <=> (paying.at = "none")
  BY DEF IInv, ShapeOK
<1>2. /\ \A a \in Attempts : a.quote \in Quotes /\ a.key \in Quotes
      /\ paying # NoPayment => paying.quote \in Quotes /\ paying.key \in Quotes
      /\ (page.quote = None) <=> (page.key = None)
  BY DEF IInv, PairsOK, PairOK, Pairs, Attempts, PageOK
<1>3. Abandoned \subseteq [quote: Quotes, key: Quotes, at: AtApi]
  BY <1>1, <1>2 DEF Abandoned, QuotesTypeOK, AtApi, NoPayment
<1>4. /\ NoPage \in [quote: Quotes \cup {None}, key: Quotes \cup {None},
                     trade: Quotes \cup {None},
                     status: {"ACTIVE", "EXPIRED", "EXECUTED"}]
      /\ NoQuote \in [quote: Quotes \cup {None}, asked: BOOLEAN]
      /\ NoPayment \in [quote: Quotes \cup {None}, key: Quotes \cup {None},
                        at: {"none"} \cup AtApi \cup Answers]
  BY DEF NoPage, NoQuote, NoPayment
<1>5. ASSUME NEW t \in Tabs, SelectTab(t) PROVE Good
  <2>1. QuotesTypeOK'
    BY <1>1, <1>3, <1>4, <1>5 DEF SelectTab, LeaveQuotes, QuotesTypeOK, NoPage
  <2>2. BalancesTypeOK'
    BY <1>1, <1>5, OrphanedIs DEF SelectTab, LeaveBalances, BalancesTypeOK
  <2> QED
    BY <1>1, <1>5, <2>1, <2>2 DEF SelectTab, LeaveQuotes, ShapeOK, api, NoPayment
<1>6. ASSUME QuotesTypeOK', OnQuotes, UNCHANGED <<row, lapsed, trades>>,
             paying' = NoPayment \/ paying'.at # "none" \/ UNCHANGED paying
      PROVE  Good
  BY <1>1, <1>6 DEF ShapeOK, NoPayment, BalancesTypeOK, balancesPage
<1>7. ASSUME OnQuotes, GetQuote \/ QuoteFails \/ Render PROVE Good
  <2>1. CASE GetQuote
    <3>1. making' \in [quote: Quotes \cup {None}, asked: BOOLEAN]
      BY <1>4, <2>1 DEF GetQuote, NoQuote
    <3>2. overlap' \in [shown: BOOLEAN, making: BOOLEAN]
      BY <1>1, <2>1 DEF GetQuote, QuotesTypeOK
    <3>3. QuotesTypeOK'
      BY <1>1, <2>1, <3>1, <3>2 DEF GetQuote, QuotesTypeOK
    <3> QED
      BY <1>6, <1>7, <2>1, <3>3 DEF GetQuote, api
  <2>2. CASE QuoteFails \/ Render
    <3>1. QuotesTypeOK'
      BY <1>1, <1>4, <2>2 DEF QuoteFails, Render, QuotesTypeOK
    <3> QED
      BY <1>6, <1>7, <2>2, <3>1 DEF QuoteFails, Render, api
  <2> QED
    BY <1>7, <2>1, <2>2
<1>8. ASSUME OnQuotes, QuoteArrives PROVE Good
  <2>1. QuotesTypeOK'
    BY <1>1, <1>4, <1>8 DEF QuoteArrives, QuotesTypeOK
  <2> QED
    BY <1>6, <1>8, <2>1 DEF QuoteArrives, api
<1>9. ASSUME OnQuotes, Execute PROVE Good
  <2>1. QuotesTypeOK'
    BY <1>1, <1>9 DEF Execute, CanExecute, Click, QuotesTypeOK, AtApi
  <2>2. paying'.at # "none"
    BY <1>9 DEF Execute
  <2> QED
    BY <1>6, <1>9, <2>1, <2>2 DEF Execute, api
<1>10. ASSUME OnQuotes, AnswerLost PROVE Good
  <2>1. QuotesTypeOK'
    BY <1>1, <1>3, <1>10 DEF AnswerLost, QuotesTypeOK, Answers
  <2>2. paying'.at # "none"
    BY <1>1, <1>10 DEF AnswerLost, QuotesTypeOK
  <2> QED
    BY <1>6, <1>10, <2>1, <2>2 DEF AnswerLost, api
<1>11. ASSUME OnQuotes, TradeArrives PROVE Good
  <2>1. page' \in {page, [page EXCEPT !.trade = paying.quote, !.status = "EXECUTED"],
                    [page EXCEPT !.status = "EXECUTED"], [page EXCEPT !.status = "EXPIRED"]}
    BY <1>11 DEF TradeArrives, Outcome
  <2>2. /\ page' \in [quote: Quotes \cup {None}, key: Quotes \cup {None},
                      trade: Quotes \cup {None},
                      status: {"ACTIVE", "EXPIRED", "EXECUTED"}]
        /\ page'.quote = page.quote /\ page'.key = page.key
    <3>1. /\ page \in [quote: Quotes \cup {None}, key: Quotes \cup {None},
                      trade: Quotes \cup {None},
                      status: {"ACTIVE", "EXPIRED", "EXECUTED"}]
          /\ paying.quote \in Quotes \cup {None}
      BY <1>1 DEF QuotesTypeOK
    <3> QED
      BY <2>1, <3>1
  <2>3. QuotesTypeOK'
    BY <1>1, <1>4, <1>11, <2>2 DEF TradeArrives, QuotesTypeOK
  <2> QED
    BY <1>6, <1>11, <2>3 DEF TradeArrives, api
<1>12. ASSUME OnQuotes, CountDown \/ NewQuote \/ Swap PROVE Good
  <2>1. CASE CountDown
    BY <1>1, <1>6, <1>12, <2>1 DEF CountDown, QuotesTypeOK, api
  <2>2. CASE NewQuote
    BY <1>1, <1>6, <1>12, <2>2 DEF NewQuote, Reset, QuotesTypeOK, api
  <2>3. CASE Swap
    <3>1. overlap' \in [shown: BOOLEAN, making: BOOLEAN]
      BY <1>1, <2>3 DEF Swap, QuotesTypeOK
    <3>2. QuotesTypeOK'
      BY <1>1, <2>3, <3>1 DEF Swap, Reset, QuotesTypeOK
    <3> QED
      BY <1>6, <1>12, <2>3, <3>2 DEF Swap, api
  <2> QED
    BY <1>12, <2>1, <2>2, <2>3
<1>13. ASSUME OnQuotes, NEW q \in Quotes, Issue(q) PROVE Good
  <2>1. QuotesTypeOK'
    BY <1>1, <1>13 DEF Issue, QuotesTypeOK
  <2> QED
    BY <1>1, <1>13, <2>1
       DEF Issue, ApiIssue, Life!Issue, ShapeOK, BalancesTypeOK, balancesPage
<1>14. ASSUME NEW a, a.quote \in Quotes, a.key \in Quotes,
              ApiHold(a) \/ ApiSettle(a) \/ \E answer \in Answers : ApiAnswer(a, answer)
       PROVE  /\ row' \in [Quotes -> {"ABSENT", "ACTIVE", "EXECUTED"}]
              /\ lapsed' \subseteq Quotes
              /\ trades' \subseteq [quote: Quotes, key: Quotes]
  BY <1>1, <1>14
     DEF ApiHold, ApiSettle, ApiAnswer, Life!Hold, Life!Settle, Life!Release
<1>15. ASSUME OnQuotes, Pay PROVE Good
  <2>1. paying.at \in AtApi /\ \E at \in AtApi \cup Answers : paying' = [paying EXCEPT !.at = at]
    BY <1>15 DEF Pay, ApiHold, ApiSettle, ApiAnswer, AtApi, Answers
  <2>2. QuotesTypeOK'
    BY <1>1, <1>15, <2>1 DEF Pay, QuotesTypeOK
  <2>3. paying'.at # "none" /\ paying' # NoPayment
    BY <1>1, <2>1 DEF QuotesTypeOK, AtApi, Answers, NoPayment
  <2>4. paying.quote \in Quotes /\ paying.key \in Quotes
    BY <1>1, <1>2, <2>1 DEF AtApi
  <2>5. /\ row' \in [Quotes -> {"ABSENT", "ACTIVE", "EXECUTED"}]
        /\ lapsed' \subseteq Quotes
        /\ trades' \subseteq [quote: Quotes, key: Quotes]
    BY <1>14, <1>15, <2>4 DEF Pay
  <2> QED
    BY <1>1, <1>15, <2>2, <2>3, <2>5 DEF ShapeOK, BalancesTypeOK, balancesPage
<1>16. ASSUME NEW a \in abandoned, PayAbandoned(a), UNCHANGED <<balancesPage, tab>>
       PROVE  Good
  <2>1. a \in [quote: Quotes, key: Quotes, at: AtApi]
    BY <1>1 DEF QuotesTypeOK
  <2>2. abandoned' \subseteq [quote: Quotes, key: Quotes, at: AtApi]
    BY <1>1, <1>16, <2>1 DEF PayAbandoned, QuotesTypeOK, AtApi
  <2>3. QuotesTypeOK'
    BY <1>1, <1>16, <2>2 DEF PayAbandoned, QuotesTypeOK
  <2>4. /\ row' \in [Quotes -> {"ABSENT", "ACTIVE", "EXECUTED"}]
        /\ lapsed' \subseteq Quotes
        /\ trades' \subseteq [quote: Quotes, key: Quotes]
    BY <1>14, <1>16, <2>1 DEF PayAbandoned
  <2> QED
    BY <1>1, <1>16, <2>3, <2>4 DEF PayAbandoned, ShapeOK, BalancesTypeOK, balancesPage
<1>17. ASSUME BalancesTypeOK', UNCHANGED <<quotesPage, row, lapsed, trades, tab>> PROVE Good
  BY <1>1, <1>17 DEF ShapeOK, QuotesTypeOK, quotesPage
<1>18. ASSUME OnBalances, Refresh \/ Deposit \/ Credit \/ DepositFails PROVE Good
  <2>1. crediting' \in {crediting, TRUE, FALSE} /\ orphans' \in {orphans, Orphaned}
    BY <1>18 DEF Refresh, Deposit, Credit, DepositFails, balancesPage
  <2>2. \/ asked' = asked
        \/ asked < MaxDeposits /\ asked' = asked + 1
    BY <1>18 DEF Refresh, Deposit, Credit, DepositFails, balancesPage
  <2>3. crediting' \in BOOLEAN
    BY <1>1, <2>1 DEF BalancesTypeOK
  <2>4. orphans' \in Nat /\ asked' \in 0 .. MaxDeposits
    BY <1>1, <2>1, <2>2, OrphanedIs, MaxDepositsAssumption DEF BalancesTypeOK
  <2>5. BalancesTypeOK'
    BY <2>3, <2>4 DEF BalancesTypeOK
  <2> QED
    BY <1>17, <1>18, <2>5 DEF Refresh, Deposit, Credit, DepositFails, ApiDeposit, api
<1>19. ASSUME CreditOrphan, UNCHANGED <<quotesPage, tab>> PROVE Good
  <2>1. BalancesTypeOK'
    BY <1>1, <1>19 DEF CreditOrphan, BalancesTypeOK
  <2> QED
    BY <1>17, <1>19, <2>1 DEF CreditOrphan, ApiDeposit, api
<1>20. ASSUME NEW q \in Quotes, ApiLapse(q), UNCHANGED <<quotesPage, balancesPage, tab>>
       PROVE  Good
  BY <1>1, <1>20
     DEF ApiLapse, Life!Lapse, ShapeOK, QuotesTypeOK, BalancesTypeOK, quotesPage, balancesPage
<1>21. ASSUME UNCHANGED <<api, quotesPage, balancesPage, tab>> PROVE Good
  <2>1. BalancesTypeOK'
    BY <1>1, <1>21 DEF balancesPage, BalancesTypeOK
  <2> QED
    BY <1>17, <1>21, <2>1 DEF api
<1> HIDE DEF Good
<1>22. ASSUME OnQuotes, OnQuotesPage PROVE Good
  <2>1. ASSUME NEW s \in Slots, BalanceStep(s) PROVE Good
    BY <1>21, <1>22, <2>1 DEF BalanceStep
  <2> QED
    BY <1>7, <1>8, <1>9, <1>10, <1>11, <1>12, <1>13, <1>15, <1>22, <2>1 DEF OnQuotesPage
<1>23. ASSUME OnBalances, OnBalancesPage PROVE Good
  <2>1. ASSUME NEW s \in {OnMount, Posted}, BalancesStep(s) PROVE Good
    BY <1>21, <1>23, <2>1 DEF BalancesStep
  <2> QED
    BY <1>18, <1>23, <2>1 DEF OnBalancesPage
<1>24. Good
  BY <1>5, <1>16, <1>19, <1>20, <1>21, <1>22, <1>23 DEF Next, Background, vars
<1> QED
  BY <1>24 DEF Good

LEMMA Shapes ==
    ASSUME ShapeOK
    PROVE  /\ abandoned \subseteq [quote: Quotes, key: Quotes, at: AtApi]
           /\ trades \subseteq [quote: Quotes, key: Quotes]
           /\ row \in [Quotes -> {"ABSENT", "ACTIVE", "EXECUTED"}]
           /\ paying \in [quote: Quotes \cup {None}, key: Quotes \cup {None},
                          at: {"none"} \cup AtApi \cup Answers]
           /\ (paying = NoPayment) <=> (paying.at = "none")
BY DEF ShapeOK, QuotesTypeOK

\* What an attempt at the API is about.
LEMMA Attempted ==
    ASSUME IInv
    PROVE  /\ \A a \in abandoned : a.quote \in Quotes /\ a.key \in Quotes /\ a.at \in AtApi
           /\ paying.at # "none" => paying.quote \in Quotes /\ paying.key \in Quotes
           /\ \A t \in trades : t.quote \in Quotes /\ t.key \in Quotes
BY Shapes DEF IInv, PairsOK, PairOK, Pairs, Attempts

LEMMA HeldIs ==
    ASSUME AttemptsOK
    PROVE  \A q : q \in held <=> \E a \in abandoned \cup {paying} : a.at = "held" /\ a.quote = q
BY DEF AttemptsOK

\* A quote is held by one attempt.
LEMMA AttemptsStep == ASSUME IInv, [Next]_vars PROVE AttemptsOK'
<1> DEFINE Good == AttemptsOK'
           Kept == UNCHANGED <<held, row, trades>>
           HeldBy(q) == \E a \in abandoned \cup {paying} : a.at = "held" /\ a.quote = q
<1>1. ShapeOK /\ AttemptsOK
  BY DEF IInv
<1>2. /\ \A q : q \in held <=> HeldBy(q)
      /\ \A a, b \in abandoned :
            a.at = "held" /\ b.at = "held" /\ a.quote = b.quote => a = b
      /\ paying.at = "held" =>
            \A a \in abandoned : a.at = "held" => a.quote # paying.quote
      /\ \A q \in held : row[q] = "ACTIVE"
      /\ \A t \in trades : row[t.quote] = "EXECUTED"
  BY <1>1, HeldIs DEF AttemptsOK
<1>3. /\ \A a \in abandoned : a.quote \in Quotes /\ a.key \in Quotes /\ a.at \in AtApi
      /\ paying.at # "none" => paying.quote \in Quotes /\ paying.key \in Quotes
      /\ \A t \in trades : t.quote \in Quotes /\ t.key \in Quotes
  BY Attempted
<1>4. ASSUME \A q : q \in held' <=> HeldBy(q)',
             \A a, b \in abandoned' :
                a.at = "held" /\ b.at = "held" /\ a.quote = b.quote => a = b,
             paying'.at = "held" =>
                \A a \in abandoned' : a.at = "held" => a.quote # paying'.quote,
             \A q \in held' : row'[q] = "ACTIVE",
             \A t \in trades' : row'[t.quote] = "EXECUTED"
      PROVE  Good
  <2>1. held' = {a.quote : a \in {b \in abandoned' \cup {paying'} : b.at = "held"}}
    BY <1>4
  <2> QED
    BY <1>4, <2>1 DEF AttemptsOK
<1> HIDE DEF Good
<1>5. ASSUME Kept, abandoned' = Abandoned, paying'.at # "held" PROVE Good
  <2>1. \A a : a \in abandoned' /\ a.at = "held" <=>
               a \in abandoned \cup {paying} /\ a.at = "held"
    BY <1>5 DEF Abandoned, AtApi
  <2> QED
    BY <1>2, <1>4, <1>5, <2>1
<1>6. ASSUME Kept, UNCHANGED abandoned,
             (paying.at # "held" /\ paying'.at # "held") \/ UNCHANGED paying
      PROVE  Good
  BY <1>2, <1>4, <1>6
<1>7. ASSUME NEW q \in Quotes, Issue(q) PROVE Good
  <2>1. /\ UNCHANGED <<held, trades, abandoned, paying>>
        /\ row[q] = "ABSENT" /\ row' = [row EXCEPT ![q] = "ACTIVE"]
    BY <1>7 DEF Issue, ApiIssue, Life!Issue
  <2>2. \A p \in Quotes : row[p] \in {"ACTIVE", "EXECUTED"} => row'[p] = row[p]
    BY <1>1, <2>1, Shapes
  <2>3. \A p \in held : p \in Quotes
    BY <1>2, <1>3
  <2> QED
    BY <1>2, <1>3, <1>4, <2>1, <2>2, <2>3
<1>8. ASSUME Pay PROVE Good
  <2>1. CASE ApiHold(paying) /\ paying' = [paying EXCEPT !.at = "held"]
    <3>1. /\ held' = held \cup {paying.quote} /\ paying.quote \notin held
          /\ row[paying.quote] = "ACTIVE" /\ paying.at = "sent"
          /\ UNCHANGED <<row, trades, abandoned>>
      BY <1>8, <2>1 DEF Pay, ApiHold, Life!Hold
    <3>2. paying'.at = "held" /\ paying'.quote = paying.quote
      BY <1>1, <2>1, Shapes
    <3> QED
      BY <1>2, <1>4, <3>1, <3>2
  <2>2. CASE ApiSettle(paying) /\ paying' = [paying EXCEPT !.at = "trade"]
    <3> DEFINE t == [quote |-> paying.quote, key |-> paying.key]
    <3>1. /\ held' = held \ {paying.quote} /\ paying.at = "held"
          /\ row' = [row EXCEPT ![paying.quote] = "EXECUTED"]
          /\ trades' = trades \cup {t} /\ UNCHANGED abandoned
      BY <1>8, <2>2 DEF Pay, ApiSettle, Life!Settle
    <3>2. paying'.at = "trade" /\ paying.quote \in Quotes /\ t.quote = paying.quote
      BY <1>1, <1>3, <2>2, <3>1, Shapes
    <3>3. \A q \in Quotes : row'[q] = IF q = paying.quote THEN "EXECUTED" ELSE row[q]
      BY <1>1, <3>1, Shapes
    <3>4. \A q \in held : q \in Quotes
      BY <1>2, <1>3
    <3> HIDE DEF t
    <3> QED
      BY <1>2, <1>3, <1>4, <3>1, <3>2, <3>3, <3>4
  <2>3. CASE \E answer \in Answers :
               ApiAnswer(paying, answer) /\ paying' = [paying EXCEPT !.at = answer]
    <3>1. /\ held' = IF paying.at = "held" THEN held \ {paying.quote} ELSE held
          /\ UNCHANGED <<row, trades, abandoned>>
      BY <1>8, <2>3 DEF Pay, ApiAnswer, Life!Release
    <3>2. paying'.at \in Answers
      BY <1>1, <2>3, Shapes
    <3> QED
      BY <1>2, <1>4, <3>1, <3>2 DEF Answers
  <2> QED
    BY <1>8, <2>1, <2>2, <2>3 DEF Pay
<1>9. ASSUME NEW x \in abandoned, PayAbandoned(x) PROVE Good
  <2>1. CASE /\ ApiHold(x)
             /\ abandoned' = (abandoned \ {x}) \cup {[x EXCEPT !.at = "held"]}
    <3> DEFINE y == [x EXCEPT !.at = "held"]
    <3>1. /\ held' = held \cup {x.quote} /\ x.quote \notin held
          /\ row[x.quote] = "ACTIVE" /\ x.at = "sent"
          /\ UNCHANGED <<row, trades, paying>>
      BY <1>9, <2>1 DEF PayAbandoned, ApiHold, Life!Hold
    <3>2. y.at = "held" /\ y.quote = x.quote
      BY <1>1, Shapes
    <3>3. abandoned' = (abandoned \ {x}) \cup {y}
      BY <2>1
    <3> HIDE DEF y
    <3> QED
      BY <1>2, <1>4, <3>1, <3>2, <3>3
  <2>2. CASE ApiSettle(x) /\ abandoned' = abandoned \ {x}
    <3> DEFINE t == [quote |-> x.quote, key |-> x.key]
    <3>1. /\ held' = held \ {x.quote} /\ x.at = "held"
          /\ row' = [row EXCEPT ![x.quote] = "EXECUTED"]
          /\ trades' = trades \cup {t} /\ UNCHANGED paying
      BY <1>9, <2>2 DEF PayAbandoned, ApiSettle, Life!Settle
    <3>2. x.quote \in Quotes /\ t.quote = x.quote
      BY <1>3
    <3>3. \A q \in Quotes : row'[q] = IF q = x.quote THEN "EXECUTED" ELSE row[q]
      BY <1>1, <3>1, Shapes
    <3>4. \A q \in held : q \in Quotes
      BY <1>2, <1>3
    <3> HIDE DEF t
    <3> QED
      BY <1>2, <1>3, <1>4, <2>2, <3>1, <3>2, <3>3, <3>4
  <2>3. CASE \E answer \in Answers :
               ApiAnswer(x, answer) /\ abandoned' = abandoned \ {x}
    <3>1. /\ held' = IF x.at = "held" THEN held \ {x.quote} ELSE held
          /\ abandoned' = abandoned \ {x}
          /\ UNCHANGED <<row, trades, paying>>
      BY <1>9, <2>3 DEF PayAbandoned, ApiAnswer, Life!Release
    <3> QED
      BY <1>2, <1>4, <3>1
  <2> QED
    BY <1>9, <2>1, <2>2, <2>3 DEF PayAbandoned
<1>10. ASSUME Execute \/ AnswerLost \/ TradeArrives \/ \E t \in Tabs : SelectTab(t) PROVE Good
  <2>1. CASE Execute
    BY <1>6, <2>1 DEF Execute, CanExecute, NoPayment, api
  <2>2. CASE AnswerLost
    <3>1. paying'.at # "held"
      BY <1>1, <2>2, Shapes DEF AnswerLost
    <3> QED
      BY <1>5, <2>2, <3>1 DEF AnswerLost, api
  <2>3. CASE TradeArrives
    BY <1>6, <2>3 DEF TradeArrives, NoPayment, Answers, api
  <2>4. CASE \E t \in Tabs : SelectTab(t)
    BY <1>5, <2>4 DEF SelectTab, LeaveQuotes, NoPayment, api
  <2> QED
    BY <1>10, <2>1, <2>2, <2>3, <2>4
<1>11. ASSUME \/ GetQuote \/ QuoteArrives \/ QuoteFails \/ Render
              \/ CountDown \/ NewQuote \/ Swap \/ \E s \in Slots : BalanceStep(s)
       PROVE  Good
  BY <1>6, <1>11
     DEF GetQuote, QuoteArrives, QuoteFails, Render, CountDown, NewQuote, Swap,
         BalanceStep, quotesPage, api
<1>12. ASSUME UNCHANGED quotesPage,
              \/ OnBalancesPage \/ CreditOrphan \/ UNCHANGED api
              \/ \E q \in Quotes : ApiLapse(q)
       PROVE  Good
  BY <1>6, <1>12
     DEF OnBalancesPage, Refresh, Deposit, Credit, DepositFails, BalancesStep,
         CreditOrphan, ApiDeposit, ApiLapse, Life!Lapse, quotesPage, api
<1>13. Good
  BY <1>7, <1>8, <1>9, <1>10, <1>11, <1>12 DEF Next, OnQuotesPage, Background, vars
<1> QED
  BY <1>13 DEF Good

\* Neither the issue nor the execution of a quote is undone.
LEMMA RowStep ==
    ASSUME IInv, [Next]_vars
    PROVE  \A q \in Quotes : /\ row[q] = "EXECUTED" => row'[q] = "EXECUTED"
                             /\ row[q] # "ABSENT" => row'[q] # "ABSENT"
<1> DEFINE Good == \A q \in Quotes : /\ row[q] = "EXECUTED" => row'[q] = "EXECUTED"
                                     /\ row[q] # "ABSENT" => row'[q] # "ABSENT"
<1>1. row \in [Quotes -> {"ABSENT", "ACTIVE", "EXECUTED"}]
  BY Shapes DEF IInv
<1>2. ASSUME UNCHANGED row PROVE Good
  BY <1>2
<1>3. ASSUME NEW q \in Quotes, Issue(q) PROVE Good
  BY <1>1, <1>3 DEF Issue, ApiIssue, Life!Issue
<1>4. ASSUME NEW a, ApiHold(a) \/ ApiSettle(a) \/ \E answer \in Answers : ApiAnswer(a, answer)
      PROVE  Good
  BY <1>1, <1>4 DEF ApiHold, ApiSettle, ApiAnswer, Life!Hold, Life!Settle, Life!Release
<1> HIDE DEF Good
<1>5. ASSUME Pay \/ \E a \in abandoned : PayAbandoned(a) PROVE Good
  BY <1>4, <1>5 DEF Pay, PayAbandoned
<1>6. ASSUME \/ GetQuote \/ QuoteArrives \/ QuoteFails \/ Render \/ Execute
             \/ AnswerLost \/ TradeArrives \/ CountDown \/ NewQuote \/ Swap
             \/ \E s \in Slots : BalanceStep(s)
      PROVE  Good
  BY <1>2, <1>6
     DEF GetQuote, QuoteArrives, QuoteFails, Render, Execute, AnswerLost, TradeArrives,
         CountDown, NewQuote, Swap, BalanceStep, api
<1>7. ASSUME \/ OnBalancesPage \/ CreditOrphan \/ UNCHANGED api
             \/ \E q \in Quotes : ApiLapse(q)
             \/ \E t \in Tabs : SelectTab(t)
      PROVE  Good
  BY <1>2, <1>7
     DEF OnBalancesPage, Refresh, Deposit, Credit, DepositFails, BalancesStep,
         CreditOrphan, ApiDeposit, ApiLapse, Life!Lapse, SelectTab, api
<1>8. Good
  BY <1>3, <1>5, <1>6, <1>7 DEF Next, OnQuotesPage, Background, vars
<1> QED
  BY <1>8 DEF Good

LEMMA PairFrame ==
    ASSUME \A q \in Quotes : row[q] # "ABSENT" => row'[q] # "ABSENT",
           \/ making'.quote \in {making.quote, None}
           \/ row[making'.quote] = "ABSENT",
           \/ page'.key = making.quote /\ page'.quote = making.quote
           \/ page'.key = None /\ page'.quote = None
           \/ /\ page'.key = page.key /\ page'.quote = page.quote
              /\ overlap.shown => overlap'.shown
    PROVE  \A q, k : PairOK(q, k) => PairOK(q, k)'
BY DEF PairOK, Quotes, None

\* A step after which no other quote and key are together.
Familiar(p) == \E x \in Pairs : x.quote = p.quote /\ x.key = p.key

LEMMA FamiliarAttempts ==
    ASSUME IInv
    PROVE  /\ \A p \in Pairs : Familiar(p)
           /\ \A p \in Abandoned : Familiar(p)
           /\ paying.at # "none" => Familiar(paying)
BY Shapes DEF IInv, Familiar, Pairs, Attempts, Abandoned, AtApi, NoPayment

LEMMA PairsStep == ASSUME IInv, [Next]_vars PROVE PairsOK'
<1> DEFINE Good == PairsOK'
           Same == UNCHANGED <<page, making, overlap>>
           Env == \/ Same
                  \/ /\ \/ making'.quote \in {making.quote, None}
                        \/ row[making'.quote] = "ABSENT"
                     /\ \/ page'.key = making.quote /\ page'.quote = making.quote
                        \/ page'.key = None /\ page'.quote = None
                        \/ /\ page'.key = page.key /\ page'.quote = page.quote
                           /\ overlap.shown => overlap'.shown
           NothingNew == \A p \in Pairs' : Familiar(p)
<1>1. /\ abandoned \subseteq [quote: Quotes, key: Quotes, at: AtApi]
      /\ paying \in [quote: Quotes \cup {None}, key: Quotes \cup {None},
                     at: {"none"} \cup AtApi \cup Answers]
      /\ (paying = NoPayment) <=> (paying.at = "none")
      /\ page \in [quote: Quotes \cup {None}, key: Quotes \cup {None},
                   trade: Quotes \cup {None},
                   status: {"ACTIVE", "EXPIRED", "EXECUTED"}]
      /\ making \in [quote: Quotes \cup {None}, asked: BOOLEAN]
  BY DEF IInv, ShapeOK, QuotesTypeOK
<1>2. /\ \A p \in Pairs : Familiar(p)
      /\ \A p \in Abandoned : Familiar(p)
      /\ paying.at # "none" => Familiar(paying)
  BY FamiliarAttempts
<1>3. ASSUME Env, NothingNew PROVE Good
  <2>1. \A q, k : PairOK(q, k) => PairOK(q, k)'
    BY <1>3, RowStep, PairFrame
  <2>2. \A p \in Pairs' : PairOK(p.quote, p.key)
    BY <1>3 DEF IInv, PairsOK, Familiar
  <2>3. \A p \in Pairs' : PairOK(p.quote, p.key)'
    BY <2>1, <2>2
  <2> QED
    BY <2>3 DEF PairsOK
<1> HIDE DEF Good
<1>4. ASSUME UNCHANGED trades,
             abandoned' = abandoned \/ abandoned' = Abandoned,
             \/ paying' \in {paying, NoPayment}
             \/ paying.at # "none" /\ paying'.quote = paying.quote /\ paying'.key = paying.key
      PROVE  NothingNew
  BY <1>1, <1>2, <1>4 DEF Pairs, Attempts, Familiar
<1>5. ASSUME NEW a \in abandoned \cup {paying}, a.at \in AtApi,
             ApiHold(a) \/ ApiSettle(a) \/ \E answer \in Answers : ApiAnswer(a, answer)
      PROVE  Familiar(a) /\ \A t \in trades' : Familiar(t)
  <2>1. a.at # "none"
    BY <1>5 DEF AtApi
  <2>2. Familiar(a)
    BY <1>1, <1>2, <1>5, <2>1 DEF Pairs, Attempts
  <2>3. trades' = trades \/ trades' = trades \cup {[quote |-> a.quote, key |-> a.key]}
    BY <1>5 DEF ApiHold, ApiSettle, ApiAnswer
  <2> QED
    BY <1>2, <2>2, <2>3 DEF Familiar, Pairs
<1>6. ASSUME Pay PROVE Good
  <2>1. /\ paying.at \in AtApi
        /\ ApiHold(paying) \/ ApiSettle(paying) \/ \E answer \in Answers : ApiAnswer(paying, answer)
        /\ UNCHANGED abandoned /\ Same
    BY <1>6 DEF Pay, ApiHold, ApiSettle, ApiAnswer, AtApi
  <2>2. paying'.quote = paying.quote /\ paying'.key = paying.key
    BY <1>1, <1>6 DEF Pay
  <2>3. Familiar(paying) /\ \A t \in trades' : Familiar(t)
    BY <1>5, <2>1
  <2>4. NothingNew
    BY <1>2, <2>1, <2>2, <2>3 DEF Pairs, Attempts, Familiar
  <2> QED
    BY <1>3, <2>1, <2>4
<1>7. ASSUME NEW a \in abandoned, PayAbandoned(a) PROVE Good
  <2>1. /\ a.at \in AtApi
        /\ ApiHold(a) \/ ApiSettle(a) \/ \E answer \in Answers : ApiAnswer(a, answer)
        /\ UNCHANGED paying /\ Same
    BY <1>7 DEF PayAbandoned, ApiHold, ApiSettle, ApiAnswer, AtApi
  <2>2. abandoned' \subseteq abandoned \cup {[a EXCEPT !.at = "held"]}
    BY <1>7 DEF PayAbandoned
  <2>3. [a EXCEPT !.at = "held"].quote = a.quote /\ [a EXCEPT !.at = "held"].key = a.key
    BY <1>1
  <2>4. Familiar(a) /\ \A t \in trades' : Familiar(t)
    BY <1>5, <2>1
  <2>5. NothingNew
    BY <1>2, <2>1, <2>2, <2>3, <2>4 DEF Pairs, Attempts, Familiar
  <2> QED
    BY <1>3, <2>1, <2>5
<1>8. ASSUME Execute PROVE Good
  <2>0. PICK q, k : q = Click.quote /\ k = Click.key
    OBVIOUS
  <2>1. /\ paying' = [quote |-> q, key |-> k, at |-> "sent"]
        /\ k = page.key /\ q = (IF drawn # None THEN drawn ELSE page.quote)
        /\ q # None /\ k # None
        /\ overlap'.shown = (overlap.shown \/ drawn # None)
        /\ UNCHANGED <<row, page, making, abandoned, trades>>
    BY <1>8, <2>0 DEF Execute, CanExecute, Click, api
  <2>2. PairOK(q, k)'
    <3>1. q \in Quotes /\ k \in Quotes
      BY <1>1, <2>1 DEF IInv, ShapeOK, QuotesTypeOK
    <3>2. row[q] # "ABSENT" /\ row[k] # "ABSENT" /\ k # making.quote /\ q # making.quote
      BY <2>1 DEF IInv, PageOK
    <3>3. (q # k => overlap'.shown) /\ (q = page.quote => k = q)
      BY <2>1 DEF IInv, PageOK
    <3> QED
      BY <2>1, <3>1, <3>2, <3>3 DEF PairOK
  <2>3. \A p \in Pairs' : p \in Pairs \/ p = paying'
    BY <2>1 DEF Pairs, Attempts
  <2>4. \A x, y : PairOK(x, y) => PairOK(x, y)'
    BY <2>1, PairFrame
  <2> QED
    BY <2>1, <2>2, <2>3, <2>4 DEF IInv, PairsOK, Good
<1>9. ASSUME \/ GetQuote \/ QuoteArrives \/ QuoteFails \/ Render \/ TradeArrives \/ CountDown
             \/ AnswerLost \/ \E q \in Quotes : Issue(q)
      PROVE  Good
  <2>1. NothingNew
    <3>1. CASE GetQuote \/ QuoteArrives \/ QuoteFails \/ Render \/ CountDown
      BY <1>4, <3>1 DEF GetQuote, QuoteArrives, QuoteFails, Render, CountDown, api
    <3>2. CASE TradeArrives
      BY <1>4, <3>2 DEF TradeArrives, api
    <3>3. CASE AnswerLost
      BY <1>1, <1>4, <3>3 DEF AnswerLost, AtApi, api
    <3>4. CASE \E q \in Quotes : Issue(q)
      BY <1>4, <3>4 DEF Issue, ApiIssue
    <3> QED
      BY <1>9, <3>1, <3>2, <3>3, <3>4
  <2>2. CASE GetQuote \/ QuoteFails
    <3>1. overlap \in [shown: BOOLEAN, making: BOOLEAN]
      BY DEF IInv, ShapeOK, QuotesTypeOK
    <3>2. /\ overlap'.shown = overlap.shown /\ page'.key = page.key
          /\ page'.quote = page.quote /\ making'.quote = None
      BY <1>1, <2>2, <3>1 DEF GetQuote, QuoteFails, NoQuote
    <3> QED
      BY <1>3, <2>1, <3>2
  <2>3. CASE QuoteArrives
    BY <1>1, <1>3, <2>1, <2>3 DEF QuoteArrives, NoQuote
  <2>4. CASE Render \/ AnswerLost
    BY <1>3, <2>1, <2>4 DEF Render, AnswerLost
  <2>5. CASE TradeArrives \/ CountDown
    BY <1>1, <1>3, <2>1, <2>5 DEF TradeArrives, Outcome, CountDown
  <2>6. CASE \E q \in Quotes : Issue(q)
    BY <1>1, <1>3, <2>1, <2>6 DEF Issue, ApiIssue, Life!Issue
  <2> QED
    BY <1>9, <2>2, <2>3, <2>4, <2>5, <2>6
<1>10. ASSUME NewQuote \/ Swap \/ \E t \in Tabs : SelectTab(t) PROVE Good
  <2>1. page'.key = None /\ page'.quote = None /\ making'.quote \in {making.quote, None}
    <3>1. CASE NewQuote
      BY <1>1, <3>1 DEF NewQuote, Reset
    <3>2. CASE Swap
      BY <1>1, <3>2 DEF Swap, Reset, NoQuote
    <3>3. CASE \E t \in Tabs : SelectTab(t)
      BY <3>3 DEF SelectTab, LeaveQuotes, NoPage, NoQuote
    <3> QED
      BY <1>10, <3>1, <3>2, <3>3
  <2>2. NothingNew
    BY <1>4, <1>10 DEF NewQuote, Swap, SelectTab, LeaveQuotes, api
  <2> QED
    BY <1>3, <2>1, <2>2
<1>11. ASSUME UNCHANGED quotesPage,
              \/ OnBalancesPage \/ CreditOrphan \/ UNCHANGED api
              \/ \E q \in Quotes : ApiLapse(q)
       PROVE  Good
  <2>1. UNCHANGED trades
    BY <1>11 DEF OnBalancesPage, Refresh, Deposit, Credit, DepositFails, BalancesStep,
                 CreditOrphan, ApiDeposit, ApiLapse, api
  <2> QED
    BY <1>3, <1>4, <1>11, <2>1 DEF quotesPage
<1>12. ASSUME NEW s \in Slots, BalanceStep(s) PROVE Good
  BY <1>11, <1>12 DEF BalanceStep
<1>13. Good
  BY <1>6, <1>7, <1>8, <1>9, <1>10, <1>11, <1>12 DEF Next, OnQuotesPage, Background, vars
<1> QED
  BY <1>13 DEF Good

LEMMA PageTypes ==
    ASSUME ShapeOK
    PROVE  /\ page \in [quote: Quotes \cup {None}, key: Quotes \cup {None},
                        trade: Quotes \cup {None},
                        status: {"ACTIVE", "EXPIRED", "EXECUTED"}]
           /\ drawn \in Quotes \cup {None}
           /\ making \in [quote: Quotes \cup {None}, asked: BOOLEAN]
           /\ overlap \in [shown: BOOLEAN, making: BOOLEAN]
BY DEF ShapeOK, QuotesTypeOK

\* The key is that of the quote, and a trade on the page was made.
LEMMA PageStep == ASSUME IInv, [Next]_vars PROVE PageOK'
<1> DEFINE Good == PageOK'
           SamePage == page'.quote = page.quote /\ page'.key = page.key
           SameMaking == making'.quote = None \/ making' = making
           PageFrame == SamePage \/ (page'.key = None /\ page'.quote = None)
           TradeFrame == \/ page'.trade = page.trade
                         \/ page'.trade = None
                         \/ row'[page'.trade] = "EXECUTED"
           DrawnFrame == drawn' = drawn \/ drawn' = None
<1>1. /\ page \in [quote: Quotes \cup {None}, key: Quotes \cup {None},
                   trade: Quotes \cup {None},
                   status: {"ACTIVE", "EXPIRED", "EXECUTED"}]
      /\ drawn \in Quotes \cup {None}
      /\ making \in [quote: Quotes \cup {None}, asked: BOOLEAN]
  BY PageTypes DEF IInv
<1>2. /\ page.key = page.quote
      /\ page.quote # None => row[page.quote] # "ABSENT" /\ page.quote # making.quote
      /\ drawn # None => row[drawn] # "ABSENT" /\ drawn # making.quote
      /\ making.quote # None => row[making.quote] # "ABSENT" /\ making.asked
      /\ page.trade # None => row[page.trade] = "EXECUTED"
  BY DEF IInv, PageOK
<1>3. \A q \in Quotes : /\ row[q] = "EXECUTED" => row'[q] = "EXECUTED"
                        /\ row[q] # "ABSENT" => row'[q] # "ABSENT"
  BY RowStep
<1>4. ASSUME PageFrame, TradeFrame, SameMaking, DrawnFrame PROVE Good
  <2>1. /\ page'.key = page'.quote
        /\ page'.quote # None => row'[page'.quote] # "ABSENT" /\ page'.quote # making'.quote
        /\ drawn' # None => row'[drawn'] # "ABSENT" /\ drawn' # making'.quote
    BY <1>1, <1>2, <1>3, <1>4
  <2>2. making'.quote # None => row'[making'.quote] # "ABSENT" /\ making'.asked
    BY <1>1, <1>2, <1>3, <1>4
  <2>3. page'.trade # None => row'[page'.trade] = "EXECUTED"
    BY <1>1, <1>2, <1>3, <1>4
  <2> QED
    BY <2>1, <2>2, <2>3 DEF PageOK
<1> HIDE DEF Good
<1>5. ASSUME GetQuote \/ QuoteFails PROVE Good
  <2>1. PageFrame /\ TradeFrame
    BY <1>1, <1>5 DEF GetQuote, QuoteFails
  <2>2. SameMaking /\ DrawnFrame
    BY <1>5 DEF GetQuote, QuoteFails, NoQuote
  <2> QED
    BY <1>4, <2>1, <2>2
<1>6. ASSUME NEW q \in Quotes, Issue(q) PROVE Good
  <2>1. /\ row[q] = "ABSENT" /\ row'[q] # "ABSENT" /\ making.asked
        /\ making' = [making EXCEPT !.quote = q]
        /\ UNCHANGED <<page, drawn>>
    <3>1. row \in [Quotes -> {"ABSENT", "ACTIVE", "EXECUTED"}]
      BY Shapes DEF IInv
    <3> QED
      BY <1>6, <3>1 DEF Issue, ApiIssue, Life!Issue
  <2>2. making'.quote = q /\ making'.asked
    BY <1>1, <2>1
  <2>3. \A p \in Quotes : p # None
    BY DEF Quotes, None
  <2>4. /\ page.quote # None => page.quote \in Quotes /\ page.quote # q
        /\ page.trade # None => page.trade \in Quotes
        /\ drawn # None => drawn \in Quotes /\ drawn # q
    BY <1>1, <1>2, <2>1
  <2> QED
    BY <1>2, <1>3, <2>1, <2>2, <2>4 DEF Good, PageOK
<1>7. ASSUME QuoteArrives PROVE Good
  <2>1. /\ page'.quote = making.quote /\ page'.key = making.quote /\ page'.trade = page.trade
        /\ making.quote \in Quotes /\ making'.quote = None
        /\ drawn' \in {page.quote, None}
    BY <1>1, <1>7 DEF QuoteArrives, NoQuote
  <2> QED
    BY <1>1, <1>2, <1>3, <2>1 DEF Good, PageOK, None
<1>8. ASSUME Execute PROVE Good
  <2>1. PageFrame /\ TradeFrame /\ SameMaking /\ DrawnFrame
    BY <1>8 DEF Execute
  <2> QED
    BY <1>4, <2>1
<1>9. ASSUME TradeArrives PROVE Good
  <2>1. PageFrame /\ SameMaking /\ DrawnFrame /\ UNCHANGED row
    BY <1>1, <1>9 DEF TradeArrives, Outcome, api
  <2>2. page'.trade = page.trade \/ row[page'.trade] = "EXECUTED"
    BY <1>1, <1>9 DEF TradeArrives, Outcome, IInv, AnswerOK
  <2> QED
    BY <1>4, <2>1, <2>2
<1>10. ASSUME \/ Render \/ AnswerLost \/ CountDown \/ Pay
              \/ \E a \in abandoned : PayAbandoned(a)
       PROVE  Good
  <2>1. PageFrame /\ TradeFrame
    BY <1>1, <1>10 DEF Render, AnswerLost, CountDown, Pay, PayAbandoned
  <2>2. SameMaking /\ DrawnFrame
    BY <1>10 DEF Render, AnswerLost, CountDown, Pay, PayAbandoned
  <2> QED
    BY <1>4, <2>1, <2>2
<1>11. ASSUME NewQuote \/ Swap \/ \E t \in Tabs : SelectTab(t) PROVE Good
  <2>1. page' = Reset(page) \/ page' = NoPage
    BY <1>11 DEF NewQuote, Swap, SelectTab, LeaveQuotes
  <2>2. page'.key = None /\ page'.quote = None /\ page'.trade = None
    <3>1. NoPage.key = None /\ NoPage.quote = None /\ NoPage.trade = None
      BY DEF NoPage
    <3>2. /\ Reset(page).key = None /\ Reset(page).quote = None
          /\ Reset(page).trade = None
      BY <1>1 DEF Reset
    <3> QED
      BY <2>1, <3>1, <3>2
  <2>3. SameMaking
    BY <1>11 DEF NewQuote, Swap, SelectTab, LeaveQuotes, NoQuote
  <2>4. DrawnFrame
    BY <1>11 DEF NewQuote, Swap, SelectTab, LeaveQuotes
  <2> QED
    BY <1>4, <2>2, <2>3, <2>4
<1>12. ASSUME UNCHANGED quotesPage PROVE Good
  <2>1. PageFrame /\ TradeFrame /\ SameMaking /\ DrawnFrame
    BY <1>12 DEF quotesPage
  <2> QED
    BY <1>4, <2>1
<1>13. ASSUME NEW s \in Slots, BalanceStep(s) PROVE Good
  BY <1>12, <1>13 DEF BalanceStep
<1>14. Good
  BY <1>5, <1>6, <1>7, <1>8, <1>9, <1>10, <1>11, <1>12, <1>13
     DEF Next, OnQuotesPage, Background, vars
<1> QED
  BY <1>14 DEF Good

\* What the API has answered stays true until the answer arrives.
LEMMA AnswerStep == ASSUME IInv, [Next]_vars PROVE AnswerOK'
<1> DEFINE Good == AnswerOK'
<1>1. \A q \in Quotes : row[q] = "EXECUTED" => row'[q] = "EXECUTED"
  BY RowStep
<1>2. /\ paying.at \in AtApi \cup Answers => paying.quote \in Quotes
      /\ paying \in [quote: Quotes \cup {None}, key: Quotes \cup {None},
                     at: {"none"} \cup AtApi \cup Answers]
      /\ \A t \in trades : row[t.quote] = "EXECUTED"
      /\ row \in [Quotes -> {"ABSENT", "ACTIVE", "EXECUTED"}]
  BY Attempted, Shapes DEF IInv, AttemptsOK, AtApi, Answers
<1>3. ASSUME UNCHANGED paying, trades \subseteq trades' PROVE Good
  BY <1>1, <1>2, <1>3 DEF IInv, AnswerOK, Answers
<1>4. ASSUME paying'.at \notin {"trade", "409"} PROVE Good
  BY <1>4 DEF AnswerOK
<1> HIDE DEF Good
<1>5. ASSUME Pay PROVE Good
  <2>1. CASE ApiHold(paying) /\ paying' = [paying EXCEPT !.at = "held"]
    BY <1>2, <1>4, <2>1
  <2>2. CASE ApiSettle(paying) /\ paying' = [paying EXCEPT !.at = "trade"]
    <3>1. paying'.at = "trade" /\ paying'.quote = paying.quote /\ paying.quote \in Quotes
      BY <1>2, <2>2 DEF ApiSettle, AtApi
    <3>2. row'[paying.quote] = "EXECUTED"
      BY <1>2, <2>2, <3>1 DEF ApiSettle, Life!Settle
    <3> QED
      BY <3>1, <3>2 DEF Good, AnswerOK
  <2>3. CASE \E answer \in Answers :
               ApiAnswer(paying, answer) /\ paying' = [paying EXCEPT !.at = answer]
    <3>1. PICK answer \in Answers :
            ApiAnswer(paying, answer) /\ paying' = [paying EXCEPT !.at = answer]
      BY <2>3
    <3>2. /\ paying'.at = answer /\ paying'.quote = paying.quote /\ paying'.key = paying.key
          /\ UNCHANGED <<row, trades>>
      BY <1>2, <3>1 DEF ApiAnswer, Life!Release
    <3>3. answer = "trade" => row[paying.quote] = "EXECUTED"
      BY <1>2, <3>1 DEF ApiAnswer
    <3>4. answer = "409" => \/ row[paying.quote] = "EXECUTED"
                            \/ \E t \in trades : t.key = paying.key /\ t.quote # paying.quote
      BY <3>1 DEF ApiAnswer
    <3> QED
      BY <3>2, <3>3, <3>4 DEF Good, AnswerOK
  <2> QED
    BY <1>5, <2>1, <2>2, <2>3 DEF Pay
<1>6. ASSUME NEW a \in abandoned, PayAbandoned(a) PROVE Good
  BY <1>3, <1>6 DEF PayAbandoned, ApiHold, ApiSettle, ApiAnswer
<1>7. ASSUME Execute \/ AnswerLost \/ TradeArrives \/ \E t \in Tabs : SelectTab(t) PROVE Good
  <2>1. paying'.at \notin {"trade", "409"}
    BY <1>2, <1>7 DEF Execute, AnswerLost, TradeArrives, SelectTab, LeaveQuotes, NoPayment
  <2> QED
    BY <1>4, <2>1
<1>8. ASSUME \/ GetQuote \/ QuoteArrives \/ QuoteFails \/ Render \/ CountDown \/ NewQuote \/ Swap
             \/ \E q \in Quotes : Issue(q)
             \/ \E s \in Slots : BalanceStep(s)
      PROVE  Good
  BY <1>3, <1>8
     DEF GetQuote, QuoteArrives, QuoteFails, Render, CountDown, NewQuote, Swap, Issue,
         ApiIssue, BalanceStep, quotesPage, api
<1>9. ASSUME UNCHANGED quotesPage,
             \/ OnBalancesPage \/ CreditOrphan \/ UNCHANGED api
             \/ \E q \in Quotes : ApiLapse(q)
      PROVE  Good
  BY <1>3, <1>9
     DEF OnBalancesPage, Refresh, Deposit, Credit, DepositFails, BalancesStep,
         CreditOrphan, ApiDeposit, ApiLapse, quotesPage, api
<1>10. Good
  BY <1>5, <1>6, <1>7, <1>8, <1>9 DEF Next, OnQuotesPage, Background, vars
<1> QED
  BY <1>10 DEF Good

\* Without an overlap, what the page shows belongs to its quote.
LEMMA HonestStep == ASSUME IInv, [Next]_vars PROVE HonestOK' /\ HonestUnlessOverlapped'
<1> DEFINE Making == making # NoQuote /\ ~overlap.making =>
                        paying = NoPayment /\ page.trade = None
           Paying == page.quote # None /\ ~overlap.shown /\ paying # NoPayment =>
                        paying.quote = page.quote /\ paying.key = page.key
           Shown == page.quote # None /\ ~overlap.shown =>
                       /\ page.trade \in {None, page.quote}
                       /\ page.status = "EXECUTED" => row[page.quote] = "EXECUTED"
           Good == HonestOK' /\ HonestUnlessOverlapped'
<1>1. /\ page \in [quote: Quotes \cup {None}, key: Quotes \cup {None},
                   trade: Quotes \cup {None},
                   status: {"ACTIVE", "EXPIRED", "EXECUTED"}]
      /\ making \in [quote: Quotes \cup {None}, asked: BOOLEAN]
      /\ overlap \in [shown: BOOLEAN, making: BOOLEAN]
      /\ paying \in [quote: Quotes \cup {None}, key: Quotes \cup {None},
                     at: {"none"} \cup AtApi \cup Answers]
      /\ (paying = NoPayment) <=> (paying.at = "none")
  BY PageTypes, Shapes DEF IInv
<1>2. Making /\ Paying /\ Shown
  BY DEF IInv, HonestOK, HonestUnlessOverlapped
<1>3. \A q \in Quotes : row[q] = "EXECUTED" => row'[q] = "EXECUTED"
  BY RowStep
<1>4. ASSUME Making', Paying', Shown' PROVE Good
  BY <1>4 DEF HonestOK, HonestUnlessOverlapped
<1> HIDE DEF Good
<1>5. ASSUME UNCHANGED <<page, overlap>> PROVE Shown'
  BY <1>1, <1>2, <1>3, <1>5
<1>6. ASSUME UNCHANGED quotesPage PROVE Good
  <2>1. Making' /\ Paying'
    BY <1>2, <1>6 DEF quotesPage
  <2>2. Shown'
    BY <1>5, <1>6 DEF quotesPage
  <2> QED
    BY <1>4, <2>1, <2>2
<1>7. ASSUME GetQuote PROVE Good
  <2>1. /\ page'.quote = page.quote /\ page'.key = page.key /\ page'.trade = None
        /\ page'.status = page.status
        /\ (overlap.shown => overlap'.shown) /\ (~overlap'.making => paying = NoPayment)
        /\ UNCHANGED <<paying, row>>
    BY <1>1, <1>7 DEF GetQuote, NoQuote, api
  <2> QED
    BY <1>2, <1>4, <2>1
<1>8. ASSUME NEW q \in Quotes, Issue(q) PROVE Good
  <2>1. Making'
    <3>1. making # NoQuote
      BY <1>1, <1>8 DEF Issue, NoQuote
    <3> QED
      BY <1>2, <1>8, <3>1 DEF Issue
  <2>2. Paying' /\ Shown'
    BY <1>2, <1>5, <1>8 DEF Issue
  <2> QED
    BY <1>4, <2>1, <2>2
<1>9. ASSUME QuoteArrives PROVE Good
  <2>1. making # NoQuote /\ making' = NoQuote /\ UNCHANGED paying
    BY <1>9 DEF QuoteArrives, NoQuote
  <2>2. overlap'.shown \/ (paying = NoPayment /\ page.trade = None)
    BY <1>2, <1>9, <2>1 DEF QuoteArrives
  <2>3. page'.trade = page.trade /\ page'.status = "ACTIVE"
    BY <1>1, <1>9 DEF QuoteArrives
  <2> QED
    BY <1>4, <2>1, <2>2, <2>3
<1>10. ASSUME Render \/ QuoteFails PROVE Good
  <2>1. /\ making' \in {making, NoQuote} /\ UNCHANGED <<page, paying, row>>
        /\ overlap'.making = overlap.making \/ making' = NoQuote
        /\ overlap.shown => overlap'.shown
    BY <1>1, <1>10 DEF Render, QuoteFails, api
  <2> QED
    BY <1>2, <1>4, <2>1
<1>11. ASSUME Execute PROVE Good
  <2>1. /\ overlap.shown \/ drawn # None => overlap'.shown
        /\ making # NoQuote => overlap'.making
        /\ UNCHANGED <<page, making, row>>
    BY <1>1, <1>11 DEF Execute, api
  <2>2. drawn # None \/ (paying'.quote = page.quote /\ paying'.key = page.key)
    BY <1>11 DEF Execute, Click
  <2> QED
    BY <1>2, <1>4, <2>1, <2>2
<1>12. ASSUME Pay \/ AnswerLost PROVE Good
  <2>1. /\ paying # NoPayment /\ paying'.quote = paying.quote /\ paying'.key = paying.key
        /\ UNCHANGED <<page, making, overlap>>
    BY <1>1, <1>12 DEF Pay, AnswerLost, ApiHold, ApiSettle, ApiAnswer, AtApi, NoPayment
  <2> QED
    BY <1>2, <1>4, <1>5, <2>1
<1>13. ASSUME NEW a \in abandoned, PayAbandoned(a) PROVE Good
  BY <1>2, <1>4, <1>5, <1>13 DEF PayAbandoned
<1>14. ASSUME TradeArrives PROVE Good
  <2>1. /\ paying.at \in Answers /\ paying # NoPayment /\ paying' = NoPayment
        /\ page' = Outcome(page, paying) /\ UNCHANGED <<making, overlap, row>>
    BY <1>14 DEF TradeArrives, NoPayment, Answers, api
  <2>2. Making' /\ Paying'
    BY <1>2, <2>1
  <2>3. Shown'
    <3> SUFFICES ASSUME page'.quote # None, ~overlap'.shown
                 PROVE  /\ page'.trade \in {None, page'.quote}
                        /\ page'.status = "EXECUTED" => row'[page'.quote] = "EXECUTED"
      OBVIOUS
    <3>1. page'.quote = page.quote
      BY <1>1, <2>1 DEF Outcome
    <3>2. paying.quote = page.quote /\ paying.key = page.key
      BY <1>2, <2>1, <3>1
    <3>3. /\ page.trade \in {None, page.quote}
          /\ page.status = "EXECUTED" => row[page.quote] = "EXECUTED"
      BY <1>2, <2>1, <3>1
    <3>4. CASE paying.at = "trade"
      <4>1. page'.trade = page.quote
        BY <1>1, <2>1, <3>2, <3>4 DEF Outcome
      <4>2. row[page.quote] = "EXECUTED"
        BY <3>2, <3>4 DEF IInv, AnswerOK
      <4> QED
        BY <2>1, <3>1, <3>3, <4>1, <4>2
    <3>5. CASE paying.at = "409"
      <4>1. page'.trade = page.trade
        BY <1>1, <2>1, <3>5 DEF Outcome
      <4>2. ASSUME NEW t \in trades, t.key = paying.key, t.quote # paying.quote PROVE FALSE
        <5>1. PairOK(t.quote, t.key)
          BY DEF IInv, PairsOK, Pairs
        <5>2. t.key = page.key /\ t.quote # t.key
          BY <3>2, <4>2 DEF IInv, PageOK
        <5> QED
          BY <2>1, <5>1, <5>2 DEF PairOK
      <4>3. row[page.quote] = "EXECUTED"
        BY <3>2, <3>5, <4>2 DEF IInv, AnswerOK
      <4> QED
        BY <2>1, <3>1, <3>3, <4>1, <4>3
    <3>6. CASE paying.at \notin {"trade", "409"}
      <4>1. page'.trade = page.trade /\ page'.status \in {page.status, "EXPIRED"}
        BY <1>1, <2>1, <3>6 DEF Outcome
      <4> QED
        BY <2>1, <3>1, <3>3, <4>1
    <3> QED
      BY <3>4, <3>5, <3>6
  <2> QED
    BY <1>4, <2>2, <2>3
<1>15. ASSUME CountDown PROVE Good
  <2>1. /\ page'.quote = page.quote /\ page'.key = page.key /\ page'.trade = page.trade
        /\ page'.status = "EXPIRED"
        /\ UNCHANGED <<making, paying, overlap>>
    BY <1>1, <1>15 DEF CountDown
  <2> QED
    BY <1>2, <1>4, <2>1
<1>16. ASSUME NewQuote \/ Swap \/ \E t \in Tabs : SelectTab(t) PROVE Good
  <2>1. page' = Reset(page) \/ page' = NoPage
    BY <1>16 DEF NewQuote, Swap, SelectTab, LeaveQuotes
  <2>2. page'.quote = None /\ page'.trade = None
    <3>1. NoPage.quote = None /\ NoPage.trade = None
      BY DEF NoPage
    <3>2. Reset(page).quote = None /\ Reset(page).trade = None
      BY <1>1 DEF Reset
    <3> QED
      BY <2>1, <3>1, <3>2
  <2>3. Making'
    <3>1. CASE NewQuote
      <4>1. overlap'.making = overlap.making
        BY <1>1, <3>1 DEF NewQuote
      <4> QED
        BY <1>2, <2>2, <3>1, <4>1 DEF NewQuote
    <3>2. CASE Swap
      <4>1. overlap'.making = overlap.making
        BY <1>1, <3>2 DEF Swap
      <4> QED
        BY <1>2, <2>2, <3>2, <4>1 DEF Swap
    <3>3. CASE \E t \in Tabs : SelectTab(t)
      BY <3>3 DEF SelectTab, LeaveQuotes
    <3> QED
      BY <1>16, <3>1, <3>2, <3>3
  <2> QED
    BY <1>4, <2>2, <2>3
<1>17. ASSUME NEW s \in Slots, BalanceStep(s) PROVE Good
  BY <1>6, <1>17 DEF BalanceStep
<1>18. Good
  <2>1. ASSUME OnQuotesPage PROVE Good
    BY <1>7, <1>8, <1>9, <1>10, <1>11, <1>12, <1>14, <1>15, <1>16, <1>17, <2>1 DEF OnQuotesPage
  <2> QED
    BY <1>6, <1>13, <1>16, <2>1 DEF Next, Background, vars
<1> QED
  BY <1>18 DEF Good

-----------------------------------------------------------------------------
(* The balance line.                                                       *)

LEMMA FitsLater ==
    ASSUME NEW shown, NEW due, NEW reads, NEW f, NEW g \in Nat,
           Fits(shown, due, reads, f), f <= g
    PROVE  Fits(shown, due, reads, g)
BY DEF Fits, Slots

LEMMA FitsEmpty ==
    ASSUME NEW f \in Nat
    PROVE  Fits(0, 0, [s \in Slots |-> 0], f)
BY DEF Fits

LEMMA FitsAsking ==
    ASSUME NEW shown, NEW due, NEW reads, NEW f, NEW s \in Slots,
           Fits(shown, due, reads, f), f # 0
    PROVE  Fits(shown, IF \E t \in Slots : reads[t] # 0 THEN 0 ELSE f,
                [reads EXCEPT ![s] = f], f)
<1> DEFINE r == [reads EXCEPT ![s] = f]
           d == IF \E t \in Slots : reads[t] # 0 THEN 0 ELSE f
<1>1. /\ r \in [Slots -> Nat] /\ r[s] = f
      /\ \A t \in Slots : t # s => r[t] = reads[t]
  BY DEF Fits
<1>2. d \in {0, f} /\ \A t \in Slots : d # 0 => reads[t] = 0
  OBVIOUS
<1> HIDE DEF r, d
<1>3. Fits(shown, d, r, f)
  BY <1>1, <1>2 DEF Fits
<1> QED
  BY <1>3 DEF r, d

LEMMA FitsAnswered ==
    ASSUME NEW shown, NEW due, NEW reads, NEW f, NEW s \in Slots,
           Fits(shown, due, reads, f), reads[s] # 0
    PROVE  /\ \A v \in reads[s] .. f : Fits(v, due, [reads EXCEPT ![s] = 0], f)
           /\ Fits(shown, 0, [reads EXCEPT ![s] = 0], f)
<1> DEFINE r == [reads EXCEPT ![s] = 0]
<1>1. /\ r \in [Slots -> Nat] /\ r[s] = 0
      /\ \A t \in Slots : t # s => r[t] = reads[t]
  BY DEF Fits
<1> HIDE DEF r
<1>2. ASSUME NEW v \in reads[s] .. f PROVE Fits(v, due, r, f)
  BY <1>1 DEF Fits
<1>3. Fits(shown, 0, r, f)
  BY <1>1 DEF Fits
<1> QED
  BY <1>2, <1>3 DEF r

LEMMA FitsCredit ==
    ASSUME NEW shown, NEW due, NEW reads, NEW f, NEW s \in Slots,
           Fits(shown, due, reads, f), reads[s] # 0
    PROVE  Fits(shown, IF due = 0 THEN 0 ELSE f + 1, [reads EXCEPT ![s] = f + 1], f + 1)
<1> DEFINE r == [reads EXCEPT ![s] = f + 1]
           d == IF due = 0 THEN 0 ELSE f + 1
<1>1. /\ r \in [Slots -> Nat] /\ r[s] = f + 1
      /\ \A t \in Slots : t # s => r[t] = reads[t]
  BY DEF Fits
<1>2. d \in {0, f + 1} /\ (d # 0 => due # 0)
  OBVIOUS
<1> HIDE DEF r, d
<1>3. Fits(shown, d, r, f + 1)
  BY <1>1, <1>2 DEF Fits
<1> QED
  BY <1>3 DEF r, d

LEMMA AskingIs ==
    ASSUME NEW l \in LineShape, NEW s \in Slots, funds \in Nat
    PROVE  /\ Asking(l, s) \in LineShape
           /\ Asking(l, s).shown = l.shown
           /\ Asking(l, s).due = IF \E t \in Slots : l.reads[t] # 0 THEN 0 ELSE funds
           /\ Asking(l, s).reads = [l.reads EXCEPT ![s] = funds]
BY DEF Asking, InFlight, None, LineShape

\* The version of the balances only grows, and no step changes it and the line
\* but the deposit the page waits for.
LEMMA FundsStep ==
    ASSUME IInv, [Next]_vars
    PROVE  /\ \/ funds' = funds
              \/ funds' = funds + 1 /\ (Credit \/ UNCHANGED line)
           /\ funds' \in Nat \ {0} /\ funds <= funds'
<1> DEFINE Good == \/ funds' = funds
                   \/ funds' = funds + 1 /\ (Credit \/ UNCHANGED line)
<1>1. ASSUME UNCHANGED funds PROVE Good
  BY <1>1
<1>2. ASSUME Pay \/ \E a \in abandoned : PayAbandoned(a) PROVE Good
  BY <1>2 DEF Pay, PayAbandoned, ApiHold, ApiSettle, ApiAnswer
<1>3. ASSUME Credit \/ (CreditOrphan /\ UNCHANGED quotesPage) PROVE Good
  BY <1>3 DEF Credit, CreditOrphan, ApiDeposit, api
<1> HIDE DEF Good
<1>4. ASSUME \/ GetQuote \/ QuoteArrives \/ QuoteFails \/ Render \/ Execute
             \/ AnswerLost \/ TradeArrives \/ CountDown \/ NewQuote \/ Swap
             \/ \E q \in Quotes : Issue(q)
             \/ \E s \in Slots : BalanceStep(s)
      PROVE  Good
  BY <1>1, <1>4
     DEF GetQuote, QuoteArrives, QuoteFails, Render, Execute, AnswerLost, TradeArrives,
         CountDown, NewQuote, Swap, Issue, ApiIssue, BalanceStep, api
<1>5. ASSUME \/ Refresh \/ Deposit \/ DepositFails \/ UNCHANGED api
             \/ \E s \in {OnMount, Posted} : BalancesStep(s)
             \/ \E q \in Quotes : ApiLapse(q)
             \/ \E t \in Tabs : SelectTab(t)
      PROVE  Good
  BY <1>1, <1>5
     DEF Refresh, Deposit, DepositFails, BalancesStep, ApiLapse, SelectTab, api
<1>6. Good
  BY <1>2, <1>3, <1>4, <1>5 DEF Next, OnQuotesPage, OnBalancesPage, Background, vars
<1>7. funds \in Nat \ {0}
  BY DEF IInv, FundsOK
<1> QED
  BY <1>6, <1>7 DEF Good

LEMMA LineStep == ASSUME IInv, [Next]_vars PROVE LineOK'
<1> DEFINE Good == LineOK'
           FitsNow == line' \in LineShape /\ Fits(line'.shown, line'.due, line'.reads, funds')
<1>1. /\ line \in LineShape /\ Fits(line.shown, line.due, line.reads, funds)
      /\ crediting => line.reads[Posted] # 0 /\ tab = "balances"
      /\ funds \in Nat /\ funds # 0
  BY DEF IInv, LineOK, FundsOK, None
<1>2. Posted \in Slots /\ OnMount \in Slots /\ Posted # OnMount
  BY MaxQuotesAssumption DEF Posted, OnMount, Slots
<1>3. funds' \in Nat /\ funds <= funds'
  BY FundsStep
<1>4. line.reads \in [Slots -> Nat] /\ line.shown \in Nat /\ line.due \in Nat
  BY <1>1 DEF Fits
<1>5. ASSUME FitsNow, crediting' => line'.reads[Posted] # 0 /\ tab' = "balances" PROVE Good
  BY <1>5 DEF LineOK, None
<1> HIDE DEF Good
<1>6. ASSUME UNCHANGED line, crediting' => crediting /\ tab' = tab PROVE Good
  <2>1. FitsNow
    BY <1>1, <1>3, <1>6, FitsLater
  <2> QED
    BY <1>1, <1>5, <1>6, <2>1
<1>7. ASSUME NEW s \in Slots, NEW l \in LineShape, Fits(l.shown, l.due, l.reads, funds),
             line' = Asking(l, s), UNCHANGED funds
      PROVE  /\ FitsNow
             /\ \A t \in Slots : t = s \/ l.reads[t] # 0 => line'.reads[t] # 0
  <2>1. /\ line' \in LineShape
        /\ line'.shown = l.shown
        /\ line'.due = IF \E t \in Slots : l.reads[t] # 0 THEN 0 ELSE funds
        /\ line'.reads = [l.reads EXCEPT ![s] = funds]
    BY <1>1, <1>7, AskingIs
  <2>2. Fits(line'.shown, line'.due, line'.reads, funds)
    BY <1>1, <1>7, <2>1, FitsAsking
  <2>3. l.reads \in [Slots -> Nat]
    BY <1>7 DEF Fits
  <2> QED
    BY <1>1, <1>7, <2>1, <2>2, <2>3
<1>8. ASSUME NEW s \in Slots, Arrive(s) \/ Fail(s), UNCHANGED funds
      PROVE  FitsNow /\ \A t \in Slots : t # s => line'.reads[t] = line.reads[t]
  <2>1. line.reads[s] # 0
    BY <1>8 DEF Arrive, Fail, None
  <2>2. CASE Arrive(s)
    <3>1. PICK v \in line.reads[s] .. funds :
            line' = [line EXCEPT !.reads[s] = None, !.shown = v]
      BY <2>2 DEF Arrive
    <3>2. v \in Nat
      BY <1>1, <1>4, <1>8
    <3>3. /\ line'.shown = v /\ line'.due = line.due
          /\ line'.reads = [line.reads EXCEPT ![s] = 0]
          /\ line' \in LineShape
      BY <1>1, <3>1, <3>2 DEF None, LineShape
    <3>4. Fits(line'.shown, line'.due, line'.reads, funds)
      BY <1>1, <1>8, <2>1, <3>3, FitsAnswered
    <3> QED
      BY <1>4, <1>8, <3>3, <3>4
  <2>3. CASE Fail(s)
    <3>1. /\ line'.shown = line.shown /\ line'.due = 0
          /\ line'.reads = [line.reads EXCEPT ![s] = 0]
          /\ line' \in LineShape
      BY <1>1, <2>3 DEF Fail, None, LineShape
    <3>2. Fits(line'.shown, line'.due, line'.reads, funds)
      BY <1>1, <1>8, <2>1, <3>1, FitsAnswered
    <3> QED
      BY <1>4, <1>8, <3>1, <3>2
  <2> QED
    BY <1>8, <2>2, <2>3
<1>9. NoLine \in LineShape /\ Fits(NoLine.shown, NoLine.due, NoLine.reads, funds)
  <2>1. /\ NoLine.shown = 0 /\ NoLine.due = 0 /\ NoLine.reads = [s \in Slots |-> 0]
        /\ NoLine \in LineShape
    BY DEF NoLine, None, LineShape
  <2> QED
    BY <1>1, <2>1, FitsEmpty
<1>10. ASSUME NEW t \in Tabs, SelectTab(t) PROVE Good
  <2>1. ~crediting' /\ UNCHANGED funds
    BY <1>10 DEF SelectTab, LeaveBalances, api
  <2>2. CASE line' = NoLine
    BY <1>5, <1>9, <2>1, <2>2
  <2>3. CASE line' = Mounted
    <3>1. FitsNow
      BY <1>2, <1>7, <1>9, <2>1, <2>3 DEF Mounted
    <3> QED
      BY <1>5, <2>1, <3>1
  <2> QED
    BY <1>10, <2>2, <2>3 DEF SelectTab
<1>11. ASSUME tab = "quotes", OnQuotesPage, UNCHANGED <<balancesPage, tab>> PROVE Good
  <2>1. ~crediting'
    BY <1>1, <1>11 DEF balancesPage
  <2>2. CASE UNCHANGED line
    BY <1>6, <2>1, <2>2
  <2>3. CASE TradeArrives /\ paying.at = "trade"
    <3>1. paying.quote \in Slots
      BY <2>3, Attempted DEF Quotes, Slots
    <3>2. FitsNow
      BY <1>1, <1>7, <2>3, <3>1 DEF TradeArrives, RefreshBalances, api
    <3> QED
      BY <1>5, <2>1, <3>2
  <2>4. ASSUME NEW s \in Slots, BalanceStep(s) PROVE Good
    <3>1. FitsNow
      BY <1>8, <2>4 DEF BalanceStep, api
    <3> QED
      BY <1>5, <2>1, <3>1
  <2>5. \/ UNCHANGED line
        \/ TradeArrives /\ paying.at = "trade"
        \/ \E s \in Slots : BalanceStep(s)
    BY <1>11 DEF OnQuotesPage, GetQuote, QuoteArrives, QuoteFails, Render, Execute, Pay,
                 AnswerLost, TradeArrives, CountDown, NewQuote, Swap, Issue
  <2> QED
    BY <2>2, <2>3, <2>4, <2>5
<1>12. ASSUME tab = "balances", UNCHANGED tab, Refresh \/ Deposit PROVE Good
  <2>1. PICK s \in {OnMount, Posted} :
          /\ line' = Asking(line, s) /\ UNCHANGED funds
          /\ crediting' => crediting \/ s = Posted
    BY <1>12 DEF Refresh, Deposit, balancesPage, api
  <2>2. FitsNow /\ \A t \in Slots : t = s \/ line.reads[t] # 0 => line'.reads[t] # 0
    BY <1>1, <1>2, <1>7, <2>1
  <2> QED
    BY <1>1, <1>2, <1>5, <1>12, <2>1, <2>2
<1>13. ASSUME tab = "balances", UNCHANGED tab, Credit PROVE Good
  <2>1. /\ line.reads[Posted] # 0 /\ ~crediting' /\ funds' = funds + 1
    BY <1>1, <1>13 DEF Credit, ApiDeposit
  <2>2. line' = [line EXCEPT !.reads[Posted] = funds',
                             !.due = IF @ = None THEN None ELSE funds']
    BY <1>13 DEF Credit
  <2>3. /\ line'.shown = line.shown
        /\ line'.due = IF line.due = 0 THEN 0 ELSE funds + 1
        /\ line'.reads = [line.reads EXCEPT ![Posted] = funds + 1]
        /\ line' \in LineShape
    BY <1>1, <1>3, <2>1, <2>2 DEF None, LineShape
  <2>4. Fits(line'.shown, line'.due, line'.reads, funds')
    BY <1>1, <1>2, <2>1, <2>3, FitsCredit
  <2> QED
    BY <1>5, <2>1, <2>3, <2>4
<1>14. ASSUME tab = "balances", UNCHANGED tab,
              DepositFails \/ \E s \in {OnMount, Posted} : BalancesStep(s)
       PROVE  Good
  <2>1. PICK s \in Slots : /\ Arrive(s) \/ Fail(s)
                           /\ UNCHANGED funds
                           /\ crediting' => crediting /\ s # Posted
    BY <1>2, <1>14 DEF DepositFails, BalancesStep, balancesPage, api
  <2>2. FitsNow /\ \A t \in Slots : t # s => line'.reads[t] = line.reads[t]
    BY <1>8, <2>1
  <2> QED
    BY <1>1, <1>2, <1>5, <1>14, <2>1, <2>2
<1>15. ASSUME Background \/ UNCHANGED vars PROVE Good
  <2>1. UNCHANGED <<line, crediting, tab>>
    BY <1>15 DEF Background, PayAbandoned, CreditOrphan, balancesPage, vars
  <2> QED
    BY <1>6, <2>1
<1>16. Good
  BY <1>10, <1>11, <1>12, <1>13, <1>14, <1>15 DEF Next, OnBalancesPage
<1> QED
  BY <1>16 DEF Good

-----------------------------------------------------------------------------
(* The number of commits.                                                  *)

LEMMA ExecutedGrows ==
    ASSUME IInv, [Next]_vars
    PROVE  /\ IsFiniteSet(Executed) /\ Cardinality(Executed) \in Nat
           /\ Cardinality(Executed') \in Nat
           /\ Cardinality(Executed) <= Cardinality(Executed')
           /\ \A q \in Quotes : row[q] # "EXECUTED" /\ row'[q] = "EXECUTED" =>
                 Cardinality(Executed) + 1 <= Cardinality(Executed')
<1>1. IsFiniteSet(Quotes)
  BY MaxQuotesAssumption, FS_Interval DEF Quotes
<1>2. Executed \subseteq Quotes /\ Executed' \subseteq Quotes /\ Executed \subseteq Executed'
  BY RowStep DEF Executed
<1>3. /\ IsFiniteSet(Executed) /\ Cardinality(Executed) \in Nat
      /\ IsFiniteSet(Executed') /\ Cardinality(Executed') \in Nat
      /\ Cardinality(Executed) <= Cardinality(Executed')
  BY <1>1, <1>2, FS_Subset, FS_CardinalityType
<1>4. ASSUME NEW q \in Quotes, row[q] # "EXECUTED", row'[q] = "EXECUTED"
      PROVE  Cardinality(Executed) + 1 <= Cardinality(Executed')
  <2>1. q \notin Executed /\ Executed \cup {q} \subseteq Executed'
    BY <1>2, <1>4 DEF Executed
  <2>2. /\ IsFiniteSet(Executed \cup {q})
        /\ Cardinality(Executed \cup {q}) = Cardinality(Executed) + 1
    BY <1>3, <2>1, FS_AddElement
  <2> QED
    BY <1>3, <2>1, <2>2, FS_Subset
<1> QED
  BY <1>3, <1>4

LEMMA CountStep == ASSUME IInv, [Next]_vars PROVE FundsOK'
<1> DEFINE Good == FundsOK'
           Idle == UNCHANGED <<crediting, orphans, asked>>
<1>1. /\ funds \in Nat /\ orphans \in Nat /\ asked \in Nat
      /\ crediting \in BOOLEAN
      /\ funds + ToCome <= 1 + Cardinality(Executed) + asked
  BY MaxDepositsAssumption DEF IInv, FundsOK, ShapeOK, BalancesTypeOK
<1>2. /\ funds' \in Nat \ {0} /\ funds <= funds'
      /\ funds' = funds \/ funds' = funds + 1
  BY FundsStep
<1>3. /\ Cardinality(Executed) \in Nat /\ Cardinality(Executed') \in Nat
      /\ Cardinality(Executed) <= Cardinality(Executed')
  BY ExecutedGrows
<1>4. ToCome \in Nat /\ Orphaned = ToCome /\ orphans <= ToCome
  BY <1>1, OrphanedIs DEF IInv, ShapeOK
<1>5. ASSUME UNCHANGED funds, Idle PROVE Good
  <2>1. ToCome' = ToCome
    BY <1>5 DEF ToCome
  <2> QED
    BY <1>1, <1>2, <1>3, <1>4, <1>5, <2>1 DEF FundsOK
<1>6. ASSUME UNCHANGED <<funds, asked>>, ToCome' \in Nat, ToCome' <= ToCome PROVE Good
  BY <1>1, <1>2, <1>3, <1>4, <1>6 DEF FundsOK
<1>7. ASSUME NEW a, a.quote \in Quotes, Idle,
             ApiHold(a) \/ ApiSettle(a) \/ \E answer \in Answers : ApiAnswer(a, answer)
      PROVE  Good
  <2>1. CASE ApiSettle(a)
    <3>1. row \in [Quotes -> {"ABSENT", "ACTIVE", "EXECUTED"}]
      BY Shapes DEF IInv
    <3>2. row[a.quote] # "EXECUTED"
      BY <2>1, <1>7 DEF ApiSettle, Life!Settle, IInv, AttemptsOK
    <3>3. row'[a.quote] = "EXECUTED" /\ funds' = funds + 1
      BY <1>7, <2>1, <3>1 DEF ApiSettle, Life!Settle
    <3>4. Cardinality(Executed) + 1 <= Cardinality(Executed')
      BY <1>7, <3>2, <3>3, ExecutedGrows
    <3>5. ToCome' = ToCome
      BY <1>7 DEF ToCome
    <3> QED
      BY <1>1, <1>2, <1>3, <1>4, <1>7, <3>3, <3>4, <3>5 DEF FundsOK
  <2>2. CASE ApiHold(a) \/ \E answer \in Answers : ApiAnswer(a, answer)
    BY <1>5, <1>7, <2>2 DEF ApiHold, ApiAnswer
  <2> QED
    BY <1>7, <2>1, <2>2
<1> HIDE DEF Good
<1>8. ASSUME \/ GetQuote \/ QuoteArrives \/ QuoteFails \/ Render \/ Execute
             \/ AnswerLost \/ TradeArrives \/ CountDown \/ NewQuote \/ Swap
             \/ \E q \in Quotes : Issue(q)
             \/ \E s \in Slots : BalanceStep(s)
      PROVE  UNCHANGED funds
  BY <1>8
     DEF GetQuote, QuoteArrives, QuoteFails, Render, Execute, AnswerLost, TradeArrives,
         CountDown, NewQuote, Swap, Issue, ApiIssue, BalanceStep, api
<1>9. ASSUME OnQuotesPage, UNCHANGED balancesPage PROVE Good
  <2>1. ASSUME Pay PROVE Good
    <3>1. paying.quote \in Quotes
      BY <2>1, Attempted DEF Pay, ApiHold, ApiSettle, ApiAnswer
    <3> QED
      BY <1>7, <1>9, <2>1, <3>1 DEF Pay, balancesPage
  <2> QED
    BY <1>5, <1>8, <1>9, <2>1 DEF OnQuotesPage, balancesPage
<1>10. ASSUME NEW a \in abandoned, PayAbandoned(a), UNCHANGED balancesPage PROVE Good
  BY <1>7, <1>10, Attempted DEF PayAbandoned, balancesPage
<1>11. ASSUME NEW t \in Tabs, SelectTab(t) PROVE Good
  <2>1. ~crediting' /\ orphans' = Orphaned /\ UNCHANGED <<funds, asked>>
    BY <1>11 DEF SelectTab, LeaveBalances, api
  <2>2. ToCome' = Orphaned
    BY <2>1 DEF ToCome
  <2> QED
    BY <1>4, <1>6, <2>1, <2>2
<1>12. ASSUME Deposit PROVE Good
  <2>1. ~crediting
    BY <1>12 DEF Deposit, IInv, LineOK
  <2>2. /\ crediting' /\ UNCHANGED <<funds, orphans>> /\ asked' = asked + 1
    BY <1>12 DEF Deposit, api
  <2>3. ToCome = orphans /\ ToCome' = orphans + 1
    BY <2>1, <2>2 DEF ToCome
  <2> QED
    BY <1>1, <1>2, <1>3, <2>2, <2>3 DEF Good, FundsOK
<1>13. ASSUME Credit PROVE Good
  <2>1. crediting /\ ~crediting' /\ UNCHANGED <<orphans, asked>> /\ funds' = funds + 1
    BY <1>13 DEF Credit, ApiDeposit
  <2>2. ToCome = orphans + 1 /\ ToCome' = orphans
    BY <2>1 DEF ToCome
  <2> QED
    BY <1>1, <1>2, <1>3, <2>1, <2>2 DEF Good, FundsOK
<1>14. ASSUME CreditOrphan PROVE Good
  <2>1. orphans > 0 /\ orphans' = orphans - 1 /\ UNCHANGED <<crediting, asked>>
    BY <1>14 DEF CreditOrphan
  <2>2. ToCome' = ToCome - 1
    BY <1>1, <2>1 DEF ToCome
  <2> QED
    BY <1>1, <1>2, <1>3, <1>4, <2>1, <2>2 DEF Good, FundsOK
<1>15. ASSUME DepositFails PROVE Good
  <2>1. ~crediting' /\ orphans' \in {orphans, Orphaned} /\ UNCHANGED <<funds, asked>>
    BY <1>15 DEF DepositFails, api
  <2>2. ToCome' = orphans'
    BY <2>1 DEF ToCome
  <2> QED
    BY <1>1, <1>4, <1>6, <2>1, <2>2
<1>16. ASSUME Refresh \/ (\E s \in {OnMount, Posted} : BalancesStep(s)) \/ UNCHANGED vars
       PROVE  Good
  BY <1>5, <1>16 DEF Refresh, BalancesStep, api, balancesPage, vars
<1>17. ASSUME NEW q \in Quotes, ApiLapse(q), UNCHANGED balancesPage PROVE Good
  BY <1>5, <1>17 DEF ApiLapse, balancesPage
<1>18. Good
  BY <1>9, <1>10, <1>11, <1>12, <1>13, <1>14, <1>15, <1>16, <1>17
     DEF Next, OnBalancesPage, Background
<1> QED
  BY <1>18 DEF Good

-----------------------------------------------------------------------------
LEMMA Inductive == ASSUME IInv, [Next]_vars PROVE IInv'
BY ShapeStep, AttemptsStep, PairsStep, PageStep, AnswerStep, HonestStep, LineStep, CountStep
   DEF IInv

LEMMA Invariant == Spec => []IInv
<1>1. IInv /\ [Next]_vars => IInv'
  BY Inductive
<1> QED
  BY Initially, <1>1, PTL DEF Spec

\* Every variable keeps its shape, a page that is not mounted has no state,
\* the key of executeTrade goes with its quote, a quote is held by one attempt
\* alone, and the balances change no more often than quotes are executed and
\* deposits are asked for.
THEOREM TypesOK == Spec => []TypeOK
<1>1. IInv => TypeOK
  <2> SUFFICES ASSUME IInv PROVE TypeOK
    OBVIOUS
  <2>1. Cardinality(Executed) \in Nat /\ Cardinality(Executed) <= MaxQuotes
    <3>1. IsFiniteSet(Quotes) /\ Cardinality(Quotes) = MaxQuotes
      BY MaxQuotesAssumption, FS_Interval DEF Quotes
    <3>2. Executed \subseteq Quotes
      BY DEF Executed
    <3> QED
      BY <3>1, <3>2, FS_Subset, FS_CardinalityType
  <2>2. ToCome \in Nat /\ asked \in Nat /\ asked <= MaxDeposits
    BY OrphanedIs, MaxDepositsAssumption DEF IInv, ShapeOK, BalancesTypeOK
  <2>3. funds \in Versions
    BY <2>1, <2>2, MaxQuotesAssumption, MaxDepositsAssumption DEF IInv, FundsOK, Versions
  <2>4. \A v \in Nat : v <= funds => v \in Versions \cup {None}
    BY <2>3, MaxQuotesAssumption, MaxDepositsAssumption DEF Versions, None
  <2>5. line \in [shown: Versions \cup {None}, due: Versions \cup {None},
                  reads: [Slots -> Versions \cup {None}]]
    <3>1. /\ line \in LineShape /\ line.shown <= funds /\ line.due <= funds
          /\ \A s \in Slots : line.reads[s] <= funds
      BY DEF IInv, LineOK, Fits
    <3>2. /\ line.shown \in Nat /\ line.due \in Nat /\ line.reads \in [Slots -> Nat]
      BY <3>1 DEF LineShape
    <3>3. /\ line.shown \in Versions \cup {None} /\ line.due \in Versions \cup {None}
          /\ line.reads \in [Slots -> Versions \cup {None}]
      BY <2>4, <3>1, <3>2
    <3> QED
      BY <3>1, <3>3 DEF LineShape
  <2> QED
    BY <2>3, <2>5 DEF TypeOK, IInv, ShapeOK, AttemptsOK
<1> QED
  BY Invariant, <1>1, PTL

\* However often a trade is asked for and its answer lost, whatever is clicked
\* meanwhile: if the quote that is current has been executed, the page retries it
\* under the key it was executed with, and that key has bought no other quote but
\* by a click on the one that was drawn before it.
THEOREM RetriesAreSafe == Spec => []RetriesAreRecognised
<1>1. ASSUME IInv, page.quote # None, NEW t \in trades
      PROVE  /\ t.quote = page.quote => t.key = page.key
             /\ t.key = page.key /\ ~overlap.shown => t.quote = page.quote
  <2>1. PairOK(t.quote, t.key)
    BY <1>1 DEF IInv, PairsOK, Pairs
  <2>2. page.key = page.quote
    BY <1>1 DEF IInv, PageOK
  <2> QED
    BY <2>1, <2>2 DEF PairOK
<1>2. IInv => RetriesAreRecognised
  BY <1>1 DEF RetriesAreRecognised
<1> QED
  BY Invariant, <1>2, PTL

\* executeTrade puts no trade on the page that was not made, though errors and
\* refusals arrive in its place, and answers after their quote has gone.
THEOREM ShownTradesHappened == Spec => []ShownTradeHappened
<1>1. IInv => ShownTradeHappened
  BY DEF IInv, PageOK, ShownTradeHappened
<1> QED
  BY Invariant, <1>1, PTL

\* QuotesPage takes one quote for another only if the execution of the one
\* overlapped the making of the other.
THEOREM HonestPage == Spec => []HonestUnlessOverlapped
<1>1. IInv => HonestUnlessOverlapped
  BY DEF IInv
<1> QED
  BY Invariant, <1>1, PTL

\* Whichever answer arrives last, a page that waits for no balances shows all
\* that was committed when it last asked, unless an answer was lost or two
\* requests overlapped.
THEOREM FreshBalances == Spec => []ShownBalanceIsFresh
<1>1. IInv => ShownBalanceIsFresh
  <2> SUFFICES ASSUME IInv, ~InFlight(line) PROVE line.shown >= line.due
    BY DEF ShownBalanceIsFresh
  <2>1. \A s \in Slots : line.reads[s] = 0
    BY DEF InFlight, None
  <2> QED
    BY <2>1 DEF IInv, LineOK, Fits
<1> QED
  BY Invariant, <1>1, PTL

=============================================================================
