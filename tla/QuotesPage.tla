----------------------------- MODULE QuotesPage -----------------------------
(***************************************************************************)
(* apps/web QuotesPage: one page, its countdown and its requests, POST     *)
(* /v1/quotes and POST /v1/trades, whose answers come late, come in any    *)
(* order or are lost.  The buttons allow one request of each kind at a     *)
(* time, but swapping, starting over, asking for the next quote and        *)
(* leaving the tab are allowed at any time.                                *)
(*                                                                         *)
(* What a continuation puts into the state is rendered in a later task:    *)
(* until then the Execute button still sends the quote it was drawn with,  *)
(* but reads the key from the ref, which is already the next one.          *)
(***************************************************************************)
EXTENDS BalanceLine

VARIABLES
    page,       \* what QuotesPage keeps in useState and useRef
    drawn,      \* an ACTIVE quote that is still drawn though page.quote is not it
    making,     \* createQuote: its request, or the quote on its way back
    paying,     \* executeTrade: its attempt, or the answer on its way back
    abandoned,  \* attempts the API works on though nobody waits for them
    overlap     \* history: whether the execution of a quote overlapped the
                \* making of the one shown, or of the one on its way; a click
                \* on a quote that has gone is one, too

quotesPage == <<page, drawn, making, paying, abandoned, overlap>>

NoPage == [quote |-> None, status |-> "ACTIVE", key |-> None, trade |-> None]
NoQuote == [quote |-> None, asked |-> FALSE]
NoPayment == [quote |-> None, key |-> None, at |-> "none"]
AtApi == {"sent", "held"}
Answers == {"trade", "409", "410", "error"}

QuotesInit ==
    /\ page = NoPage
    /\ drawn = None
    /\ making = NoQuote
    /\ paying = NoPayment
    /\ abandoned = {}
    /\ overlap = [shown |-> FALSE, making |-> FALSE]

-----------------------------------------------------------------------------
(* createQuote.                                                            *)

\* Bug: the former trade is not cleared.
GetQuoteKeepingTrade ==
    /\ making = NoQuote
    /\ making' = [NoQuote EXCEPT !.asked = TRUE]
    /\ drawn' = None
    /\ overlap' = [overlap EXCEPT !.making = paying # NoPayment]
    /\ UNCHANGED <<api, line, page, paying, abandoned>>

\* Bug: the key is renewed when the next quote is asked for.
GetQuoteRenewingKey ==
    /\ making = NoQuote
    /\ making' = [NoQuote EXCEPT !.asked = TRUE]
    /\ page' = [page EXCEPT !.trade = None, !.key = IF @ = None THEN None ELSE MaxQuotes]
    /\ drawn' = None
    /\ overlap' = [overlap EXCEPT !.making = paying # NoPayment]
    /\ UNCHANGED <<api, line, paying, abandoned>>

\* The former quote stays on the page, and can be executed, until the answer.
GetQuote ==
    /\ making = NoQuote
    /\ making' = [NoQuote EXCEPT !.asked = TRUE]
    /\ page' = [page EXCEPT !.trade = None]
    /\ drawn' = None
    /\ overlap' = [overlap EXCEPT !.making = paying # NoPayment]
    /\ UNCHANGED <<api, line, paying, abandoned>>

Issue(q) ==
    /\ making.asked /\ making.quote = None
    /\ ApiIssue(q)
    /\ making' = [making EXCEPT !.quote = q]
    /\ UNCHANGED <<line, page, drawn, paying, abandoned, overlap>>

QuoteArrives ==
    /\ making.quote # None
    /\ page' = [page EXCEPT !.quote = making.quote, !.status = "ACTIVE",
                            !.key = making.quote]
    /\ drawn' = IF page.status = "ACTIVE" /\ paying = NoPayment
                THEN page.quote ELSE None
    /\ making' = NoQuote
    /\ overlap' = [shown |-> overlap.making, making |-> FALSE]
    /\ UNCHANGED <<api, line, paying, abandoned>>

Render ==
    /\ drawn # None
    /\ drawn' = None
    /\ UNCHANGED <<api, line, page, making, paying, abandoned, overlap>>

\* The API refuses, or its answer is lost.
QuoteFails ==
    /\ making # NoQuote
    /\ making' = NoQuote
    /\ drawn' = None
    /\ overlap' = [overlap EXCEPT !.making = FALSE]
    /\ UNCHANGED <<api, line, page, paying, abandoned>>

-----------------------------------------------------------------------------
(* executeTrade.                                                           *)

\* The quote the button was drawn with, and the key the ref holds.
Click == [quote |-> IF drawn # None THEN drawn ELSE page.quote, key |-> page.key]

CanExecute ==
    /\ Click.quote # None /\ Click.key # None /\ paying = NoPayment
    /\ drawn # None \/ page.status = "ACTIVE"

Execute ==
    /\ CanExecute
    /\ paying' = [quote |-> Click.quote, key |-> Click.key, at |-> "sent"]
    /\ drawn' = None
    /\ overlap' = [shown |-> overlap.shown \/ drawn # None,
                   making |-> overlap.making \/ making # NoQuote]
    /\ UNCHANGED <<api, line, page, making, abandoned>>

\* The attempt the page waits for, at the API.
Pay ==
    /\ \/ ApiHold(paying) /\ paying' = [paying EXCEPT !.at = "held"]
       \/ ApiSettle(paying) /\ paying' = [paying EXCEPT !.at = "trade"]
       \/ \E answer \in Answers :
             ApiAnswer(paying, answer) /\ paying' = [paying EXCEPT !.at = answer]
    /\ UNCHANGED <<line, page, drawn, making, abandoned, overlap>>

\* An attempt whose answer has nowhere to go.
PayAbandoned(attempt) ==
    /\ \/ /\ ApiHold(attempt)
          /\ abandoned' = (abandoned \ {attempt})
                            \cup {[attempt EXCEPT !.at = "held"]}
       \/ ApiSettle(attempt) /\ abandoned' = abandoned \ {attempt}
       \/ \E answer \in Answers :
             ApiAnswer(attempt, answer) /\ abandoned' = abandoned \ {attempt}
    /\ UNCHANGED <<line, page, drawn, making, paying, overlap>>

\* The browser gives the request up; the API need not notice.
Abandoned == abandoned \cup {a \in {paying} : a.at \in AtApi}

\* The connection fails, before or after the API has done its work.
AnswerLost ==
    /\ paying.at \in AtApi \cup {"trade", "409", "410"}
    /\ paying' = [paying EXCEPT !.at = "error"]
    /\ abandoned' = Abandoned
    /\ UNCHANGED <<api, line, page, drawn, making, overlap>>

\* Bug: response.ok is not looked at.
OutcomeOfAny(p, payment) ==
    [p EXCEPT !.trade = payment.quote, !.status = "EXECUTED"]

\* What executeTrade makes of the answer, whatever the page shows by now.
Outcome(p, payment) ==
    CASE payment.at = "trade" ->
           [p EXCEPT !.trade = payment.quote, !.status = "EXECUTED"]
      [] payment.at = "409" -> [p EXCEPT !.status = "EXECUTED"]
      [] payment.at = "410" -> [p EXCEPT !.status = "EXPIRED"]
      [] OTHER -> p

\* Bug: the balances are not read again; what has been traded is known.
NoRefresh(q) == line' = [line EXCEPT !.due = funds]

RefreshBalances(q) == line' = Asking(line, q)

TradeArrives ==
    /\ paying.at \in Answers
    /\ page' = Outcome(page, paying)
    /\ drawn' = None
    /\ IF paying.at = "trade" THEN RefreshBalances(paying.quote)
                              ELSE UNCHANGED line
    /\ paying' = NoPayment
    /\ UNCHANGED <<api, making, abandoned, overlap>>

-----------------------------------------------------------------------------
(* The countdown, the other buttons and the balance line.                  *)

\* The clock of the browser need not be the clock of the API.
CountDown ==
    /\ page.quote # None /\ page.status = "ACTIVE"
    /\ page' = [page EXCEPT !.status = "EXPIRED"]
    /\ drawn' = None
    /\ UNCHANGED <<api, line, making, paying, abandoned, overlap>>

\* Bug: the key outlives its quote.
ResetKeepingKey(p) == [p EXCEPT !.quote = None, !.trade = None]

Reset(p) == [p EXCEPT !.quote = None, !.trade = None, !.key = None]

NewQuote ==
    /\ page.quote # None \/ drawn # None
    /\ page' = Reset(page)
    /\ drawn' = None
    /\ overlap' = [overlap EXCEPT !.shown = FALSE]
    /\ UNCHANGED <<api, line, making, paying, abandoned>>

\* Also without a quote; one that is on its way goes on being made, for the pair
\* before the swap.
Swap ==
    /\ page' = Reset(page)
    /\ drawn' = None
    /\ overlap' = [overlap EXCEPT !.shown = FALSE]
    /\ UNCHANGED <<api, line, making, paying, abandoned>>

BalanceStep(s) ==
    /\ Arrive(s) \/ Fail(s)
    /\ UNCHANGED <<api, quotesPage>>

\* The component is unmounted: its answers are dropped.
LeaveQuotes ==
    /\ page' = NoPage /\ drawn' = None /\ making' = NoQuote
    /\ paying' = NoPayment /\ abandoned' = Abandoned
    /\ overlap' = [shown |-> FALSE, making |-> FALSE]

\* What can happen while the page is mounted.  The currency selects and the
\* amounts that are typed change only the fields of the form, which no quote
\* that is asked for or shown is read from again: the module has no fields.
OnQuotesPage ==
    \/ GetQuote \/ QuoteArrives \/ QuoteFails \/ Render
    \/ Execute \/ Pay \/ AnswerLost \/ TradeArrives
    \/ CountDown \/ NewQuote \/ Swap
    \/ \E q \in Quotes : Issue(q)
    \/ \E s \in Slots : BalanceStep(s)

-----------------------------------------------------------------------------
\* Every variable keeps its shape, and there is a key exactly while there is
\* a quote to execute with it.
QuotesTypeOK ==
    /\ page \in [quote: Quotes \cup {None}, key: Quotes \cup {None},
                 trade: Quotes \cup {None},
                 status: {"ACTIVE", "EXPIRED", "EXECUTED"}]
    /\ drawn \in Quotes \cup {None}
    /\ making \in [quote: Quotes \cup {None}, asked: BOOLEAN]
    /\ paying \in [quote: Quotes \cup {None}, key: Quotes \cup {None},
                   at: {"none"} \cup AtApi \cup Answers]
    /\ abandoned \subseteq [quote: Quotes, key: Quotes, at: AtApi]
    /\ overlap \in [shown: BOOLEAN, making: BOOLEAN]
    /\ (page.key = None) <=> (page.quote = None)

\* If the quote that is current has been executed, by an attempt whose answer
\* was lost for example, then under the key the page would retry it with: the
\* API can tell the retry from a new trade.  That key has bought another quote
\* only if Execute was clicked on the former quote while it was still drawn.
RetriesAreRecognised ==
    page.quote # None =>
        \A t \in trades :
            /\ t.quote = page.quote => t.key = page.key
            /\ t.key = page.key /\ ~overlap.shown => t.quote = page.quote

\* A trade on the page has been made, although its answer may belong to a
\* quote that has gone, and errors and refusals arrive in its place.
ShownTradeHappened == page.trade # None => row[page.trade] = "EXECUTED"

\* The page takes one quote for another only if the execution of the one
\* overlapped the making of the other.
HonestUnlessOverlapped ==
    page.quote # None /\ ~overlap.shown =>
        /\ page.trade \in {None, page.quote}
        /\ page.status = "EXECUTED" => row[page.quote] = "EXECUTED"
=============================================================================
