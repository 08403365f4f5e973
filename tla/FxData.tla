------------------------------- MODULE FxData -------------------------------
(***************************************************************************)
(* The vocabulary shared by the trading specifications: who the clients    *)
(* are, what a quote freezes when it is issued, and the rows that the      *)
(* tables of apps/api/src/db/schema.ts hold.  Amounts are integers of      *)
(* minor units, as the bigint columns are.                                 *)
(***************************************************************************)
EXTENDS Integers, FiniteSets

CONSTANTS
    Clients,        \* rows of the clients table
    Currencies,     \* numbered in the order in which Postgres collates them
    QuoteIds,       \* uuids a quote may be stored under
    Terms,          \* what each quote froze: owner, side, currencies, amounts
    Keys,           \* trimmed Idempotency-Key values
    Reqs,           \* HTTP requests; a request's uuidv4() is its own name
    Calls,          \* what clients ask for: trades and deposits
    Funding,        \* what db:seed put on the accounts
    MaxMinor,       \* the largest value of a bigint column
    NoReq           \* "nobody holds this row"

ASSUME CurrenciesAssumption == Currencies \subseteq Nat
ASSUME MaxMinorAssumption == MaxMinor \in Nat
ASSUME NoReqAssumption == NoReq \notin Reqs

Sides == {"BUY", "SELL"}
PositiveMinor == 1 .. MaxMinor

QuoteTerms ==
    [client: Clients, side: Sides, base: Currencies, quote: Currencies,
     baseMinor: PositiveMinor, quoteMinor: PositiveMinor]

\* createQuote refuses amounts that are not positive, and no Binance symbol
\* pairs an asset with itself.
ASSUME TermsAssumption ==
    /\ Terms \in [QuoteIds -> QuoteTerms]
    /\ \A q \in QuoteIds : Terms[q].base # Terms[q].quote

\* POST /v1/trades and POST /v1/deposits, authenticated and validated.
TradeCalls == [kind: {"trade"}, client: Clients, quote: QuoteIds, key: Keys]
DepositCalls ==
    [kind: {"deposit"}, client: Clients, currency: Currencies,
     minor: PositiveMinor]

ASSUME CallsAssumption == Calls \subseteq TradeCalls \cup DepositCalls

\* A balances row is named by its unique (client_id, currency).
Accounts == Clients \X Currencies

ASSUME FundingAssumption == Funding \in [Accounts -> 0 .. MaxMinor]
ASSUME SeedAssumption == "seed" \notin Reqs

FundedAccounts == {a \in Accounts : Funding[a] > 0}

\* A row of ledger_entries; ref is the trade or deposit that wrote it.
LedgerEntries ==
    [account: Accounts, delta: Int, reason: {"DEPOSIT", "TRADE"},
     ref: Reqs \cup {"seed"}]

Entry(account, delta, reason, ref) ==
    [account |-> account, delta |-> delta, reason |-> reason, ref |-> ref]

\* A row of trades; the columns copied from the quote are Terms[quote].
Trades == [id: Reqs, client: Clients, quote: QuoteIds, key: Keys]

Trade(id, client, quote, key) ==
    [id |-> id, client |-> client, quote |-> quote, key |-> key]

SeedEntries ==
    {Entry(a, Funding[a], "DEPOSIT", "seed") : a \in FundedAccounts}

(***************************************************************************)
(* The two legs of a quote.  A BUY owes the quote currency and receives    *)
(* the base currency; a SELL is the reverse.                               *)
(***************************************************************************)
DebitCurrency(q) ==
    IF Terms[q].side = "BUY" THEN Terms[q].quote ELSE Terms[q].base

CreditCurrency(q) ==
    IF Terms[q].side = "BUY" THEN Terms[q].base ELSE Terms[q].quote

DebitMinor(q) ==
    IF Terms[q].side = "BUY" THEN Terms[q].quoteMinor ELSE Terms[q].baseMinor

CreditMinor(q) ==
    IF Terms[q].side = "BUY" THEN Terms[q].baseMinor ELSE Terms[q].quoteMinor

DebitEntry(client, q, id) ==
    Entry(<<client, DebitCurrency(q)>>, -DebitMinor(q), "TRADE", id)

CreditEntry(client, q, id) ==
    Entry(<<client, CreditCurrency(q)>>, CreditMinor(q), "TRADE", id)
=============================================================================
