# MiniOpenFX in TLA+

A verification project for the API of MiniOpenFX (`apps/api`) and the parts of the web client
(`apps/web`) that keep state: TLA+ modules translated from the source, TLC configurations that
check them on small instances, and theorems that TLAPS checks for every value of the constants.
Paths below are relative to `apps/api/src` unless they start with `apps/`. `PROJECT.json` names,
for every definition, the lines it models.

## 1. The system

A NestJS process (any number of them) serves HTTP requests over one Postgres database and one
Redis. Money is kept as integers of minor units. A client asks for a *quote*, which freezes a
price for 15 seconds, then *executes* it under an idempotency key of its own; the execution
debits one of its balances, credits the other, writes the ledger, records the trade and flips
the quote's status, all in one Postgres transaction.

| Component | State | Operations | Interacts with | What makes it hard |
| --- | --- | --- | --- | --- |
| Trade execution `trading/` | `trades`, `quotes.status` | `executeTrade` | the ledger and the quote row in one transaction; drops the cached quote afterwards | concurrent executions and retries, a lost COMMIT answer, a crash before the answer |
| Ledger `ledger/` | `balances`, `ledger_entries` | `lockBalanceRows`, `debit`, `credit` | called inside the transactions of trades and deposits | row locks, rows that do not exist yet, guarded updates, overflow |
| Deposits, balances `balances/` | the same rows | `createDeposit`, `getBalances` | the ledger | the same account in a trade and a deposit |
| Quoting `quoting/` | `quotes`, Redis `quote:<id>` | `createQuote`, `getQuoteById`, `invalidateCache` | pricing, Postgres, Redis; called by trading | what was read from one store is written to the other later |
| Redis service `redis/` | the Redis keys | `getJson`, `setJson`, `del` | everything cached | commands that fail, time out, or arrive after their timeout; corrupt values |
| Pricing `pricing/` | Redis `price:*`, `symbol:*` | `getPrice`, `getSymbolBreakdown` | Binance, Redis | age of prices, accumulated timeouts |
| Money `domain/money.ts`, `quoting/quote-pricing.ts` | none | conversions, `computeQuoteAmount` | decimal.js | two roundings, range of `bigint` |
| Trade history `trades/`, `common/cursor-pagination.ts` | none of its own | `getTradeHistory` | reads `trades` while they are written | keyset pages, precision of the cursor, `created_at` is the begin of a transaction |
| Web quotes page | quote, status, key, trade, balance line | countdown, create, execute, swap, reset, unmount | the API | answers that arrive after the page has moved on, clicks on what is no longer current |
| Web balances page | balances | mount effect, refresh, deposit | the API | answers that cross, deposits without a key |
| Web shell `App.tsx` | the tab | choose a tab | mounts and unmounts the pages | requests that outlive their page |
| Web history page | rows, cursor | refresh, load more | the API | pages while trades commit |
| Seed and migrations `db/seed.ts`, `db/migrate.ts` | `clients`, the first balances | run by hand or at deployment | the guard reads what they write | runs that race, fail, and are repeated |
| Auth guard `common/guards/` | none of its own | `canActivate` | reads `clients` | a read and several comparisons while clients are created |
| Validation, health, error filter, prices page | none | per request | | |

What makes each of them correct:

- *trades and ledger*: a balance is the sum of its ledger entries; no account is overdrawn; a
  quote is executed at most once and its status agrees; a key names one trade; a trade is booked
  by exactly two entries; a refusal leaves nothing behind; a success is backed by rows; every
  request ends.
- *quoting*: whatever the caches do, nobody is told a quote is executed before it is, a lapsed
  quote is not shown as active, and a stale copy goes away.
- *pricing*: the age of a price that is shown or frozen, and the time a price or a quote takes,
  are bounded.
- *money*: what is stored is what was written; roundings are for the house.
- *history*: a traversal shows each trade once, newest first.
- *web*: a quote that was executed is retried under the key it was executed with; what the page
  says of trades and balances has been so, and of the quote it shows.
- *seed*: there is one client or none, funded when it can be seen, and its key opens it.

The list of hazards, each at its line with the properties that watch it, is in `PROJECT.json`.

## 2. The modules

```
QuoteLife ---------- abstract: a quote is issued, lapses, is held, is executed once
FxData ------------- vocabulary of quotes, calls, accounts, ledger rows, trades
  Settlement ------- abstract: indivisible executions and deposits
  TradeExecution --- detailed: statements, locks, retries, failures;
                     implements Settlement and QuoteLife
    TradeInvariant ------- the inductive invariant
      TradeExecutionProofs   theorems (TLAPS)
        LedgerProofs         theorems that count: sums of entries, cycles of waits
      MCTradeExecution       instances (TLC)
QuoteCache ------------- quotes between Postgres and Redis
  QuoteCacheProofs, MCQuoteCache
PriceFeed    + MCPriceFeed       prices between Binance, Redis and the requests, timed
  PriceFeedProofs
Money        + MCMoney           decimal strings to minor units and back
  MoneyProofs
TradeHistory + MCTradeHistory    keyset pagination
  TradeHistoryProofs
Provisioning + MCProvisioning    migrations, seed runs, the guard
  ProvisioningProofs
TradingApi ------------- the API as the web client meets it, over QuoteLife
  BalanceLine ---------- the balances on a page and the requests for them
    QuotesPage, BalancesPage     one page each
      WebApp + MCWebApp          the tabs: their composition
        WebAppProofs
```

### TradeExecution (trading.service.ts, ledger.service.ts, balances.service.ts)

A request `r` has a program counter `pc[r]`, its call `req[r]`, its transaction `tx[r]` and its
`reply[r]`. One action stands for each statement that can block, fail or be seen:

| `pc` | Action | Code |
| --- | --- | --- |
| `idle` | `Receive` | the controller; a retry is another request with the same call |
| `lookup` | `Lookup` | `findByIdempotencyKey`, fast path, `replayOrConflict` |
| `begin` | `Begin` | `db.transaction` takes a connection from the pool |
| `quote` | `LockQuote` | `SELECT ... FOR UPDATE`, ownership, status, expiry |
| `rows` | `InsertRow`, `LockRow`, `RowsLocked` | `lockBalanceRows`: the insert takes missing rows one by one in array order, the select takes the locks in sorted order |
| `debit` | `Debit` | the guarded UPDATE and its ledger row, or 422 |
| `credit` | `Credit` | the upsert and its ledger row, or an overflow (500) |
| `trade` | `InsertTrade` | the insert, which waits for rivals on a unique index, and 23505 |
| `mark` | `MarkExecuted` | `UPDATE quotes SET status` |
| `commit` | `Commit`, `CommitAnswerLost` | COMMIT makes `tx[r]` visible and frees the locks |
| `raced` | `RacedLookup` | the lookup in the `catch` of `executeTrade` |
| `respond` | `Respond` | `invalidateCache` and the answer; a deposit reads balances first |

`DbError`, `DeadlockVictim` and `Crash` are the failures: a statement fails, Postgres breaks a
cycle of waits, the process dies. Transactions are READ COMMITTED: a statement sees committed
rows and its own writes. Row locks and an uncommitted insert of a `balances` row are both
`rowOwner`; the debit and its ledger row are one step because the row is locked for both and
neither is visible before COMMIT. `ErrorShapes` says whether a driver error may reach
`isUniqueViolation` wrapped in another (drizzle-orm 0.45, the version in `package-lock.json`,
wraps query errors); both outcomes are explored, because nothing in the repository pins the one.

`Settlement` is what the database promises to its readers: one indivisible `Execute` or
`Deposit` at a time. Its variables are four of TradeExecution's, so the refinement mapping is
the identity on them. `QuoteLife` is what every part of the system takes a quote to be; here a
quote is lapsed when it is in `expired` and held while its row has an owner.

### QuoteCache (quoting.service.ts, quote.mapper.ts, redis.service.ts)

`row`, `left` (ticks to `expires_at`), `copy` and `ttl` (what Redis holds and for how long) for
each quote; `maker`, `settler` and `get` are the handlers. Each await ends a step. The trade is
reduced to the lock, the commit and the invalidation of the execution that wins, which is what
TradeExecution proves there is at most one of. A command on Redis applies or
fails (`Outages`); a SET that failed for its caller may still be under way and arrive later, or
never (`late`, `LateSet`; at most one at a time); a copy may be evicted or corrupted at any time.
The id of a quote is drawn at its INSERT and known to clients from the answer of `createQuote`,
after its SET: a request asks for a quote that was answered with, or for an id that names no
quote, and `Insert` draws no id that is being asked for.

### PriceFeed (pricing.service.ts, binance.client.ts, redis.service.ts)

A discrete-time model. A lookup goes `cache -> (hit) -> fetch -> reply -> fill -> done`, and the
timer of each await is punctual (`Tick` waits for what is due). A price is known by its age. One
call shows a price (`Show`), one creates a quote: after its two parallel lookups it freezes the
price (`Freeze`) or finds the amount too small, waits for its INSERT (`making` is `insert`) and
then for the SET of its copy (`cache`), and only then answers (`Finish`). `createPgPool` sets no
timeout on a statement: `InsertTime` stands for how long Postgres takes, and `AnswersInTime` is
relative to it.

### Money (domain/money.ts, quote-pricing.ts)

decimal.js as it is: an operation rounds its exact result half up to `Precision` digits. The
conversions are operators on `[c, e]`, the handlers `CreateQuote` and `CreateDeposit` are the
only actions, and exact integer arithmetic on the request is the reference. The first rounding
is before the one for the house, so that a BUY of a product of more than 20 digits may owe one
minor unit less than the exact product rounded up: `RoundedForTheHouseWhenItFits` and
`OffByAtMostOne` say when and how much. `TenTo[n]` is 10^n as a recursive function. `FormatMinorUnits` is the way back to a string; below
10^-6 `toString` writes an exponent, which the pattern of the requests refuses.

### TradeHistory (trades.service.ts, cursor-pagination.ts, TradeHistoryPage.tsx)

Transactions begin (and take `created_at`) and commit in any order; each client reads one
traversal, page by page, with a cursor that is truncated to the millisecond. `Newest` is `ORDER BY`
with `LIMIT`, by rank: the row at place `i` is the one that `i - 1` others are newer than.

### Provisioning (db/migrate.ts, db/seed.ts, api-key-auth.guard.ts)

The rows of `clients`, `balances` and `ledger_entries` that the seed writes: `db` is committed,
`tx[r]` is what run `r` has inserted, `at[r]` is where it is or what it printed. The conflict
clause of the client's insert waits for a rival that has not ended, then skips. A run may fail at
any statement, be killed, or lose the answer to its COMMIT. `guard[q]` is a request on its way
through `canActivate` (the read of all clients, one comparison after another) to `getBalances`;
`good` is history, whether the key was valid when the request was made.

### The web client (apps/web)

`TradingApi` is the API seen from outside: the quotes of `QuoteLife`, the trades by quote and
key, and the balances as a version number that every commit increases. `ApiHold`, `ApiSettle` and
`ApiAnswer` are what an attempt may meet, as TradeExecution describes it.

`BalanceLine` is the state that both pages have: the balances on the page (`shown`) and one
request per trigger (`reads`, whose value is the version that was current when it was sent; the
answer is any version since). `due` is history: what the page has reason to show.

`QuotesPage`: `page` is what the component keeps in its state and its ref, `making` and `paying`
are its two requests, each with the answer on its way back; clicks, ticks, answers and the loss
of answers come in any order. What a continuation sets is rendered in a later task: until
`Render` the button still belongs to the former quote (`drawn`) while the ref holds the new key,
and a click in between sends the one with the other. An execution whose answer was lost, or left
behind by a tab change, is `abandoned` and may still succeed. `overlap` is history. The currency
selects and what is typed change nothing but the fields, from which no quote that is asked for or
shown is read again, so the module has no fields.

`BalancesPage` has a refresh and a deposit, each disabled during its own request only. A deposit
whose answer was lost may be made anyway (`orphans`), as may the second one that is submitted in
its place.

`WebApp` composes them: a tab change unmounts the page, drops its answers and mounts the next,
and the API goes on (`Background`). The tabs of prices and history are `"another"`.

## 3. The runs

| Run | Configuration | Shows |
| --- | --- | --- |
| `trade_safety` | `TradeExecution.cfg` | all safety properties of trades, deposits and ledger, the inductive invariant, who can be in a deadlock, and the refinements of Settlement and QuoteLife |
| `trade_progress` | `TradeLiveness.cfg` | every request completes: out of cycles of waits, after an overflow, when there are more than connections, and when they meet at the quote row, at the unique index and in the lookup after a lost race; a late retry replays |
| `quote_cache` | `QuoteCache.cfg` | what a stale or late copy can and cannot do, and that it goes away |
| `price_feed` | `PriceFeed.cfg` | how old a frozen price, how late an answer |
| `money` | `Money.cfg` | amounts against exact arithmetic, and which shown amounts can be sent back |
| `trade_history` | `TradeHistory.cfg` | pages are ordered and disjoint; what can be missed |
| `web_app` | `WebApp.cfg` | a retry goes under the key the quote was executed with, a trade on the page is real, only an overlap (of an execution with the making of a quote, or a click before the rendering) confuses the trade of one quote with another, and balances are those the page has reason to show unless requests overlapped or were lost |
| `provisioning` | `Provisioning.cfg` | one client or none, funded when visible, truthful reports, and the key opens what belongs to it |

Four runs check what a comment or the README of the repository says and find it violated; each
is a finding in `PROJECT.json`:

| Run | Claim | What happens |
| --- | --- | --- |
| `trade_lock_cycle` | `lockBalanceRows` prevents deadlock | its INSERT takes missing rows in role order; `CycleMembersAreDoomed` shows that only trades without funds can be hit |
| `trade_retry` | a retry is safe to replay | a *concurrent* retry waits for the quote row and answers 409; money is safe, the answer is not the trade |
| `quote_cache_stale` | no ACTIVE copy outlives the execution | after the first copy was evicted, or its SET failed, a GET that read the row before the commit writes its copy after the invalidation |
| `trade_history_skips` | ties within a millisecond never skip a row | the cursor has milliseconds, the column microseconds |

Four more disagreements are in the models without a run of their own. `QuoteCache!ReadCache`: a
cached value that is valid JSON of another shape throws in `deserializeQuote`, outside `failSoft`,
so the request answers 500, where `redis/redis.service.ts:12` promises a miss, and
`common/assert-owned-by-client.ts:5` promises a stranger the 404 of an unknown id.
`QuotesPage!QuoteArrives`: the answer of a `createQuote` that was under way when the fields were
swapped puts a quote of the former pair on the page, where `QuotesPage.tsx:94` says that such a
quote is cleared rather than carried over. `Money!ToMinorUnits`: the scaled amount is rounded to
20 digits before it is tested for being whole, so an amount with many leading digits and more
than 8 decimals is accepted as its rounding; `AcceptedAsWritten` holds for amounts of up to 20
digits only. `Money!QuoteAmount`: the rounding is not for the house where the product needs more
than 20 digits, as described above.

### Bounds

- *Trades*: three requests in `trade_safety`, so that two may race while a third retries,
  deposits or fills the pool of two connections; two opposite quotes of one client, two keys, a
  second client that knows the first quote. The client starts without any row: a deposit of
  2 USDT pays for the purchase and the purchase for the sale, so accounts come into being while
  they are locked, and 422, 404 and deadlocks occur as well as successes; `MaxMinor = 3` puts
  overflow in reach. Requests are symmetric there.
  `trade_progress` has no symmetry, as liveness requires, so a behaviour lives in one of two
  scenarios (`AtRows`, `AtKeys` of MCTradeExecution). `AtRows`: two requests among an execution
  that can be paid, two opposite ones over accounts that do not exist, so that cycles of waits
  happen and have to be broken, and a deposit after which the execution overflows
  (`MaxMinor = 2`). `AtKeys`: trades that share accounts meet at the balance rows before they
  meet at the index, and two requests do not fill a pool of two, so there are three, with one key
  on two quotes over four accounts, both of which can be paid. The second INSERT of a trade waits
  for the first and fails with 23505: bare, the loser looks for the trade of the winner; wrapped,
  it answers 500. One quote may lapse. Requests can change names: `InOrder` takes one of the orders in
  which they receive their calls. `trade_lock_cycle` and `trade_retry` have the quotes and the
  calls of the first scenario.
- *Quote cache*: one quote, its owner and a stranger, two GETs that repeat for ever, a life of
  two ticks, one late SET at a time. Quotes do not interact: each has its own row and key.
- *Prices*: a price lives 1 tick and a symbol 2, a request to Binance may take 2 and a Redis
  command or an INSERT 1, a late SET arrives up to 1 tick after its timeout and there is at most one; calls
  repeat for ever. `Fetched` after `Sample` separates the age of a price from the time of its
  arrival. The bound on the age is attained but for the last tick of a cached price, which Redis
  has dropped by then.
- *Money*: 3 digits and 1 decimal for 20 and 8, columns of 2 digits for 19 (one digit less than
  the precision, as in the code), exponents from 10^-1 on for 10^-7, so that the smallest amounts
  have one; amounts with up to 4 digits and 3 decimals, so that products
  and amounts exceed the precision by one and by more.
- *Web*: two quotes, so that one may be executed while the other is made and shown, its balance
  request and its abandoned attempts with it, and one deposit (with its orphan). Attempts for the
  same quote and key at the same stage are one member of `abandoned`: they can do the same.
- *Provisioning*: four runs, two under one key, one under another and one without, so that a
  third may start while one waits for another; two currencies, so that a transaction has a
  half-funded state; one request at a time, which asks for ever with each key and without.
- *History*: three trades, pages of one and two, three instants of which two share a
  millisecond.

Deadlock is checked in every run but that of Money, where a behaviour is one request. In
TradeExecution and TradeHistory a run that has nothing left to do stutters by `Terminated`, and by `AtRest` where a scenario leaves a request unused.

### Fairness

`TradeExecution!Fairness` is weak fairness of each request's own next step: the event loop and
Postgres go on with what they have started, and Postgres looks for deadlocks. No fairness is
assumed for clients, failures or crashes; none is needed stronger than weak, because a lock,
once free, is only taken by a request that will release it, and there are finitely many
requests. `QuoteCache!Fairness` is that time passes, that a command under way arrives or is lost
(the connection does not keep it for ever), and that a request that was received is worked on (a command on Redis or Postgres answers or times out); it is not assumed of
`createQuote` or the execution.

## 4. What is proved

TLAPS checks the theorems of eight modules, each for all constants that satisfy the named
assumptions of the module it is about: an inductive invariant, preserved by every action, and
the properties from it. Each invariant was checked by TLC on the instance of its run before it
was proved.

### TradeExecutionProofs

For any sets of clients, currencies (ordered as naturals), quotes, keys, requests and calls; any
positive terms with two different currencies per quote; any funding within the column; any pool.
`Reqs` need not even be finite.

The inductive invariant `IInv` is `TypeOK` with

- `RequestsOK`: a request past a point asked for what takes it there, and has no reply before it
  is done;
- `Holds(r)`: from the statement that took a lock to the end of the transaction the quote row
  (`QuoteHeld`) and the balance rows (`RowsHeld`) are still owned, and what the checks found is
  still so: the quote is ACTIVE and its owner's, the balance covers the pending debit and the
  pending credit fits (`FundsHeld`). `WritesOK` says exactly what is pending at each statement;
- `KeyHeld`: whoever has passed the unique index is alone with its key, committed or pending;
- `StoreOK`: every committed row that names a request was committed by it (`RowsSayTheTruth`),
  the entries of a trade are its two legs (`LedgerOK`), an EXECUTED quote has its trade
  (`StatusOK`), with `Solvent` and `KeyNamesOneTrade` themselves.

None of the goals is inductive alone. `Solvent`, for one, needs to know at COMMIT that the funds
found by `Debit` are still there, which is `FundsHeld`, which needs the row locks, which need
that another transaction's `Publish` touches only rows it owns. The proof has one lemma for each
statement that changes what is pending (`LockStep`, `DebitStep`, `CreditStep`, `InsertStep`,
`MarkStep`), one for COMMIT (`PublishStep`) and one each for ending and for being outside a
transaction; `IInvStep` assembles them over `Next`.

| Theorem | Statement |
| --- | --- |
| `Invariance` | `Spec => []IInv` |
| `Typing`, `Solvency`, `KeyUniqueness` | conjuncts of `IInv` |
| `Bookkeeping`, `SingleExecution`, `CleanRefusals` | consequences of `IInv` |
| `Durability` | `Spec => []SuccessIsBacked`, from `IInv` strengthened by `Answerable` |
| `Expiry` | the action property `LapsedQuoteStaysUnexecuted` |
| `Refinement` | `Spec => Settled!Spec`: `Publish` maps to `Execute` or `Deposit`, `CreateQuote` to itself, every other step to a stutter |
| `Lifecycle` | `Spec => ImplementsQuoteLife`, from `IInv` and `OwnersOK`: only a trade that has the quote of its own call owns a quote row |

### QuoteCacheProofs

For any clients, quotes, owners, concurrent requests, lifetime, outages and corruptions. `IInv` is
`RowsOK` (the row exists once its insert is done, and is ACTIVE while it is held), `CacheOK` (a
copy and a late SET have a lifetime, and say EXECUTED only of a row that is) and `GetsOK` (the
same of what a request has read and answers, and what it may still do). `ExecutedIsNeverPremature`
alone is not inductive: a request between its read and its fill carries the status from one store
to the other.

| Theorem | Statement |
| --- | --- |
| `Invariance`, `Typing` | `Spec => []IInv`, and `TypeOK` from it |
| `NotPremature` | `ExecutedIsNeverPremature` |
| `Punctuality` | the action property `LapsedIsNeverShownActive`: `toQuoteResponse` compares with the clock at the answer |

### ProvisioningProofs

For any runs, keys, currencies and requests, and any assignment of keys to runs. `IInv` is the
four properties with `RunsOK` (one run at a time has rows of its own, and no client is committed
meanwhile) and `GuardOK` (what a request has read of the clients stays true, as they are neither
changed nor deleted).

| Theorem | Statement |
| --- | --- |
| `Invariance`, `Typing` | `Spec => []IInv`, and `TypeOK` from it |
| `SingleClient`, `Reports`, `Admission` | `OneFundedClient`, `ReportsAreTrue`, `KeyOpensItsClient` |

### LedgerProofs

The two results about TradeExecution that count. No induction theorem of the library can be used
here (they take the property as a parameter), so a property of all finite sets is proved by
looking at a smallest set without it (`Smallest`, from the well-foundedness of inclusion), and a
property of numbers by looking at a smallest number (`SmallestNumber`).

- `Conservation`. `Total(S)`, the fold that `BalanceIsLedgerSum` uses, adds an element by adding
  its delta, in whatever order the fold picks them (`AnyOrder`, `TotalWith`). The invariant
  `SumsOK` (an account has finitely many entries, which add up to its balance) is preserved by
  each indivisible step of `Settlement`; with `Refinement` it holds in TradeExecution. The
  entries of a commit are new because their `ref` is the request, which commits once.
- `DeadlocksAreDoomed`. The invariant `LocksOK` says that a balance row is owned only by a
  transaction that needs it, and that of its two rows a request has locked the first one to be
  locked: by currency where both are committed, the debit's where it inserts both, the inserted
  one where it inserts one. Every member of a cycle waits at `lockBalanceRows` for one of its
  rows and is waited for on the other (`CycleAtRows`), which rules out the quote row and the
  unique index. Where the row a member waits for is committed, so is the next one around the
  cycle, and it has a greater currency; a finite cycle cannot go on like that, so none of these
  rows is committed, and then each member is waited for on the row it debits (`Doomed`).

| Theorem | Statement |
| --- | --- |
| `Conservation` | `Spec => []BalanceIsLedgerSum` |
| `DeadlocksAreDoomed` | `Spec => []CycleMembersAreDoomed` |

### WebAppProofs

For any number of quotes and deposits. `IInv` is the conjunction of: `ShapeOK`; `AttemptsOK` (a
held quote is held by one attempt, a trade's quote is EXECUTED); `PairsOK` (no attempt and no
trade names a quote that is still being made; those of the current quote have its key, and those
that have its key are for it, unless a click hit the quote that was drawn before); `PageOK` and `AnswerOK` (what the page shows and what an answer
on its way says is so); `HonestOK`; `LineOK` (of the balance requests under way at most one is
due, and none has a version older than what is due); `FundsOK` (the version of the balances is
paid for by trades and deposits). `RetriesAreRecognised` speaks of trades and alone is not
inductive: an attempt that nobody waits for any more could become a trade of the current quote
under another key, or name the quote that is being made; `PairsOK` excludes both. The exception
is real: the button that is still drawn sends the former quote with the new key, and when that
has bought the former quote, the API answers 409 to the new quote under the same key.

| Theorem | Statement |
| --- | --- |
| `TypesOK` | `TypeOK` of the composition |
| `RetriesAreSafe`, `ShownTradesHappened` | `RetriesAreRecognised`, `ShownTradeHappened` |
| `HonestPage`, `FreshBalances` | `HonestUnlessOverlapped`, `ShownBalanceIsFresh` |

### PriceFeedProofs

For any positive lifetimes and timeouts and any calls. `IInv` gives each stage a budget of ticks: age
and remaining life of a cached price together are bounded (`EntryOK`), the age of a price on its
way is bounded by the stage it is in and that stage's timer (`LookupOK`, `LateOK`), and so is
what a call has spent on its lookups (`SpentOK`) and since it froze its price (`MadeOK`). `Tick` uses one unit of each budget, and every other step
passes on what is left.

| Theorem | Statement |
| --- | --- |
| `TypesOK` | `TypeOK` |
| `PricesAreRecent`, `CallsEndInTime` | `PriceAgeIsBounded`, `AnswersInTime` |

### TradeHistoryProofs

For any clients, trades, limits, instants and number of microseconds to a millisecond. First
`Newest` is shown to be what it is meant to be (`Ranks`: ranks are distinct and leave no gap,
because an injection of a finite set into one of its size is onto; `NewestIs`: a sorted sequence,
and what it leaves out is older than all of it), then `Page`. `IInv` says that what is shown is
the client's and sorted, that a cursor is that of the last row shown, and that a trade known from
the start is shown, or missed within the millisecond of the end of a page, or still past the
cursor (`KnownOK`); the last page leaves nothing past the cursor. Commits only add rows, which
disturbs none of it.

| Theorem | Statement |
| --- | --- |
| `TypesOK` | `TypeOK` |
| `PagesAreInOrder`, `MissesAreClose` | `NewestFirstOnce`, `MissesAreWithinAMillisecond` |

### MoneyProofs

For any precision and any number of decimals, any amounts and prices, any column whose largest
value has no more digits than the precision, and any `toExpNeg` no further from zero than the
decimals. The provers know nothing about powers, and the
induction theorems of the library cannot be instantiated here, so the laws of `TenTo` come first,
each by looking at a smallest number of which it would not hold: that the recursive definition
has a solution (`PowersExist`, `PowersAgree`, `TenToIs`), then `PowerOfSum` and `PowersGrow`.

Then what each operation returns, as inequalities: `FloorIs`, `CeilingIs`, `HalfUpIs`,
`ExcessIs` (the digits in excess exist and are unique), `FinaliseIs`, `UnitsAre`. `RoundedTwice`
is the heart: rounding to the nearest and then to a multiple differs from rounding to the multiple
at once by a unit at most, and towards which side. `QuoteAmountIs` puts them together. Where the
first rounding drops more digits than the price has decimals the error could be larger, but then
the amount has more digits than the precision, so no column takes it. `IInv` says that what a
success has stored is `ToMinorUnits` and `QuoteAmount` of the request.

| Theorem | Statement |
| --- | --- |
| `TypesOK` | `TypeOK` |
| `ForTheHouse`, `OneUnitAtMost` | `RoundedForTheHouseWhenItFits`, `OffByAtMostOne` |
| `AsWritten`, `ReadsBack` | `AcceptedAsWritten`, `ShownAmountReadsBack` |

### Only model-checked

Liveness under fairness, which TLAPS cannot prove: `EveryRequestCompletes`, `LateRetryReplays`,
`StaleCopyHeals`. Every invariant, refinement and other action property that a passing run
checks is also a theorem.

## 5. What is not modelled

- The currency and amount fields of the quotes page. A select or an amount changes its field and
  nothing else: a quote that is shown names its own pair and amounts, and one that is asked for has
  been sent with them; that the fields beside it may come to name another pair is what the page
  does, and no property is about it. The prices page, whose button allows one lookup at a time, and the history
  page beyond its traversal.
- Request validation: requests come well formed, as the pipes let them through. Health check,
  bootstrap and error filter keep no state; the filter is the 500 of an unexpected exception.
- Shutdown. The pool is closed and Redis disconnected while requests may be served; to each of
  them that is a statement that fails, which the modules have everywhere.
- Several SETs in flight after their timeouts, and clocks that differ between processes.
- The seed in the models of trades: its result, a funded client, is their `Init`.

## 6. Plan

1. Done: TradeExecution with Settlement, QuoteCache with late SETs, QuoteLife implemented by
   TradeExecution, Money in both directions, TradeHistory, PriceFeed, Provisioning, the web client; proofs
   of all the safety properties.
2. That TradeExecution implements `TradingApi`, which the web client is composed with and which is
   so far translated from it by hand.
3. The fields of the quotes page (pair, amounts, who typed last).
