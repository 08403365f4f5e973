--------------------------- MODULE TradeExecution ---------------------------
(***************************************************************************)
(* TradingService.executeTrade and BalancesService.createDeposit, run by   *)
(* any number of concurrent HTTP requests over one Postgres database.      *)
(*                                                                         *)
(* Every SQL statement that can block, fail or be seen by another          *)
(* transaction is a step of its own.  Transactions are READ COMMITTED: a   *)
(* statement sees what is committed and what its own transaction wrote     *)
(* (tx[r], applied by COMMIT), and row locks are held to the end of the    *)
(* transaction (quoteOwner, rowOwner).  A retry is simply another request  *)
(* with the same call.                                                     *)
(***************************************************************************)
EXTENDS FxData, FiniteSetsExt

CONSTANTS
    PoolSize,       \* connections in the pg Pool
    ErrorShapes     \* how a 23505 may reach isUniqueViolation

ASSUME PoolAssumption == PoolSize \in Nat \ {0}
ASSUME ShapesAssumption == ErrorShapes \subseteq {"bare", "wrapped"}

VARIABLES
    (* committed rows *)
    quoteStatus,    \* quotes.status, "ABSENT" before the row exists
    expired,        \* the quotes whose expires_at has passed
    rows,           \* the accounts that have a balances row
    balance,        \* balances.available_minor
    ledger,         \* ledger_entries
    trades,         \* trades
    (* row locks; an owned account outside rows is an uncommitted insert *)
    quoteOwner, rowOwner,
    (* requests *)
    pc, req, tx, reply

store == <<quoteStatus, rows, balance, ledger, trades>>
locks == <<quoteOwner, rowOwner>>
vars == <<store, expired, locks, pc, req, tx, reply>>

NoCall == [kind |-> "none"]
NoReply == [code |-> 0, trade |-> NoReq]
EmptyTx == [pend |-> [a \in Accounts |-> 0], entries |-> {}, trade |-> {},
            executed |-> {}]

InTx == {"quote", "rows", "debit", "credit", "trade", "mark", "commit"}
PCs == InTx \cup {"idle", "lookup", "begin", "raced", "respond", "done"}
Codes == {0, 200, 201, 404, 409, 410, 422, 500}

Init ==
    /\ quoteStatus = [q \in QuoteIds |-> "ABSENT"]
    /\ expired = {}
    /\ rows = FundedAccounts
    /\ balance = Funding
    /\ ledger = SeedEntries
    /\ trades = {}
    /\ quoteOwner = [q \in QuoteIds |-> NoReq]
    /\ rowOwner = [a \in Accounts |-> NoReq]
    /\ pc = [r \in Reqs |-> "idle"]
    /\ req = [r \in Reqs |-> NoCall]
    /\ tx = [r \in Reqs |-> EmptyTx]
    /\ reply = [r \in Reqs |-> NoReply]

-----------------------------------------------------------------------------
(* Requests, replies and the ends of a transaction.                        *)

IsTrade(r) == req[r].kind = "trade"

Goto(r, label) == pc' = [pc EXCEPT ![r] = label]

Finish(r, code, id) ==
    /\ Goto(r, "done")
    /\ reply' = [reply EXCEPT ![r] = [code |-> code, trade |-> id]]

\* Bug: the lookup of the catch asks the pool while the transaction's own
\* connection has not been given back.
FreeConnectionKept ==
    Cardinality({r \in Reqs : pc[r] \in InTx \cup {"raced"}}) < PoolSize

\* A transaction holds its connection from BEGIN to its end.
FreeConnection == Cardinality({r \in Reqs : pc[r] \in InTx}) < PoolSize

Without(owner, gone) ==
    [x \in DOMAIN owner |-> IF owner[x] \in gone THEN NoReq ELSE owner[x]]

\* The end of the transactions of the requests in gone: locks are released
\* and what they wrote is no longer pending.
EndTx(gone) ==
    /\ quoteOwner' = Without(quoteOwner, gone)
    /\ rowOwner' = Without(rowOwner, gone)
    /\ tx' = [r \in Reqs |-> IF r \in gone THEN EmptyTx ELSE tx[r]]

\* An exception leaves the callback: db.transaction() rolls back, rethrows.
Rollback(r, code) ==
    /\ EndTx({r})
    /\ Finish(r, code, NoReq)
    /\ UNCHANGED <<store, expired, req>>

\* Bug: the ledger row of a credit is forgotten.
MoveUnbooked(r, entry) ==
    tx' = [tx EXCEPT ![r].pend[entry.account] = @ + entry.delta,
                     ![r].entries = IF entry.delta < 0 THEN @ \cup {entry}
                                                       ELSE @]

\* An UPDATE of balances and its ledger_entries row, both in the transaction.
Move(r, entry) ==
    tx' = [tx EXCEPT ![r].pend[entry.account] = @ + entry.delta,
                     ![r].entries = @ \cup {entry}]

-----------------------------------------------------------------------------
(* The environment: quotes appear and lapse, clients send requests.        *)

CreateQuote(q) ==
    /\ quoteStatus[q] = "ABSENT"
    /\ quoteStatus' = [quoteStatus EXCEPT ![q] = "ACTIVE"]
    /\ UNCHANGED <<expired, rows, balance, ledger, trades, locks, pc, req, tx,
                   reply>>

\* Bug: a background job persists the expiry as a status.
ExpireInRow(q) ==
    /\ quoteStatus[q] = "ACTIVE"
    /\ quoteStatus' = [quoteStatus EXCEPT ![q] = "EXPIRED"]
    /\ expired' = expired \cup {q}
    /\ UNCHANGED <<rows, balance, ledger, trades, locks, pc, req, tx, reply>>

Expire(q) ==
    /\ quoteStatus[q] # "ABSENT"
    /\ q \notin expired
    /\ expired' = expired \cup {q}
    /\ UNCHANGED <<store, locks, pc, req, tx, reply>>

Receive(r, call) ==
    /\ pc[r] = "idle"
    /\ req' = [req EXCEPT ![r] = call]
    /\ Goto(r, IF call.kind = "trade" THEN "lookup" ELSE "begin")
    /\ UNCHANGED <<store, expired, locks, tx, reply>>

-----------------------------------------------------------------------------
(* executeTrade, outside its transaction.                                  *)

SameKey(t, r) == t.client = req[r].client /\ t.key = req[r].key

\* findByIdempotencyKey
Existing(r) == {t \in trades : SameKey(t, r)}

\* Bug: the quote of a replayed trade is not compared.
ReplayAnything(r, t) == Finish(r, 200, t.id)

ReplayOrConflict(r, t) ==
    IF t.quote = req[r].quote THEN Finish(r, 200, t.id)
                              ELSE Finish(r, 409, NoReq)

\* Bug: no fast path.
LookupSkipped(r) ==
    /\ pc[r] = "lookup"
    /\ Goto(r, "begin")
    /\ UNCHANGED <<store, expired, locks, req, tx, reply>>

\* The fast path, before the transaction.
Lookup(r) ==
    /\ pc[r] = "lookup"
    /\ FreeConnection
    /\ \/ \E t \in Existing(r) : ReplayOrConflict(r, t)
       \/ Existing(r) = {} /\ Goto(r, "begin") /\ UNCHANGED reply
    /\ UNCHANGED <<store, expired, locks, req, tx>>

Begin(r) ==
    /\ pc[r] = "begin"
    /\ FreeConnection
    /\ Goto(r, IF IsTrade(r) THEN "quote" ELSE "rows")
    /\ UNCHANGED <<store, expired, locks, req, tx, reply>>

\* The lookup after a lost race on the idempotency key.
RacedLookup(r) ==
    /\ pc[r] = "raced"
    /\ FreeConnection
    /\ \/ \E t \in Existing(r) : ReplayOrConflict(r, t)
       \/ Existing(r) = {} /\ Finish(r, 500, NoReq)
    /\ UNCHANGED <<store, expired, locks, req, tx>>

\* A trade drops the cached quote (Redis errors are swallowed) and answers;
\* a deposit reads the balances back and answers.
Respond(r) ==
    /\ pc[r] = "respond"
    /\ IsTrade(r) \/ FreeConnection
    /\ Finish(r, 201, IF IsTrade(r) THEN r ELSE NoReq)
    /\ UNCHANGED <<store, expired, locks, req, tx>>

-----------------------------------------------------------------------------
(* executeWithinTransaction.                                               *)

\* Bug: whoever knows a quote's id may trade on it.
RefusalOfNobody(r) ==
    LET q == req[r].quote IN
    CASE quoteStatus[q] = "ABSENT" -> 404
      [] quoteStatus[q] = "EXECUTED" -> 409
      [] q \in expired -> 410
      [] OTHER -> 0

\* Bug: expiry is left to the quote's reader.
RefusalOfSettled(r) ==
    LET q == req[r].quote IN
    CASE quoteStatus[q] = "ABSENT" \/ Terms[q].client # req[r].client -> 404
      [] quoteStatus[q] = "EXECUTED" -> 409
      [] OTHER -> 0

\* Why the locked quote may not be executed, in the order of the checks.
Refusal(r) ==
    LET q == req[r].quote IN
    CASE quoteStatus[q] = "ABSENT" \/ Terms[q].client # req[r].client -> 404
      [] quoteStatus[q] = "EXECUTED" -> 409
      [] q \in expired -> 410
      [] OTHER -> 0

\* SELECT ... FOR UPDATE of the quote and the checks on what it returned.
LockQuote(r) ==
    /\ pc[r] = "quote"
    /\ quoteOwner[req[r].quote] = NoReq
    /\ \/ Refusal(r) # 0 /\ Rollback(r, Refusal(r))
       \/ /\ Refusal(r) = 0
          /\ quoteOwner' = [quoteOwner EXCEPT ![req[r].quote] = r]
          /\ Goto(r, "rows")
          /\ UNCHANGED <<store, expired, rowOwner, req, tx, reply>>

\* The currencies handed to lockBalanceRows, in the order of the array.
CurrencyAt(r, i) ==
    IF ~IsTrade(r) THEN req[r].currency
    ELSE IF i = 1 THEN DebitCurrency(req[r].quote)
                  ELSE CreditCurrency(req[r].quote)

AccountAt(r, i) == <<req[r].client, CurrencyAt(r, i)>>
Needed(r) == {AccountAt(r, i) : i \in 1 .. 2}

\* Bug: ON CONFLICT DO UPDATE, which locks the rows it finds.
MissingOrFound(r) == {a \in Needed(r) : rowOwner[a] # r}

\* Rows the INSERT ... ON CONFLICT DO NOTHING still has to create: it goes
\* through its VALUES in the order of the array.
Missing(r) == {a \in Needed(r) : a \notin rows /\ rowOwner[a] # r}
FirstMissing(r) ==
    AccountAt(r, IF AccountAt(r, 1) \in Missing(r) THEN 1 ELSE 2)

\* Rows the SELECT ... ORDER BY currency FOR UPDATE still has to lock.
Unlocked(r) == {a \in Needed(r) : rowOwner[a] # r}
LeastUnlocked(r) ==
    CHOOSE a \in Unlocked(r) : \A b \in Unlocked(r) : a[2] <= b[2]

Take(r, a) ==
    /\ rowOwner[a] = NoReq
    /\ rowOwner' = [rowOwner EXCEPT ![a] = r]
    /\ UNCHANGED <<store, expired, quoteOwner, pc, req, tx, reply>>

\* A conflicting insert of another transaction is waited for, then re-tried.
InsertRow(r) ==
    /\ pc[r] = "rows"
    /\ Missing(r) # {}
    /\ Take(r, FirstMissing(r))

LockRow(r) ==
    /\ pc[r] = "rows"
    /\ Missing(r) = {}
    /\ Unlocked(r) # {}
    /\ Take(r, LeastUnlocked(r))

RowsLocked(r) ==
    /\ pc[r] = "rows"
    /\ Unlocked(r) = {}
    /\ Goto(r, IF IsTrade(r) THEN "debit" ELSE "credit")
    /\ UNCHANGED <<store, expired, locks, req, tx, reply>>

\* available_minor as the statements of r see it
Available(r, a) == balance[a] + tx[r].pend[a]

\* Bug: the UPDATE is not guarded.
DebitUnguarded(r) ==
    /\ pc[r] = "debit"
    /\ Move(r, DebitEntry(req[r].client, req[r].quote, r))
    /\ Goto(r, "credit")
    /\ UNCHANGED <<store, expired, locks, req, reply>>

\* Bug: the ledger row is inserted through this.db, outside the transaction.
DebitBookedOutside(r) ==
    LET entry == DebitEntry(req[r].client, req[r].quote, r) IN
    /\ pc[r] = "debit"
    /\ Available(r, entry.account) + entry.delta >= 0
    /\ tx' = [tx EXCEPT ![r].pend[entry.account] = @ + entry.delta]
    /\ ledger' = ledger \cup {entry}
    /\ Goto(r, "credit")
    /\ UNCHANGED <<quoteStatus, rows, balance, trades, expired, locks, req,
                   reply>>

\* UPDATE ... WHERE available_minor >= amount, then the ledger row.
Debit(r) ==
    LET entry == DebitEntry(req[r].client, req[r].quote, r) IN
    /\ pc[r] = "debit"
    /\ IF Available(r, entry.account) + entry.delta >= 0
       THEN /\ Move(r, entry)
            /\ Goto(r, "credit")
            /\ UNCHANGED <<store, expired, locks, req, reply>>
       ELSE Rollback(r, 422)

\* Bug: the debited amount is credited.
CreditOfDebit(r) ==
    IF IsTrade(r)
    THEN Entry(<<req[r].client, CreditCurrency(req[r].quote)>>,
               DebitMinor(req[r].quote), "TRADE", r)
    ELSE Entry(AccountAt(r, 1), req[r].minor, "DEPOSIT", r)

CreditOf(r) ==
    IF IsTrade(r)
    THEN CreditEntry(req[r].client, req[r].quote, r)
    ELSE Entry(AccountAt(r, 1), req[r].minor, "DEPOSIT", r)

\* The upsert, which overflows the bigint column beyond MaxMinor.
Credit(r) ==
    LET entry == CreditOf(r) IN
    /\ pc[r] = "credit"
    /\ IF Available(r, entry.account) + entry.delta <= MaxMinor
       THEN /\ Move(r, entry)
            /\ Goto(r, IF IsTrade(r) THEN "trade" ELSE "commit")
            /\ UNCHANGED <<store, expired, locks, req, reply>>
       ELSE Rollback(r, 500)

\* The two unique indexes of trades.
SameQuote(t, r) == t.quote = req[r].quote
\* Bug: no unique index on (client_id, idempotency_key).
ClashOnQuote(t, r) == SameQuote(t, r)
Clash(t, r) == SameQuote(t, r) \/ SameKey(t, r)

\* Transactions whose uncommitted trade makes the insert of r wait.
Rivals(r) == {s \in Reqs \ {r} : \E t \in tx[s].trade : Clash(t, r)}

\* 23505: isUniqueViolation reads code and constraint off the error itself,
\* so an error that wraps the driver's is rethrown.
UniqueViolation(r, shape) ==
    IF shape = "wrapped" THEN Rollback(r, 500)
    ELSE IF \E t \in trades : SameQuote(t, r) THEN Rollback(r, 409)
    ELSE /\ EndTx({r})
         /\ Goto(r, "raced")
         /\ UNCHANGED <<store, expired, req, reply>>

InsertTrade(r) ==
    /\ pc[r] = "trade"
    /\ Rivals(r) = {}
    /\ IF \E t \in trades : Clash(t, r)
       THEN \E shape \in ErrorShapes : UniqueViolation(r, shape)
       ELSE /\ tx' = [tx EXCEPT ![r].trade =
                        {Trade(r, req[r].client, req[r].quote, req[r].key)}]
            /\ Goto(r, "mark")
            /\ UNCHANGED <<store, expired, locks, req, reply>>

\* Bug: the status is flipped through this.db, outside the transaction.
MarkExecutedOutside(r) ==
    /\ pc[r] = "mark"
    /\ quoteStatus' = [quoteStatus EXCEPT ![req[r].quote] = "EXECUTED"]
    /\ Goto(r, "commit")
    /\ UNCHANGED <<rows, balance, ledger, trades, expired, locks, req, tx, reply>>

\* UPDATE quotes SET status = 'EXECUTED'
MarkExecuted(r) ==
    /\ pc[r] = "mark"
    /\ tx' = [tx EXCEPT ![r].executed = {req[r].quote}]
    /\ Goto(r, "commit")
    /\ UNCHANGED <<store, expired, locks, req, reply>>

\* What COMMIT makes visible at once.
Publish(r) ==
    /\ quoteStatus' = [q \in QuoteIds |->
                         IF q \in tx[r].executed THEN "EXECUTED"
                                                 ELSE quoteStatus[q]]
    /\ rows' = rows \cup {a \in Accounts : rowOwner[a] = r}
    /\ balance' = [a \in Accounts |-> balance[a] + tx[r].pend[a]]
    /\ ledger' = ledger \cup tx[r].entries
    /\ trades' = trades \cup tx[r].trade
    /\ EndTx({r})

Commit(r) ==
    /\ pc[r] = "commit"
    /\ Publish(r)
    /\ Goto(r, "respond")
    /\ UNCHANGED <<expired, req, reply>>

-----------------------------------------------------------------------------
(* Failures.                                                               *)

\* The server commits but the answer to COMMIT is lost with the connection.
CommitAnswerLost(r) ==
    /\ pc[r] = "commit"
    /\ Publish(r)
    /\ Finish(r, 500, NoReq)
    /\ UNCHANGED <<expired, req>>

\* A statement fails: whatever was pending is rolled back, and the exception
\* filter answers 500.
DbError(r) ==
    /\ pc[r] \in InTx \cup {"lookup", "begin", "raced", "respond"}
    /\ pc[r] = "respond" => ~IsTrade(r)
    /\ Rollback(r, 500)

\* The transactions r waits for, at most one of them.
WaitsFor(r) ==
    (CASE pc[r] = "quote" -> {quoteOwner[req[r].quote]}
       [] pc[r] = "rows" /\ Missing(r) # {} -> {rowOwner[FirstMissing(r)]}
       [] pc[r] = "rows" /\ Missing(r) = {} /\ Unlocked(r) # {} ->
            {rowOwner[LeastUnlocked(r)]}
       [] pc[r] = "trade" -> Rivals(r)
       [] OTHER -> {}) \ {NoReq}

WaitCycle(C) == C # {} /\ UNION {WaitsFor(r) : r \in C} = C

\* Postgres breaks a cycle of waiting transactions by failing one of them.
DeadlockVictim(r) ==
    /\ WaitsFor(r) # {}
    /\ \E C \in SUBSET Reqs : r \in C /\ WaitCycle(C)
    /\ Rollback(r, 500)

\* The API process dies: Postgres rolls back what was in flight, and the
\* clients get no answer.
Crash ==
    LET inFlight == {r \in Reqs : pc[r] \notin {"idle", "done"}} IN
    /\ inFlight # {}
    /\ EndTx(inFlight)
    /\ pc' = [r \in Reqs |-> IF r \in inFlight THEN "done" ELSE pc[r]]
    /\ UNCHANGED <<store, expired, req, reply>>

-----------------------------------------------------------------------------
Progress(r) ==
    \/ Lookup(r) \/ Begin(r) \/ RacedLookup(r) \/ Respond(r)
    \/ LockQuote(r) \/ InsertRow(r) \/ LockRow(r) \/ RowsLocked(r)
    \/ Debit(r) \/ Credit(r) \/ InsertTrade(r) \/ MarkExecuted(r)
    \/ Commit(r) \/ DeadlockVictim(r)

Terminated == (\A r \in Reqs : pc[r] = "done") /\ UNCHANGED vars

Next ==
    \/ \E q \in QuoteIds : CreateQuote(q) \/ Expire(q)
    \/ \E r \in Reqs, call \in Calls : Receive(r, call)
    \/ \E r \in Reqs : Progress(r)
    \/ \E r \in Reqs : CommitAnswerLost(r) \/ DbError(r)
    \/ Crash
    \/ Terminated

Spec == Init /\ [][Next]_vars

\* Postgres and the event loop keep running what they have started and
\* Postgres looks for deadlocks; nobody is obliged to send, fail or crash.
Fairness == \A r \in Reqs : WF_vars(Progress(r))

FairSpec == Spec /\ Fairness

-----------------------------------------------------------------------------
(* Properties.                                                             *)

\* Every variable keeps its shape.
TypeOK ==
    /\ quoteStatus \in [QuoteIds -> {"ABSENT", "ACTIVE", "EXECUTED"}]
    /\ expired \in SUBSET QuoteIds
    /\ rows \in SUBSET Accounts
    /\ balance \in [Accounts -> Int]
    /\ ledger \subseteq LedgerEntries
    /\ trades \subseteq Trades
    /\ quoteOwner \in [QuoteIds -> Reqs \cup {NoReq}]
    /\ rowOwner \in [Accounts -> Reqs \cup {NoReq}]
    /\ pc \in [Reqs -> PCs]
    /\ req \in [Reqs -> Calls \cup {NoCall}]
    /\ tx \in [Reqs -> [pend: [Accounts -> Int],
                        entries: SUBSET LedgerEntries,
                        trade: SUBSET Trades,
                        executed: SUBSET QuoteIds]]
    /\ reply \in [Reqs -> [code: Codes, trade: Reqs \cup {NoReq}]]

\* The balances table is a cache of the ledger: whatever interleaves, fails
\* or crashes, a balance is the sum of its account's entries.
BalanceIsLedgerSum ==
    \A a \in Accounts :
        balance[a] = MapThenSumSet(LAMBDA e : e.delta,
                                   {e \in ledger : e.account = a})

\* No account is overdrawn and none exceeds its column, although amounts are
\* checked by one statement and written by another transaction's COMMIT.
Solvent == \A a \in Accounts : balance[a] \in 0 .. MaxMinor

\* A quote is EXECUTED exactly when one trade settled it, and never by two:
\* the flip of the status and the insert of the trade cannot come apart.
ExecutedOnce ==
    \A q \in QuoteIds :
        LET settled == {t \in trades : t.quote = q} IN
        /\ Cardinality(settled) <= 1
        /\ quoteStatus[q] = "EXECUTED" <=> settled # {}

\* A client's idempotency key never names two trades.
KeyNamesOneTrade ==
    \A t, u \in trades : t.client = u.client /\ t.key = u.key => t = u

\* Each trade is booked by exactly the debit and the credit its quote froze,
\* on its owner's accounts, and nothing else in the ledger claims a trade.
TradesAreBooked ==
    /\ \A t \in trades :
          LET owner == Terms[t.quote].client IN
          {e \in ledger : e.ref = t.id} = {DebitEntry(owner, t.quote, t.id),
                                          CreditEntry(owner, t.quote, t.id)}
    /\ \A e \in ledger : e.reason = "TRADE" => \E t \in trades : t.id = e.ref

\* A 2xx answer is backed by committed rows: a trade (whoever executed it)
\* made for this client, quote and key, or this request's own deposit.
SuccessIsBacked ==
    \A r \in Reqs : reply[r].code \in {200, 201} =>
        IF IsTrade(r)
        THEN \E t \in trades :
               /\ t.id = reply[r].trade /\ SameQuote(t, r) /\ SameKey(t, r)
               /\ reply[r].code = 201 <=> t.id = r
        ELSE CreditOf(r) \in ledger

\* A refused request has moved nothing, however far its transaction got.
RefusalLeavesNoTrace ==
    \A r \in Reqs : reply[r].code \in {404, 409, 410, 422} =>
        /\ \A e \in ledger : e.ref # r
        /\ \A t \in trades : t.id # r

\* Expiry is checked once, when the quote is locked: a trade may commit after
\* expires_at, but only one that held the quote before it.
LapsedQuoteStaysUnexecuted ==
    [][\A q \in expired :
         quoteStatus[q] = "ACTIVE" /\ quoteOwner[q] = NoReq
           => quoteStatus'[q] = "ACTIVE" /\ quoteOwner'[q] = NoReq]_vars

\* lockBalanceRows does not exclude deadlock, because its INSERT takes rows
\* in role order; but whoever is in a cycle is a trade on a debit account
\* that has no committed row, which could only have answered 422.
CycleMembersAreDoomed ==
    \A C \in SUBSET Reqs : WaitCycle(C) =>
        \A r \in C : IsTrade(r) /\ AccountAt(r, 1) \notin rows

\* Two transactions over the same currencies never wait for each other.
NoWaitCycle == \A C \in SUBSET Reqs : ~WaitCycle(C)

\* A retry is answered by the trade it repeats, never by a conflict.
RetryNeverConflicts ==
    \A r \in Reqs : pc[r] = "done" /\ reply[r].code = 409 =>
        ~ \E t \in trades : SameQuote(t, r) /\ SameKey(t, r)

\* Every request is answered or dies with the process: locks, the pool and
\* the waits for other transactions never hold one up for ever.
EveryRequestCompletes ==
    \A r \in Reqs : pc[r] # "idle" ~> pc[r] = "done"

\* A retry that starts after its trade committed is answered by that trade,
\* unless the database or the process fails.
LateRetryReplays ==
    \A r \in Reqs :
        /\ pc[r] = "lookup"
        /\ \E t \in trades : SameQuote(t, r) /\ SameKey(t, r)
        ~> /\ pc[r] = "done"
           /\ \/ reply[r].code \in {0, 500}
              \/ \E t \in trades : /\ SameQuote(t, r) /\ SameKey(t, r)
                                   /\ reply[r] = [code |-> 200, trade |-> t.id]

\* Seen through its committed rows, all of this is a sequence of indivisible
\* executions and deposits.
Settled == INSTANCE Settlement WITH
    quoteStatus <- quoteStatus, balance <- balance,
    ledger <- ledger, trades <- trades
ImplementsSettlement == Settled!Spec

\* A quote lives as QuoteLife says, whichever requests lock it, wait for it,
\* give it up or die with it: it is executed only by a transaction that took
\* its row before it lapsed.
Life == INSTANCE QuoteLife WITH
    Quotes <- QuoteIds, status <- quoteStatus, lapsed <- expired,
    held <- {q \in QuoteIds : quoteOwner[q] # NoReq}
ImplementsQuoteLife == Life!Spec
=============================================================================
