------------------------ MODULE TradeExecutionProofs ------------------------
(***************************************************************************)
(* Theorems about TradeExecution for every value of its constants.         *)
(***************************************************************************)
EXTENDS TradeInvariant, FiniteSetTheorems, TLAPS

\* What the constants contain.
LEMMA ConstantTypes ==
    /\ Funding \in [Accounts -> Int]
    /\ SeedEntries \subseteq LedgerEntries
    /\ EmptyTx \in [pend: [Accounts -> Int], entries: SUBSET LedgerEntries,
                    trade: SUBSET Trades, executed: SUBSET QuoteIds]
    /\ PositiveMinor \subseteq Int
<1>1. Funding \in [Accounts -> Int]
  BY FundingAssumption, MaxMinorAssumption
<1>2. SeedEntries \subseteq LedgerEntries
  BY <1>1 DEF SeedEntries, LedgerEntries, Entry, FundedAccounts
<1>3. EmptyTx \in [pend: [Accounts -> Int], entries: SUBSET LedgerEntries,
                   trade: SUBSET Trades, executed: SUBSET QuoteIds]
  BY DEF EmptyTx
<1>4. PositiveMinor \subseteq Int
  BY MaxMinorAssumption DEF PositiveMinor
<1> QED BY <1>1, <1>2, <1>3, <1>4

\* The legs of a quote are on currencies and amounts of the model.
LEMMA LegTypes ==
    ASSUME NEW q \in QuoteIds
    PROVE  /\ DebitCurrency(q) \in Currencies /\ CreditCurrency(q) \in Currencies
           /\ DebitCurrency(q) # CreditCurrency(q)
           /\ DebitMinor(q) \in PositiveMinor /\ CreditMinor(q) \in PositiveMinor
BY TermsAssumption
   DEF DebitCurrency, CreditCurrency, DebitMinor, CreditMinor, QuoteTerms

\* What the body of a request holds.
LEMMA CallTypes ==
    ASSUME NEW r \in Reqs, req[r] \in Calls
    PROVE  /\ req[r].client \in Clients
           /\ IsTrade(r) => req[r].quote \in QuoteIds /\ req[r].key \in Keys
           /\ ~IsTrade(r) =>
                req[r].currency \in Currencies /\ req[r].minor \in PositiveMinor
BY CallsAssumption DEF TradeCalls, DepositCalls, IsTrade

\* The accounts and the entries of a request.
LEMMA EntryTypes ==
    ASSUME NEW r \in Reqs, req[r] \in Calls
    PROVE  /\ AccountAt(r, 1) \in Accounts /\ AccountAt(r, 2) \in Accounts
           /\ Needed(r) = {AccountAt(r, 1), AccountAt(r, 2)}
           /\ CreditOf(r) \in LedgerEntries
           /\ IsTrade(r) =>
                /\ AccountAt(r, 1) # AccountAt(r, 2)
                /\ DebitEntry(req[r].client, req[r].quote, r) \in LedgerEntries
                /\ Trade(r, req[r].client, req[r].quote, req[r].key) \in Trades
<1>1. AccountAt(r, 1) \in Accounts /\ AccountAt(r, 2) \in Accounts
  BY CallTypes, LegTypes DEF AccountAt, CurrencyAt, Accounts
<1>2. Needed(r) = {AccountAt(r, 1), AccountAt(r, 2)}
  BY DEF Needed
<1>3. ASSUME IsTrade(r)
      PROVE  /\ AccountAt(r, 1) # AccountAt(r, 2)
             /\ CreditOf(r) \in LedgerEntries
             /\ DebitEntry(req[r].client, req[r].quote, r) \in LedgerEntries
             /\ Trade(r, req[r].client, req[r].quote, req[r].key) \in Trades
  <2> DEFINE q == req[r].quote
  <2>1. /\ req[r].client \in Clients /\ q \in QuoteIds /\ req[r].key \in Keys
    BY <1>3, CallTypes
  <2>2. /\ DebitCurrency(q) \in Currencies /\ CreditCurrency(q) \in Currencies
        /\ DebitCurrency(q) # CreditCurrency(q)
        /\ DebitMinor(q) \in Int /\ CreditMinor(q) \in Int
    BY <2>1, LegTypes, ConstantTypes
  <2>3. AccountAt(r, 1) # AccountAt(r, 2)
    BY <1>3, <2>2 DEF AccountAt, CurrencyAt
  <2>4. CreditOf(r) \in LedgerEntries
    BY <1>3, <2>1, <2>2 DEF CreditOf, CreditEntry, Entry, LedgerEntries, Accounts
  <2>5. DebitEntry(req[r].client, q, r) \in LedgerEntries
    BY <2>1, <2>2 DEF DebitEntry, Entry, LedgerEntries, Accounts
  <2>6. Trade(r, req[r].client, q, req[r].key) \in Trades
    BY <2>1 DEF Trade, Trades
  <2> QED BY <2>3, <2>4, <2>5, <2>6
<1>4. ASSUME ~IsTrade(r) PROVE CreditOf(r) \in LedgerEntries
  BY <1>1, <1>4, CallTypes, ConstantTypes DEF CreditOf, Entry, LedgerEntries
<1> QED BY <1>1, <1>2, <1>3, <1>4

\* The seeded database and the idle requests are well-typed.
THEOREM InitTyped == Init => TypeOK /\ RequestsOK
BY ConstantTypes
   DEF Init, TypeOK, RequestsOK, FundedAccounts, PCs, InTx, NoReply, Codes

\* The end of transactions keeps locks and write sets well-typed.
LEMMA EndTxTypes ==
    ASSUME TypeOK, NEW gone, EndTx(gone)
    PROVE  /\ quoteOwner' \in [QuoteIds -> Reqs \cup {NoReq}]
           /\ rowOwner' \in [Accounts -> Reqs \cup {NoReq}]
           /\ tx' \in [Reqs -> [pend: [Accounts -> Int],
                                entries: SUBSET LedgerEntries,
                                trade: SUBSET Trades,
                                executed: SUBSET QuoteIds]]
BY ConstantTypes DEF TypeOK, EndTx, Without

\* An exception in the callback ends its request in a well-typed state.
LEMMA RollbackTypes ==
    ASSUME TypeOK, RequestsOK, NEW r \in Reqs, NEW code \in Codes,
           pc[r] # "idle", Rollback(r, code)
    PROVE  TypeOK' /\ RequestsOK'
<1> USE DEF Rollback, Finish, Goto, store
<1>1. TypeOK'
  BY EndTxTypes DEF TypeOK, PCs
<1>2. RequestsOK'
  BY DEF TypeOK, RequestsOK, IsTrade
<1> QED BY <1>1, <1>2

\* A movement of a request adds a number and an entry to its write set.
LEMMA MoveTypes ==
    ASSUME TypeOK, NEW r \in Reqs, NEW e \in LedgerEntries, Move(r, e)
    PROVE  tx' \in [Reqs -> [pend: [Accounts -> Int],
                            entries: SUBSET LedgerEntries,
                            trade: SUBSET Trades,
                            executed: SUBSET QuoteIds]]
<1>1. /\ tx[r].pend \in [Accounts -> Int]
      /\ tx[r].entries \in SUBSET LedgerEntries
      /\ tx[r].trade \in SUBSET Trades
      /\ tx[r].executed \in SUBSET QuoteIds
  BY DEF TypeOK
<1>2. e.account \in Accounts /\ e.delta \in Int
  BY DEF LedgerEntries
<1>3. tx'[r].pend \in [Accounts -> Int]
  BY <1>1, <1>2 DEF Move, TypeOK
<1>4. tx'[r].entries \in SUBSET LedgerEntries
  BY <1>1 DEF Move, TypeOK
<1>5. tx'[r] \in [pend: [Accounts -> Int], entries: SUBSET LedgerEntries,
                 trade: SUBSET Trades, executed: SUBSET QuoteIds]
  <2> DEFINE w == [tx[r] EXCEPT !.pend = tx'[r].pend, !.entries = tx'[r].entries]
  <2>1. tx'[r] = w
    BY DEF Move, TypeOK
  <2>2. tx[r] \in [pend: [Accounts -> Int], entries: SUBSET LedgerEntries,
                  trade: SUBSET Trades, executed: SUBSET QuoteIds]
    BY DEF TypeOK
  <2> QED BY <1>3, <1>4, <2>1, <2>2
<1>6. \A s \in Reqs : s # r => tx'[s] = tx[s]
  BY DEF Move, TypeOK
<1>7. tx' = [s \in Reqs |-> tx'[s]]
  BY DEF Move, TypeOK
<1> QED BY <1>5, <1>6, <1>7 DEF TypeOK

\* A step moves one request between labels that make no new demand on it.
LEMMA GotoTyped ==
    ASSUME TypeOK, RequestsOK, NEW r \in Reqs, NEW l \in PCs,
           pc[r] \notin {"idle", "done"}, l \notin {"idle", "done"},
           l \in {"lookup", "quote", "debit", "trade", "mark", "raced"}
             => IsTrade(r),
           Goto(r, l), UNCHANGED <<req, reply>>
    PROVE  /\ pc' \in [Reqs -> PCs]
           /\ RequestsOK'
BY DEF TypeOK, RequestsOK, Goto, IsTrade

\* Answering a request outside a transaction keeps the types.
LEMMA FinishTyped ==
    ASSUME TypeOK, RequestsOK, NEW r \in Reqs, NEW code \in Codes,
           NEW id \in Reqs \cup {NoReq},
           pc[r] # "idle", Finish(r, code, id), UNCHANGED req
    PROVE  /\ pc' \in [Reqs -> PCs]
           /\ reply' \in [Reqs -> [code: Codes, trade: Reqs \cup {NoReq}]]
           /\ RequestsOK'
BY DEF TypeOK, RequestsOK, Finish, Goto, IsTrade, PCs

\* Every step of the service keeps the types and the calls of requests.
LEMMA TypedStep == TypeOK /\ RequestsOK /\ [Next]_vars => TypeOK' /\ RequestsOK'
<1> SUFFICES ASSUME TypeOK, RequestsOK, [Next]_vars
             PROVE  TypeOK' /\ RequestsOK'
  OBVIOUS
<1> USE DEF vars, store, locks
<1>1. ASSUME NEW q \in QuoteIds, CreateQuote(q) PROVE TypeOK' /\ RequestsOK'
  BY <1>1 DEF CreateQuote, TypeOK, RequestsOK, IsTrade
<1>2. ASSUME NEW q \in QuoteIds, Expire(q) PROVE TypeOK' /\ RequestsOK'
  BY <1>2 DEF Expire, TypeOK, RequestsOK, IsTrade
<1>3. ASSUME NEW r \in Reqs, NEW call \in Calls, Receive(r, call)
      PROVE  TypeOK' /\ RequestsOK'
  BY <1>3 DEF Receive, Goto, TypeOK, RequestsOK, IsTrade, PCs, InTx
<1>4. ASSUME NEW r \in Reqs, NEW t \in trades, pc[r] # "idle",
             ReplayOrConflict(r, t), UNCHANGED <<store, expired, locks, req, tx>>
      PROVE  TypeOK' /\ RequestsOK'
  <2>1. t.id \in Reqs
    BY DEF TypeOK, Trades
  <2>2. PICK code \in Codes, id \in Reqs \cup {NoReq} : Finish(r, code, id)
    BY <1>4, <2>1 DEF ReplayOrConflict, Codes
  <2> QED BY <1>4, <2>2, FinishTyped DEF TypeOK
<1>5. ASSUME NEW r \in Reqs, Lookup(r) PROVE TypeOK' /\ RequestsOK'
  <2>1. CASE \E t \in Existing(r) : ReplayOrConflict(r, t)
    BY <1>5, <2>1, <1>4 DEF Lookup, Existing
  <2>2. CASE Goto(r, "begin") /\ UNCHANGED reply
    BY <1>5, <2>2, GotoTyped DEF Lookup, TypeOK, PCs
  <2> QED BY <1>5, <2>1, <2>2 DEF Lookup
<1>6. ASSUME NEW r \in Reqs, RacedLookup(r) PROVE TypeOK' /\ RequestsOK'
  <2>1. CASE \E t \in Existing(r) : ReplayOrConflict(r, t)
    BY <1>6, <2>1, <1>4 DEF RacedLookup, Existing
  <2>2. CASE Finish(r, 500, NoReq)
    BY <1>6, <2>2, FinishTyped DEF RacedLookup, TypeOK, Codes
  <2> QED BY <1>6, <2>1, <2>2 DEF RacedLookup
<1>7. ASSUME NEW r \in Reqs, Begin(r) PROVE TypeOK' /\ RequestsOK'
  BY <1>7, GotoTyped DEF Begin, TypeOK, PCs, InTx
<1>8. ASSUME NEW r \in Reqs, Respond(r) PROVE TypeOK' /\ RequestsOK'
  BY <1>8, FinishTyped DEF Respond, TypeOK, Codes
<1>9. ASSUME NEW r \in Reqs, LockQuote(r) PROVE TypeOK' /\ RequestsOK'
  <2>1. CASE Rollback(r, Refusal(r))
    <3>1. Refusal(r) \in Codes
      BY DEF Refusal, Codes
    <3> QED BY <1>9, <2>1, <3>1, RollbackTypes DEF LockQuote
  <2>2. CASE /\ quoteOwner' = [quoteOwner EXCEPT ![req[r].quote] = r]
             /\ Goto(r, "rows")
             /\ UNCHANGED <<store, expired, rowOwner, req, tx, reply>>
    <3>1. pc' \in [Reqs -> PCs] /\ RequestsOK'
      BY <1>9, <2>2, GotoTyped DEF LockQuote, PCs, InTx
    <3> QED BY <2>2, <3>1 DEF TypeOK
  <2> QED BY <1>9, <2>1, <2>2 DEF LockQuote
<1>10. ASSUME NEW r \in Reqs, NEW a, Take(r, a) PROVE TypeOK' /\ RequestsOK'
  BY <1>10 DEF Take, TypeOK, RequestsOK, IsTrade
<1>11. ASSUME NEW r \in Reqs, RowsLocked(r) PROVE TypeOK' /\ RequestsOK'
  BY <1>11, GotoTyped DEF RowsLocked, TypeOK, PCs, InTx
<1>12. ASSUME NEW r \in Reqs, Debit(r) PROVE TypeOK' /\ RequestsOK'
  <2>1. IsTrade(r) /\ req[r] \in Calls
    BY <1>12 DEF Debit, RequestsOK
  <2>2. CASE Rollback(r, 422)
    BY <1>12, <2>2, RollbackTypes DEF Debit, Codes
  <2>3. CASE /\ Move(r, DebitEntry(req[r].client, req[r].quote, r))
             /\ Goto(r, "credit")
             /\ UNCHANGED <<store, expired, locks, req, reply>>
    BY <1>12, <2>1, <2>3, EntryTypes, MoveTypes, GotoTyped
       DEF Debit, TypeOK, PCs, InTx
  <2> QED BY <1>12, <2>2, <2>3 DEF Debit
<1>13. ASSUME NEW r \in Reqs, Credit(r) PROVE TypeOK' /\ RequestsOK'
  <2>1. req[r] \in Calls
    BY <1>13 DEF Credit, RequestsOK
  <2>2. CASE Rollback(r, 500)
    BY <1>13, <2>2, RollbackTypes DEF Credit, Codes
  <2>3. CASE /\ Move(r, CreditOf(r))
             /\ Goto(r, IF IsTrade(r) THEN "trade" ELSE "commit")
             /\ UNCHANGED <<store, expired, locks, req, reply>>
    <3>1. PICK l \in PCs : /\ Goto(r, l) /\ l \in {"trade", "commit"}
                           /\ l = "trade" => IsTrade(r)
      BY <2>3 DEF PCs, InTx
    <3>2. pc' \in [Reqs -> PCs] /\ RequestsOK'
      BY <1>13, <2>3, <3>1, GotoTyped DEF Credit
    <3> QED BY <2>1, <2>3, <3>2, EntryTypes, MoveTypes DEF TypeOK
  <2> QED BY <1>13, <2>2, <2>3 DEF Credit
<1>14. ASSUME NEW r \in Reqs, InsertTrade(r) PROVE TypeOK' /\ RequestsOK'
  <2>1. IsTrade(r) /\ req[r] \in Calls
    BY <1>14 DEF InsertTrade, RequestsOK
  <2>2. CASE \E shape \in ErrorShapes : UniqueViolation(r, shape)
    <3>1. CASE \E code \in {409, 500} : Rollback(r, code)
      BY <1>14, <3>1, RollbackTypes DEF InsertTrade, Codes
    <3>2. CASE /\ EndTx({r}) /\ Goto(r, "raced")
               /\ UNCHANGED <<store, expired, req, reply>>
      BY <1>14, <2>1, <3>2, EndTxTypes, GotoTyped DEF InsertTrade, TypeOK, PCs
    <3> QED BY <2>2, <3>1, <3>2 DEF UniqueViolation
  <2>3. CASE /\ tx' = [tx EXCEPT ![r].trade =
                        {Trade(r, req[r].client, req[r].quote, req[r].key)}]
             /\ Goto(r, "mark")
             /\ UNCHANGED <<store, expired, locks, req, reply>>
    <3>1. pc' \in [Reqs -> PCs] /\ RequestsOK'
      BY <1>14, <2>1, <2>3, GotoTyped DEF InsertTrade, PCs, InTx
    <3>2. Trade(r, req[r].client, req[r].quote, req[r].key) \in Trades
      BY <2>1, EntryTypes
    <3>3. tx' \in [Reqs -> [pend: [Accounts -> Int],
                            entries: SUBSET LedgerEntries,
                            trade: SUBSET Trades,
                            executed: SUBSET QuoteIds]]
      BY <2>3, <3>2 DEF TypeOK
    <3> QED BY <2>3, <3>1, <3>3 DEF TypeOK, store, locks
  <2> QED BY <1>14, <2>2, <2>3 DEF InsertTrade
<1>15. ASSUME NEW r \in Reqs, MarkExecuted(r) PROVE TypeOK' /\ RequestsOK'
  <2>1. req[r].quote \in QuoteIds
    BY <1>15, CallTypes DEF MarkExecuted, RequestsOK
  <2>2. pc' \in [Reqs -> PCs] /\ RequestsOK'
    BY <1>15, GotoTyped DEF MarkExecuted, PCs, InTx
  <2> QED BY <1>15, <2>1, <2>2 DEF MarkExecuted, TypeOK
<1>16. ASSUME NEW r \in Reqs, Publish(r)
       PROVE  /\ quoteStatus' \in [QuoteIds -> {"ABSENT", "ACTIVE", "EXECUTED"}]
              /\ rows' \in SUBSET Accounts
              /\ balance' \in [Accounts -> Int]
              /\ ledger' \subseteq LedgerEntries
              /\ trades' \subseteq Trades
              /\ quoteOwner' \in [QuoteIds -> Reqs \cup {NoReq}]
              /\ rowOwner' \in [Accounts -> Reqs \cup {NoReq}]
              /\ tx' \in [Reqs -> [pend: [Accounts -> Int],
                                   entries: SUBSET LedgerEntries,
                                   trade: SUBSET Trades,
                                   executed: SUBSET QuoteIds]]
  BY <1>16, EndTxTypes DEF Publish, TypeOK
<1>17. ASSUME NEW r \in Reqs, Commit(r) PROVE TypeOK' /\ RequestsOK'
  BY <1>17, <1>16, GotoTyped DEF Commit, TypeOK, PCs
<1>18. ASSUME NEW r \in Reqs, CommitAnswerLost(r) PROVE TypeOK' /\ RequestsOK'
  BY <1>18, <1>16, FinishTyped DEF CommitAnswerLost, TypeOK, Codes
<1>19. ASSUME NEW r \in Reqs, DbError(r) PROVE TypeOK' /\ RequestsOK'
  BY <1>19, RollbackTypes DEF DbError, InTx, Codes
<1>20. ASSUME NEW r \in Reqs, DeadlockVictim(r) PROVE TypeOK' /\ RequestsOK'
  BY <1>20, RollbackTypes DEF DeadlockVictim, WaitsFor, Codes
<1>21. CASE Crash
  <2>1. TypeOK'
    BY <1>21, EndTxTypes DEF Crash, TypeOK, PCs
  <2>2. RequestsOK'
    BY <1>21 DEF Crash, TypeOK, RequestsOK, IsTrade
  <2> QED BY <2>1, <2>2
<1>22. CASE UNCHANGED vars
  BY <1>22 DEF TypeOK, RequestsOK, IsTrade
<1> QED
  BY <1>1, <1>2, <1>3, <1>5, <1>6, <1>7, <1>8, <1>9, <1>10, <1>11, <1>12, <1>13,
     <1>14, <1>15, <1>17, <1>18, <1>19, <1>20, <1>21, <1>22
     DEF Next, Progress, InsertRow, LockRow, Terminated

-----------------------------------------------------------------------------
(* The inductive invariant.                                                *)

\* What a request asked for fixes its accounts, its entries and its key.
LEMMA SameCall ==
    ASSUME NEW r \in Reqs, req'[r] = req[r]
    PROVE  /\ IsTrade(r)' = IsTrade(r)
           /\ AccountAt(r, 1)' = AccountAt(r, 1)
           /\ AccountAt(r, 2)' = AccountAt(r, 2)
           /\ CreditOf(r)' = CreditOf(r)
           /\ \A t : SameKey(t, r)' = SameKey(t, r)
BY DEF IsTrade, AccountAt, CurrencyAt, CreditOf, CreditEntry, Entry, SameKey

\* A request that does not move keeps what it holds while its locks stay and
\* nobody changes the rows under them.
LEMMA HoldsFrame ==
    ASSUME TypeOK, RequestsOK, NEW r \in Reqs, Holds(r),
           pc'[r] = pc[r], req'[r] = req[r], tx'[r] = tx[r],
           \A q \in QuoteIds : quoteOwner[q] = r =>
               /\ quoteOwner'[q] = r
               /\ quoteStatus[q] = "ACTIVE" => quoteStatus'[q] = "ACTIVE",
           \A a \in Accounts : rowOwner[a] = r =>
               rowOwner'[a] = r /\ balance'[a] = balance[a]
    PROVE  Holds(r)'
<1> USE SameCall
<1>1. CASE pc[r] = "idle"
  BY <1>1 DEF Holds, QuoteHeld, RowsHeld, FundsHeld, WritesOK, Debited, Credited,
              PendOf, EntriesOf, InTx
<1>2. CASE pc[r] # "idle"
  <2>1. /\ AccountAt(r, 1) \in Accounts /\ AccountAt(r, 2) \in Accounts
        /\ IsTrade(r) => req[r].quote \in QuoteIds
    BY <1>2, CallTypes, EntryTypes DEF RequestsOK
  <2>2. QuoteHeld(r)'
    BY <2>1 DEF Holds, QuoteHeld
  <2>3. RowsHeld(r)'
    BY <2>1 DEF Holds, RowsHeld
  <2>4. FundsHeld(r)'
    BY <2>1, <1>2 DEF Holds, RowsHeld, FundsHeld, Debited, Credited, InTx
  <2>5. WritesOK(r)'
    BY DEF Holds, WritesOK, PendOf, EntriesOf, Debited, Credited
  <2> QED BY <2>2, <2>3, <2>4, <2>5 DEF Holds
<1> QED BY <1>1, <1>2

\* A request outside a transaction holds nothing and has written nothing.
LEMMA HoldsNothing ==
    ASSUME NEW r \in Reqs, pc'[r] \notin InTx, tx'[r] = EmptyTx
    PROVE  Holds(r)'
BY DEF Holds, QuoteHeld, RowsHeld, FundsHeld, WritesOK, Debited, Credited,
       PendOf, EntriesOf, InTx, EmptyTx

\* Before its transaction and after it, a request has no pending write.
LEMMA OutsideWroteNothing ==
    ASSUME TypeOK, NEW r \in Reqs, Holds(r),
           pc[r] \notin {"credit", "trade", "mark", "commit"}
    PROVE  tx[r] = EmptyTx
<1>1. tx[r].pend = [a \in Accounts |-> 0]
  BY DEF TypeOK, Holds, WritesOK, PendOf, Debited, Credited
<1>2. tx[r].entries = {} /\ tx[r].trade = {} /\ tx[r].executed = {}
  BY DEF Holds, WritesOK, EntriesOf, Debited, Credited
<1>3. tx[r] \in [pend: [Accounts -> Int], entries: SUBSET LedgerEntries,
               trade: SUBSET Trades, executed: SUBSET QuoteIds]
  BY DEF TypeOK
<1> QED BY <1>1, <1>2, <1>3 DEF EmptyTx

\* A key stays held while nothing is committed and no transaction adds a
\* trade or reaches its mark.
LEMMA KeyFrame ==
    ASSUME KeyHeld, UNCHANGED trades,
           \A r \in Reqs : tx'[r].trade \subseteq tx[r].trade,
           \A r \in Reqs : pc'[r] \in {"mark", "commit"} =>
               pc[r] \in {"mark", "commit"} /\ req'[r] = req[r]
    PROVE  KeyHeld'
BY SameCall DEF KeyHeld

\* The committed rows keep telling the truth while none is written.
LEMMA StoreFrame ==
    ASSUME TypeOK, StoreOK, UNCHANGED <<balance, ledger, trades>>,
           \A q \in QuoteIds :
               quoteStatus'[q] = "EXECUTED" <=> quoteStatus[q] = "EXECUTED",
           \A r \in Reqs : Committed(r) => Committed(r)'
    PROVE  StoreOK'
<1>1. RowsSayTheTruth'
  BY DEF TypeOK, StoreOK, RowsSayTheTruth, LedgerEntries, Trades
<1>2. LedgerOK' /\ StatusOK' /\ Solvent' /\ KeyNamesOneTrade'
  BY DEF StoreOK, LedgerOK, StatusOK, Solvent, KeyNamesOneTrade
<1> QED BY <1>1, <1>2 DEF StoreOK

\* The invariant holds of the seeded database, before any request.
THEOREM InitIInv == Init => IInv
<1> SUFFICES ASSUME Init PROVE IInv
  OBVIOUS
<1>1. TypeOK /\ RequestsOK
  BY InitTyped
<1>2. \A r \in Reqs : Holds(r)
  BY DEF Init, Holds, QuoteHeld, RowsHeld, FundsHeld, WritesOK, Debited,
         Credited, PendOf, EntriesOf, InTx, EmptyTx
<1>3. KeyHeld
  BY DEF Init, KeyHeld
<1>4. StoreOK
  BY FundingAssumption, MaxMinorAssumption
     DEF Init, StoreOK, RowsSayTheTruth, LedgerOK, StatusOK, Solvent,
         KeyNamesOneTrade, SeedEntries, Entry
<1> QED BY <1>1, <1>2, <1>3, <1>4 DEF IInv

\* Ending transactions without committing them keeps the invariant.
LEMMA EndTxIInv ==
    ASSUME IInv, NEW gone \in SUBSET Reqs, EndTx(gone),
           UNCHANGED <<store, req>>,
           \A r \in gone : pc'[r] \notin InTx,
           \A r \in Reqs \ gone : pc'[r] = pc[r],
           \A r \in Reqs : Committed(r) => Committed(r)'
    PROVE  (\A r \in Reqs : Holds(r)') /\ KeyHeld' /\ StoreOK'
<1>1. TypeOK /\ RequestsOK /\ (\A r \in Reqs : Holds(r)) /\ KeyHeld /\ StoreOK
  BY DEF IInv
<1>2. ASSUME NEW r \in Reqs PROVE Holds(r)'
  <2>1. CASE r \in gone
    <3>1. tx'[r] = EmptyTx
      BY <2>1 DEF EndTx
    <3> QED BY <2>1, <3>1, HoldsNothing
  <2>2. CASE r \notin gone
    <3>1. tx'[r] = tx[r] /\ pc'[r] = pc[r] /\ req'[r] = req[r]
      BY <2>2 DEF EndTx
    <3>2. \A q \in QuoteIds : quoteOwner[q] = r => quoteOwner'[q] = r
      BY <1>1, <2>2 DEF TypeOK, EndTx, Without
    <3>3. \A a \in Accounts : rowOwner[a] = r => rowOwner'[a] = r
      BY <1>1, <2>2 DEF TypeOK, EndTx, Without
    <3> QED BY <1>1, <3>1, <3>2, <3>3, HoldsFrame DEF store
  <2> QED BY <2>1, <2>2
<1>3. KeyHeld'
  <2>1. \A r \in Reqs : tx'[r].trade \subseteq tx[r].trade
    BY DEF EndTx, EmptyTx
  <2>2. \A r \in Reqs : pc'[r] \in {"mark", "commit"} =>
            pc[r] \in {"mark", "commit"} /\ req'[r] = req[r]
    BY DEF InTx
  <2> QED BY <1>1, <2>1, <2>2, KeyFrame DEF store
<1>4. StoreOK'
  BY <1>1, StoreFrame DEF store
<1> QED BY <1>2, <1>3, <1>4

\* A request outside a transaction stays outside: lookups and answers.
LEMMA OutsideStep ==
    ASSUME IInv, NEW r \in Reqs, UNCHANGED <<store, locks, tx>>,
           pc[r] \notin InTx, pc'[r] \notin InTx \ {"quote", "rows"},
           pc'[r] = "rows" => ~IsTrade(r)',
           \A s \in Reqs \ {r} : pc'[s] = pc[s] /\ req'[s] = req[s],
           \A s \in Reqs : Committed(s) => Committed(s)'
    PROVE  (\A s \in Reqs : Holds(s)') /\ KeyHeld' /\ StoreOK'
<1>1. TypeOK /\ RequestsOK /\ (\A s \in Reqs : Holds(s)) /\ KeyHeld /\ StoreOK
  BY DEF IInv
<1>2. ASSUME NEW s \in Reqs, s # r PROVE Holds(s)'
  BY <1>1, <1>2, HoldsFrame DEF store, locks
<1>3. Holds(r)'
  <2>1. tx'[r] = EmptyTx
    BY <1>1, OutsideWroteNothing DEF InTx
  <2> QED
    BY <2>1 DEF Holds, QuoteHeld, RowsHeld, FundsHeld, WritesOK, Debited,
                Credited, PendOf, EntriesOf, InTx, EmptyTx
<1>4. KeyHeld'
  BY <1>1, KeyFrame DEF store, InTx
<1>5. StoreOK'
  BY <1>1, StoreFrame DEF store
<1> QED BY <1>2, <1>3, <1>4, <1>5

\* A statement of a transaction disturbs nobody else: it takes free locks and
\* writes to its own write set.
LEMMA InsideStep ==
    ASSUME IInv, NEW r \in Reqs, pc[r] \in InTx, UNCHANGED <<store, req, reply>>,
           \A s \in Reqs \ {r} : pc'[s] = pc[s] /\ tx'[s] = tx[s],
           \A q \in QuoteIds : quoteOwner[q] # NoReq => quoteOwner'[q] = quoteOwner[q],
           \A a \in Accounts : rowOwner[a] # NoReq => rowOwner'[a] = rowOwner[a],
           Holds(r)'
    PROVE  (\A s \in Reqs : Holds(s)') /\ StoreOK'
<1>1. TypeOK /\ RequestsOK /\ (\A s \in Reqs : Holds(s)) /\ StoreOK
  BY DEF IInv
<1>2. ASSUME NEW s \in Reqs, s # r PROVE Holds(s)'
  <2>1. s # NoReq
    BY NoReqAssumption
  <2> QED BY <1>1, <1>2, <2>1, HoldsFrame DEF store
<1>3. \A s \in Reqs : Committed(s) => Committed(s)'
  BY DEF Committed, InTx
<1>4. StoreOK'
  BY <1>1, <1>3, StoreFrame DEF store
<1> QED BY <1>2, <1>4

\* Taking a lock or coming back from lockBalanceRows.
LEMMA LockStep ==
    ASSUME IInv, NEW r \in Reqs,
           \/ LockQuote(r) /\ quoteOwner' = [quoteOwner EXCEPT ![req[r].quote] = r]
                           /\ Goto(r, "rows")
                           /\ Refusal(r) = 0
                           /\ UNCHANGED <<store, expired, rowOwner, req, tx, reply>>
           \/ InsertRow(r) \/ LockRow(r) \/ RowsLocked(r)
    PROVE  (\A s \in Reqs : Holds(s)') /\ KeyHeld' /\ StoreOK'
<1>1. TypeOK /\ RequestsOK /\ (\A s \in Reqs : Holds(s)) /\ KeyHeld
  BY DEF IInv
<1> USE DEF store, locks
<1>2. CASE /\ LockQuote(r)
           /\ quoteOwner' = [quoteOwner EXCEPT ![req[r].quote] = r]
           /\ Goto(r, "rows")
           /\ Refusal(r) = 0
           /\ UNCHANGED <<store, expired, rowOwner, req, tx, reply>>
  <2>1. /\ pc[r] = "quote" /\ req[r].quote \in QuoteIds
        /\ quoteOwner[req[r].quote] = NoReq
    BY <1>1, <1>2, CallTypes DEF LockQuote, RequestsOK
  <2>2. /\ quoteStatus[req[r].quote] = "ACTIVE"
        /\ Terms[req[r].quote].client = req[r].client
    BY <1>1, <1>2, <2>1 DEF Refusal, TypeOK
  <2>3. tx[r] = EmptyTx
    BY <1>1, <2>1, OutsideWroteNothing
  <2>4. Holds(r)'
    BY <1>1, <1>2, <2>1, <2>2, <2>3
       DEF TypeOK, Goto, Holds, QuoteHeld, RowsHeld, FundsHeld, WritesOK, Debited,
           Credited, PendOf, EntriesOf, InTx, EmptyTx
  <2>5. /\ pc[r] \in InTx
        /\ \A s \in Reqs \ {r} : pc'[s] = pc[s]
        /\ \A q \in QuoteIds : quoteOwner[q] # NoReq => quoteOwner'[q] = quoteOwner[q]
    BY <1>1, <1>2, <2>1 DEF TypeOK, Goto, InTx
  <2>6. KeyHeld'
    BY <1>1, <1>2, <2>5, KeyFrame DEF Goto, TypeOK
  <2> QED BY <1>2, <2>4, <2>5, <2>6, InsideStep
<1>3. ASSUME NEW a, pc[r] = "rows", Take(r, a)
      PROVE (\A s \in Reqs : Holds(s)') /\ KeyHeld' /\ StoreOK'
  <2>1. \A b \in Accounts : rowOwner[b] # NoReq => rowOwner'[b] = rowOwner[b]
    BY <1>1, <1>3 DEF Take, TypeOK
  <2>2. \A b \in Accounts : rowOwner[b] = r => rowOwner'[b] = r
    BY <1>1, <1>3, <2>1, NoReqAssumption
  <2>3. Holds(r)'
    BY <1>1, <1>3, <2>2, HoldsFrame DEF Take
  <2>4. KeyHeld'
    BY <1>1, <1>3, KeyFrame DEF Take
  <2> QED BY <1>3, <2>1, <2>3, <2>4, InsideStep DEF Take, InTx
<1>4. CASE RowsLocked(r)
  <2>1. /\ pc[r] = "rows" /\ req[r] \in Calls
        /\ rowOwner[AccountAt(r, 1)] = r /\ rowOwner[AccountAt(r, 2)] = r
    BY <1>1, <1>4, EntryTypes DEF RowsLocked, RequestsOK, Unlocked
  <2>2. tx[r] = EmptyTx
    BY <1>1, <2>1, OutsideWroteNothing
  <2>3. pc'[r] \in {"debit", "credit"} /\ (pc'[r] = "credit" => ~IsTrade(r))
    BY <1>1, <1>4 DEF RowsLocked, Goto, TypeOK
  <2>4. UNCHANGED <<rowOwner, quoteOwner, quoteStatus, balance, req, tx>>
    BY <1>4 DEF RowsLocked
  <2>5. QuoteHeld(r)'
    BY <1>1, <2>1, <2>3, <2>4, SameCall DEF Holds, QuoteHeld, InTx
  <2>6. RowsHeld(r)'
    BY <2>1, <2>4, SameCall DEF RowsHeld
  <2>7. FundsHeld(r)' /\ WritesOK(r)'
    BY <2>2, <2>3, <2>4, SameCall
       DEF FundsHeld, WritesOK, Debited, Credited, PendOf, EntriesOf, EmptyTx
  <2>8. KeyHeld'
    BY <1>1, <1>4, KeyFrame DEF RowsLocked, Goto, TypeOK
  <2> QED BY <1>1, <1>4, <2>1, <2>5, <2>6, <2>7, <2>8, InsideStep
          DEF RowsLocked, Goto, TypeOK, Holds, InTx
<1> QED BY <1>2, <1>3, <1>4 DEF InsertRow, LockRow

\* The guarded debit leaves the funds it has checked under the row's lock.
LEMMA DebitStep ==
    ASSUME IInv, NEW r \in Reqs, pc[r] = "debit",
           balance[AccountAt(r, 1)] + tx[r].pend[AccountAt(r, 1)]
             - DebitMinor(req[r].quote) >= 0,
           Move(r, DebitEntry(req[r].client, req[r].quote, r)),
           Goto(r, "credit"), UNCHANGED <<store, expired, locks, req, reply>>
    PROVE  (\A s \in Reqs : Holds(s)') /\ KeyHeld' /\ StoreOK'
<1>1. /\ TypeOK /\ RequestsOK /\ (\A s \in Reqs : Holds(s)) /\ KeyHeld
      /\ IsTrade(r) /\ req[r] \in Calls
  BY DEF IInv, RequestsOK
<1> DEFINE q == req[r].quote
           e == DebitEntry(req[r].client, q, r)
<1>2. /\ AccountAt(r, 1) \in Accounts /\ AccountAt(r, 1) # AccountAt(r, 2)
      /\ DebitMinor(q) \in Int
      /\ e.account = AccountAt(r, 1) /\ e.delta = - DebitMinor(q)
  BY <1>1, EntryTypes, CallTypes, LegTypes, ConstantTypes
     DEF DebitEntry, Entry, AccountAt, CurrencyAt
<1>3. tx[r] = EmptyTx
  BY <1>1, OutsideWroteNothing
<1>4. /\ \A a \in Accounts : tx'[r].pend[a] =
             IF a = AccountAt(r, 1) THEN - DebitMinor(q) ELSE 0
      /\ tx'[r].entries = {e} /\ tx'[r].trade = {} /\ tx'[r].executed = {}
  <2>1. tx'[r] = [tx[r] EXCEPT !.pend[e.account] = @ + e.delta,
                               !.entries = @ \cup {e}]
    BY <1>1 DEF Move, TypeOK
  <2> HIDE DEF e
  <2> QED BY <1>2, <1>3, <2>1 DEF EmptyTx
<1>5. pc'[r] = "credit"
  BY <1>1 DEF Goto, TypeOK
<1>6. UNCHANGED <<rowOwner, quoteOwner, quoteStatus, balance, req>>
  BY DEF store, locks
<1>7. QuoteHeld(r)' /\ RowsHeld(r)'
  BY <1>1, <1>5, <1>6, SameCall DEF Holds, QuoteHeld, RowsHeld, InTx
<1>8. FundsHeld(r)'
  <2>1. balance[AccountAt(r, 1)] \in Int
    BY <1>1, <1>2 DEF TypeOK
  <2> QED BY <1>2, <1>3, <1>5, <1>6, <2>1, SameCall
          DEF FundsHeld, Debited, Credited, EmptyTx
<1>9. WritesOK(r)'
  BY <1>1, <1>4, <1>5, <1>6, SameCall
     DEF WritesOK, Debited, Credited, PendOf, EntriesOf
<1>10. \A s \in Reqs \ {r} : pc'[s] = pc[s] /\ tx'[s] = tx[s]
  BY <1>1 DEF Goto, Move, TypeOK
<1>11. KeyHeld'
  BY <1>1, <1>3, <1>4, <1>5, <1>6, <1>10, KeyFrame DEF store
<1> QED BY <1>6, <1>7, <1>8, <1>9, <1>10, <1>11, InsideStep DEF Holds, InTx

\* Where the credit goes, and that it is a positive amount.
LEMMA CreditAccount ==
    ASSUME NEW r \in Reqs, req[r] \in Calls
    PROVE  /\ CreditOf(r).account = AccountAt(r, 2)
           /\ CreditOf(r).delta \in PositiveMinor
           /\ CreditOf(r).delta \in Int
           /\ CreditOf(r).ref = r
<1>1. CASE IsTrade(r)
  <2>1. CreditMinor(req[r].quote) \in PositiveMinor
    BY <1>1, CallTypes, LegTypes
  <2>2. CreditMinor(req[r].quote) \in Int
    BY <2>1, ConstantTypes
  <2> QED BY <1>1, <2>1, <2>2
          DEF CreditOf, CreditEntry, Entry, AccountAt, CurrencyAt
<1>2. CASE ~IsTrade(r)
  BY <1>2, CallTypes, ConstantTypes DEF CreditOf, Entry, AccountAt, CurrencyAt
<1> QED BY <1>1, <1>2

\* The credit of a trade or of a deposit, within the range of the column.
LEMMA CreditStep ==
    ASSUME IInv, NEW r \in Reqs, pc[r] = "credit",
           balance[AccountAt(r, 2)] + tx[r].pend[AccountAt(r, 2)]
             + CreditOf(r).delta <= MaxMinor,
           Move(r, CreditOf(r)),
           Goto(r, IF IsTrade(r) THEN "trade" ELSE "commit"),
           UNCHANGED <<store, expired, locks, req, reply>>
    PROVE  (\A s \in Reqs : Holds(s)') /\ KeyHeld' /\ StoreOK'
<1>1. /\ TypeOK /\ RequestsOK /\ (\A s \in Reqs : Holds(s)) /\ KeyHeld
      /\ req[r] \in Calls
  BY DEF IInv, RequestsOK
<1> DEFINE e == CreditOf(r)
           next == IF IsTrade(r) THEN "trade" ELSE "commit"
<1>2. /\ AccountAt(r, 1) \in Accounts /\ AccountAt(r, 2) \in Accounts
      /\ IsTrade(r) => AccountAt(r, 1) # AccountAt(r, 2)
      /\ e.account = AccountAt(r, 2) /\ e.delta \in Int
  BY <1>1, EntryTypes, CreditAccount
<1>3. /\ \A a \in Accounts : tx[r].pend[a] =
             IF IsTrade(r) /\ a = AccountAt(r, 1)
             THEN - DebitMinor(req[r].quote) ELSE 0
      /\ tx[r].entries = IF IsTrade(r)
                         THEN {DebitEntry(req[r].client, req[r].quote, r)} ELSE {}
      /\ tx[r].trade = {} /\ tx[r].executed = {}
  BY <1>1 DEF Holds, WritesOK, PendOf, EntriesOf, Debited, Credited
<1> HIDE DEF e
<1>4. /\ \A a \in Accounts : tx'[r].pend[a] =
             IF IsTrade(r) /\ a = AccountAt(r, 1)
             THEN - DebitMinor(req[r].quote)
             ELSE IF a = AccountAt(r, 2) THEN e.delta ELSE 0
      /\ tx'[r].entries = tx[r].entries \cup {e}
      /\ tx'[r].trade = {} /\ tx'[r].executed = {}
  <2>1. tx'[r] = [tx[r] EXCEPT !.pend[e.account] = @ + e.delta,
                               !.entries = @ \cup {e}]
    BY <1>1 DEF Move, TypeOK, e
  <2>2. tx[r] \in [pend: [Accounts -> Int], entries: SUBSET LedgerEntries,
                 trade: SUBSET Trades, executed: SUBSET QuoteIds]
    BY <1>1 DEF TypeOK
  <2>3. /\ \A a \in Accounts : tx'[r].pend[a] =
               IF a = AccountAt(r, 2) THEN tx[r].pend[a] + e.delta
                                      ELSE tx[r].pend[a]
        /\ tx'[r].entries = tx[r].entries \cup {e}
        /\ tx'[r].trade = tx[r].trade /\ tx'[r].executed = tx[r].executed
    BY <1>2, <2>1, <2>2
  <2> QED BY <1>2, <1>3, <2>3
<1>5. pc'[r] = next
  BY <1>1 DEF Goto, TypeOK
<1>6. UNCHANGED <<rowOwner, quoteOwner, quoteStatus, balance, req>>
  BY DEF store, locks
<1>7. QuoteHeld(r)' /\ RowsHeld(r)'
  BY <1>1, <1>5, <1>6, SameCall DEF Holds, QuoteHeld, RowsHeld, InTx
<1>8. FundsHeld(r)'
  <2>1. IsTrade(r) => balance[AccountAt(r, 1)] >= DebitMinor(req[r].quote)
    BY <1>1 DEF Holds, FundsHeld, Debited
  <2>2. tx[r].pend[AccountAt(r, 2)] = 0 /\ balance[AccountAt(r, 2)] \in Int
    BY <1>1, <1>2, <1>3 DEF TypeOK
  <2>3. balance[AccountAt(r, 2)] + CreditOf(r).delta <= MaxMinor
    BY <1>2, <2>2 DEF e
  <2> QED BY <1>5, <1>6, <2>1, <2>3, SameCall DEF FundsHeld, Debited, Credited
<1>9. WritesOK(r)'
  <2>1. \A a \in Accounts : tx'[r].pend[a] = PendOf(r, a)'
    BY <1>4, <1>5, <1>6, SameCall DEF PendOf, Debited, Credited, e
  <2>2. tx'[r].entries = EntriesOf(r)'
    BY <1>3, <1>4, <1>5, <1>6, SameCall DEF EntriesOf, Debited, Credited, e
  <2> QED BY <1>4, <1>5, <1>6, <2>1, <2>2, SameCall DEF WritesOK
<1>10. \A s \in Reqs \ {r} : pc'[s] = pc[s] /\ tx'[s] = tx[s]
  BY <1>1 DEF Goto, Move, TypeOK
<1>11. KeyHeld'
  <2>1. \A s \in Reqs : tx'[s].trade \subseteq tx[s].trade
    BY <1>4, <1>10
  <2>2. \A t \in trades' : t \in trades
    BY DEF store
  <2> QED
    BY <1>1, <1>3, <1>4, <1>5, <1>6, <1>10, <2>1, <2>2, SameCall DEF KeyHeld, store
<1> QED BY <1>6, <1>7, <1>8, <1>9, <1>10, <1>11, InsideStep DEF Holds, InTx

\* The insert into trades takes the key for good: no row and no pending row
\* has it.
LEMMA InsertStep ==
    ASSUME IInv, NEW r \in Reqs, pc[r] = "trade", Rivals(r) = {},
           ~ \E t \in trades : Clash(t, r),
           tx' = [tx EXCEPT ![r].trade =
                    {Trade(r, req[r].client, req[r].quote, req[r].key)}],
           Goto(r, "mark"), UNCHANGED <<store, expired, locks, req, reply>>
    PROVE  (\A s \in Reqs : Holds(s)') /\ KeyHeld' /\ StoreOK'
<1>1. /\ TypeOK /\ RequestsOK /\ (\A s \in Reqs : Holds(s)) /\ KeyHeld
      /\ IsTrade(r) /\ req[r] \in Calls
  BY DEF IInv, RequestsOK
<1> DEFINE t == Trade(r, req[r].client, req[r].quote, req[r].key)
<1>2. pc'[r] = "mark" /\ \A s \in Reqs \ {r} : pc'[s] = pc[s] /\ tx'[s] = tx[s]
  BY <1>1 DEF Goto, TypeOK
<1>3. /\ tx'[r].pend = tx[r].pend /\ tx'[r].entries = tx[r].entries
      /\ tx'[r].trade = {t} /\ tx'[r].executed = tx[r].executed
  <2> HIDE DEF t
  <2>1. tx'[r] = [tx[r] EXCEPT !.trade = {t}]
    BY <1>1 DEF TypeOK, t
  <2>2. tx[r] \in [pend: [Accounts -> Int], entries: SUBSET LedgerEntries,
                 trade: SUBSET Trades, executed: SUBSET QuoteIds]
    BY <1>1 DEF TypeOK
  <2> QED BY <2>1, <2>2
<1>4. UNCHANGED <<rowOwner, quoteOwner, quoteStatus, balance, req, trades>>
  BY DEF store, locks
<1>5. Holds(r)'
  <2>1. QuoteHeld(r)' /\ RowsHeld(r)' /\ FundsHeld(r)'
    BY <1>1, <1>2, <1>4, SameCall
       DEF Holds, QuoteHeld, RowsHeld, FundsHeld, Debited, Credited, InTx
  <2>2. \A a \in Accounts : tx'[r].pend[a] = PendOf(r, a)'
    <3>1. Debited(r)' = Debited(r) /\ Credited(r)' = Credited(r)
      BY <1>1, <1>2, <1>4, SameCall DEF Debited, Credited
    <3>2. \A a \in Accounts : PendOf(r, a)' = PendOf(r, a)
      BY <1>4, <3>1, SameCall DEF PendOf
    <3> QED BY <1>1, <1>3, <3>2 DEF Holds, WritesOK
  <2>3. tx'[r].entries = EntriesOf(r)'
    BY <1>1, <1>2, <1>3, <1>4, SameCall
       DEF Holds, WritesOK, EntriesOf, Debited, Credited
  <2>4. tx'[r].executed = {}
    BY <1>1, <1>3 DEF Holds, WritesOK
  <2> QED BY <1>1, <1>2, <1>3, <1>4, <2>1, <2>2, <2>3, <2>4, SameCall
          DEF Holds, WritesOK
<1>6. KeyHeld'
  <2> SUFFICES ASSUME NEW s \in Reqs, IsTrade(s), pc'[s] \in {"mark", "commit"}
               PROVE  /\ \A u \in trades : ~SameKey(u, s)
                      /\ \A p \in Reqs \ {s} : \A u \in tx'[p].trade : ~SameKey(u, s)
    BY <1>4, SameCall DEF KeyHeld
  <2>1. CASE s = r
    BY <1>2, <2>1 DEF Rivals, Clash
  <2>2. CASE s # r
    <3>1. pc[s] \in {"mark", "commit"}
      BY <1>2, <2>2
    <3>2. tx[s].trade = {Trade(s, req[s].client, req[s].quote, req[s].key)}
      BY <1>1, <3>1 DEF Holds, WritesOK
    <3>3. ~SameKey(t, s)
      <4>1. Trade(s, req[s].client, req[s].quote, req[s].key) \in tx[s].trade
        BY <3>2
      <4>2. ~SameKey(Trade(s, req[s].client, req[s].quote, req[s].key), r)
        BY <2>2, <4>1 DEF Rivals, Clash
      <4> QED BY <4>2 DEF SameKey, Trade
    <3> QED BY <1>1, <1>2, <1>3, <2>2, <3>1, <3>3 DEF KeyHeld
  <2> QED BY <2>1, <2>2
<1> QED BY <1>2, <1>5, <1>6, InsideStep DEF InTx, locks

\* The flip of the quote is pending with the trade that settles it.
LEMMA MarkStep ==
    ASSUME IInv, NEW r \in Reqs, MarkExecuted(r)
    PROVE  (\A s \in Reqs : Holds(s)') /\ KeyHeld' /\ StoreOK'
<1> USE DEF MarkExecuted
<1>1. /\ TypeOK /\ RequestsOK /\ (\A s \in Reqs : Holds(s)) /\ KeyHeld
      /\ IsTrade(r) /\ req[r] \in Calls
  BY DEF IInv, RequestsOK
<1>2. pc'[r] = "commit" /\ \A s \in Reqs \ {r} : pc'[s] = pc[s] /\ tx'[s] = tx[s]
  BY <1>1 DEF Goto, TypeOK
<1>3. /\ tx'[r].pend = tx[r].pend /\ tx'[r].entries = tx[r].entries
      /\ tx'[r].trade = tx[r].trade /\ tx'[r].executed = {req[r].quote}
  <2>1. tx'[r] = [tx[r] EXCEPT !.executed = {req[r].quote}]
    BY <1>1 DEF TypeOK
  <2>2. tx[r] \in [pend: [Accounts -> Int], entries: SUBSET LedgerEntries,
                 trade: SUBSET Trades, executed: SUBSET QuoteIds]
    BY <1>1 DEF TypeOK
  <2> QED BY <2>1, <2>2
<1>4. UNCHANGED <<rowOwner, quoteOwner, quoteStatus, balance, req, trades>>
  BY DEF store, locks
<1>5. Holds(r)'
  <2>1. QuoteHeld(r)' /\ RowsHeld(r)' /\ FundsHeld(r)'
    BY <1>1, <1>2, <1>4, SameCall
       DEF Holds, QuoteHeld, RowsHeld, FundsHeld, Debited, Credited, InTx
  <2>2. \A a \in Accounts : tx'[r].pend[a] = PendOf(r, a)'
    <3>1. Debited(r)' = Debited(r) /\ Credited(r)' = Credited(r)
      BY <1>1, <1>2, <1>4, SameCall DEF Debited, Credited
    <3>2. \A a \in Accounts : PendOf(r, a)' = PendOf(r, a)
      BY <1>4, <3>1, SameCall DEF PendOf
    <3> QED BY <1>1, <1>3, <3>2 DEF Holds, WritesOK
  <2>3. tx'[r].entries = EntriesOf(r)'
    BY <1>1, <1>2, <1>3, <1>4, SameCall
       DEF Holds, WritesOK, EntriesOf, Debited, Credited
  <2> QED BY <1>1, <1>2, <1>3, <1>4, <2>1, <2>2, <2>3, SameCall
          DEF Holds, WritesOK
<1>6. KeyHeld'
  <2>1. \A s \in Reqs : tx'[s].trade \subseteq tx[s].trade
    BY <1>2, <1>3
  <2> QED BY <1>1, <1>2, <1>4, <2>1, KeyFrame
<1> QED BY <1>2, <1>5, <1>6, InsideStep DEF InTx, locks

\* COMMIT: the rows of one transaction appear at once.
LEMMA PublishStep ==
    ASSUME IInv, NEW r \in Reqs, pc[r] = "commit", Publish(r), UNCHANGED req,
           pc'[r] \in {"respond", "done"},
           pc'[r] = "done" => reply'[r].code \in {0, 201, 500},
           \A s \in Reqs \ {r} : pc'[s] = pc[s] /\ reply'[s] = reply[s]
    PROVE  (\A s \in Reqs : Holds(s)') /\ KeyHeld' /\ StoreOK'
<1>1. /\ TypeOK /\ RequestsOK /\ (\A s \in Reqs : Holds(s)) /\ KeyHeld /\ StoreOK
      /\ req[r] \in Calls
  BY DEF IInv, RequestsOK
<1> DEFINE q == req[r].quote
           a1 == AccountAt(r, 1)
           a2 == AccountAt(r, 2)
           t == Trade(r, req[r].client, q, req[r].key)
           de == DebitEntry(req[r].client, q, r)
           ce == CreditOf(r)
<1>2. /\ a1 \in Accounts /\ a2 \in Accounts
      /\ ce \in LedgerEntries /\ ce.delta \in PositiveMinor
      /\ ce.delta \in Int /\ ce.ref = r
      /\ rowOwner[a1] = r /\ rowOwner[a2] = r
  BY <1>1, EntryTypes, CreditAccount DEF Holds, RowsHeld, InTx
<1>3. IsTrade(r) => /\ q \in QuoteIds /\ t \in Trades /\ de \in LedgerEntries
                    /\ a1 # a2
                    /\ DebitMinor(q) \in PositiveMinor /\ DebitMinor(q) \in Int
                    /\ quoteOwner[q] = r /\ quoteStatus[q] = "ACTIVE"
                    /\ Terms[q].client = req[r].client
  <2>1. IsTrade(r) => q \in QuoteIds /\ t \in Trades /\ de \in LedgerEntries /\ a1 # a2
    BY <1>1, EntryTypes, CallTypes
  <2>2. IsTrade(r) => DebitMinor(q) \in PositiveMinor /\ DebitMinor(q) \in Int
    BY <2>1, LegTypes, ConstantTypes
  <2>3. IsTrade(r) => /\ quoteOwner[q] = r /\ quoteStatus[q] = "ACTIVE"
                      /\ Terms[q].client = req[r].client
    BY <1>1 DEF Holds, QuoteHeld, InTx
  <2> QED BY <2>1, <2>2, <2>3
<1>4. /\ \A a \in Accounts : tx[r].pend[a] =
             IF IsTrade(r) /\ a = a1 THEN - DebitMinor(q)
             ELSE IF a = a2 THEN ce.delta ELSE 0
      /\ tx[r].entries = (IF IsTrade(r) THEN {de} ELSE {}) \cup {ce}
      /\ tx[r].trade = IF IsTrade(r) THEN {t} ELSE {}
      /\ tx[r].executed = IF IsTrade(r) THEN {q} ELSE {}
  <2>1. (Debited(r) <=> IsTrade(r)) /\ Credited(r)
    BY DEF Debited, Credited
  <2>2. WritesOK(r)
    BY <1>1 DEF Holds
  <2>3. \A a \in Accounts : tx[r].pend[a] =
             IF IsTrade(r) /\ a = a1 THEN - DebitMinor(q)
             ELSE IF a = a2 THEN ce.delta ELSE 0
    BY <2>1, <2>2 DEF WritesOK, PendOf
  <2>4. tx[r].entries = (IF IsTrade(r) THEN {de} ELSE {}) \cup {ce}
    BY <2>1, <2>2 DEF WritesOK, EntriesOf
  <2>5. /\ tx[r].trade = IF IsTrade(r) THEN {t} ELSE {}
        /\ tx[r].executed = IF IsTrade(r) THEN {q} ELSE {}
    BY <2>2 DEF WritesOK
  <2> QED BY <2>3, <2>4, <2>5
<1>5. tx'[r] = EmptyTx /\ \A s \in Reqs \ {r} : tx'[s] = tx[s]
  BY <1>1 DEF Publish, EndTx, TypeOK
<1>6. ASSUME NEW s \in Reqs, s # r PROVE Holds(s)'
  <2>1. \A x \in QuoteIds : quoteOwner[x] = s =>
            quoteOwner'[x] = s /\ quoteStatus'[x] = quoteStatus[x]
    BY <1>1, <1>3, <1>4, <1>6 DEF Publish, EndTx, Without, TypeOK
  <2>2. \A a \in Accounts : rowOwner[a] = s =>
            rowOwner'[a] = s /\ balance'[a] = balance[a]
    <3> SUFFICES ASSUME NEW a \in Accounts, rowOwner[a] = s
                 PROVE  rowOwner'[a] = s /\ balance'[a] = balance[a]
      OBVIOUS
    <3>1. tx[r].pend[a] = 0
      BY <1>2, <1>4, <1>6
    <3> QED BY <1>1, <1>6, <3>1 DEF Publish, EndTx, Without, TypeOK
  <2> QED BY <1>1, <1>5, <1>6, <2>1, <2>2, HoldsFrame
<1>7. Holds(r)'
  BY <1>5, HoldsNothing DEF InTx
<1>8. KeyHeld'
  <2> SUFFICES ASSUME NEW s \in Reqs, IsTrade(s), pc'[s] \in {"mark", "commit"}
               PROVE  /\ \A u \in trades' : ~SameKey(u, s)
                      /\ \A p \in Reqs \ {s} : \A u \in tx'[p].trade : ~SameKey(u, s)
    BY SameCall DEF KeyHeld
  <2>1. s # r /\ pc[s] \in {"mark", "commit"}
    OBVIOUS
  <2>2. /\ \A u \in trades : ~SameKey(u, s)
        /\ \A p \in Reqs \ {s} : \A u \in tx[p].trade : ~SameKey(u, s)
    BY <1>1, <2>1 DEF KeyHeld
  <2> QED BY <1>5, <2>1, <2>2 DEF Publish, EmptyTx
<1>9. ~Committed(r) /\ Committed(r)' /\ \A s \in Reqs : Committed(s) => Committed(s)'
  BY DEF Committed
<1>10. /\ ledger' = ledger \cup tx[r].entries
       /\ trades' = trades \cup tx[r].trade
       /\ \A x \in QuoteIds : quoteStatus'[x] =
             IF x \in tx[r].executed THEN "EXECUTED" ELSE quoteStatus[x]
       /\ \A a \in Accounts : balance'[a] = balance[a] + tx[r].pend[a]
  BY DEF Publish
<1>11. /\ \A e \in ledger : e.ref # r /\ e.ref \in Reqs \cup {"seed"}
       /\ \A u \in trades : u.id # r /\ u.id \in Reqs /\ u.quote \in QuoteIds
  BY <1>1, <1>9, SeedAssumption
     DEF StoreOK, RowsSayTheTruth, TypeOK, LedgerEntries, Trades
<1>12. Solvent'
  <2> SUFFICES ASSUME NEW a \in Accounts PROVE balance'[a] \in 0 .. MaxMinor
    BY DEF Solvent
  <2>1. balance[a] \in 0 .. MaxMinor /\ balance[a] \in Int /\ MaxMinor \in Nat
    BY <1>1, MaxMinorAssumption DEF StoreOK, Solvent, TypeOK
  <2>2. balance[a2] + ce.delta <= MaxMinor
    BY <1>1 DEF Holds, FundsHeld, Credited
  <2>3. IsTrade(r) => balance[a1] >= DebitMinor(q)
    BY <1>1 DEF Holds, FundsHeld, Debited
  <2>4. ce.delta > 0 /\ (IsTrade(r) => DebitMinor(q) > 0)
    BY <1>2, <1>3 DEF PositiveMinor
  <2> HIDE DEF a1, a2, ce, q
  <2>5. CASE IsTrade(r) /\ a = a1
    BY <1>3, <1>4, <1>10, <2>1, <2>3, <2>4, <2>5
  <2>6. CASE ~(IsTrade(r) /\ a = a1) /\ a = a2
    BY <1>2, <1>4, <1>10, <2>1, <2>2, <2>4, <2>6
  <2>7. CASE ~(IsTrade(r) /\ a = a1) /\ a # a2
    BY <1>4, <1>10, <2>1, <2>7
  <2> QED BY <2>5, <2>6, <2>7
<1>13. CASE ~IsTrade(r)
  <2>1. /\ ledger' = ledger \cup {ce} /\ trades' = trades
        /\ \A x \in QuoteIds : quoteStatus'[x] = quoteStatus[x]
    BY <1>4, <1>10, <1>13
  <2>2. ce.reason = "DEPOSIT"
    BY <1>13 DEF CreditOf, Entry
  <2>3. RowsSayTheTruth'
    BY <1>1, <1>2, <1>9, <1>11, <2>1 DEF StoreOK, RowsSayTheTruth
  <2>4. LedgerOK'
    BY <1>1, <1>2, <1>11, <2>1, <2>2 DEF StoreOK, LedgerOK
  <2>5. StatusOK' /\ KeyNamesOneTrade'
    BY <1>1, <2>1 DEF StoreOK, StatusOK, KeyNamesOneTrade
  <2> QED BY <1>6, <1>7, <1>8, <1>12, <2>3, <2>4, <2>5 DEF StoreOK
<1>14. CASE IsTrade(r)
  <2>1. /\ ledger' = ledger \cup {de, ce} /\ trades' = trades \cup {t}
        /\ \A x \in QuoteIds : quoteStatus'[x] =
              IF x = q THEN "EXECUTED" ELSE quoteStatus[x]
    BY <1>4, <1>10, <1>14
  <2>2. /\ t.id = r /\ t.client = req[r].client /\ t.quote = q /\ t.key = req[r].key
        /\ de = DebitEntry(t.client, t.quote, t.id)
        /\ ce = CreditEntry(t.client, t.quote, t.id)
        /\ de.ref = r
    BY <1>14 DEF Trade, CreditOf, DebitEntry, Entry
  <2>3. \A u \in trades : u.quote # q
    BY <1>1, <1>3, <1>14 DEF StoreOK, RowsSayTheTruth
  <2>4. \A u \in trades : ~(u.client = req[r].client /\ u.key = req[r].key)
    BY <1>1, <1>14 DEF KeyHeld, SameKey
  <2> HIDE DEF t, de, ce, q
  <2>5. RowsSayTheTruth'
    <3>1. \A e \in ledger' : e.ref # "seed" => Committed(e.ref)'
      BY <1>1, <1>2, <1>9, <1>11, <2>1, <2>2 DEF StoreOK, RowsSayTheTruth
    <3>2. ASSUME NEW u \in trades'
          PROVE  /\ Committed(u.id)'
                 /\ u.client = Terms[u.quote].client
                 /\ quoteStatus'[u.quote] = "EXECUTED"
                 /\ DebitEntry(u.client, u.quote, u.id) \in ledger'
                 /\ CreditEntry(u.client, u.quote, u.id) \in ledger'
      <4>1. CASE u \in trades
        BY <1>1, <1>9, <1>11, <2>1, <4>1 DEF StoreOK, RowsSayTheTruth
      <4>2. CASE u = t
        BY <1>3, <1>9, <1>14, <2>1, <2>2, <4>2
      <4> QED BY <2>1, <4>1, <4>2
    <3>3. \A u, v \in trades' : u.id = v.id \/ u.quote = v.quote => u = v
      BY <1>1, <1>11, <2>1, <2>2, <2>3 DEF StoreOK, RowsSayTheTruth
    <3> QED BY <3>1, <3>2, <3>3 DEF RowsSayTheTruth
  <2>6. LedgerOK'
    <3> SUFFICES ASSUME NEW e \in ledger'
                 PROVE  \/ e.reason = "DEPOSIT" /\ \A u \in trades' : u.id # e.ref
                        \/ \E u \in trades' :
                             /\ u.id = e.ref
                             /\ \/ e = DebitEntry(u.client, u.quote, u.id)
                                \/ e = CreditEntry(u.client, u.quote, u.id)
      BY DEF LedgerOK
    <3>1. CASE e \in ledger
      BY <1>1, <1>11, <2>1, <2>2, <3>1 DEF StoreOK, LedgerOK
    <3>2. CASE e \in {de, ce}
      BY <1>2, <2>1, <2>2, <3>2
    <3> QED BY <2>1, <3>1, <3>2
  <2>7. StatusOK'
    BY <1>1, <2>1, <2>2 DEF StoreOK, StatusOK
  <2>8. KeyNamesOneTrade'
    BY <1>1, <2>1, <2>2, <2>4 DEF StoreOK, KeyNamesOneTrade
  <2> QED BY <1>6, <1>7, <1>8, <1>12, <2>5, <2>6, <2>7, <2>8 DEF StoreOK
<1> QED BY <1>13, <1>14

\* Every step keeps the invariant: one step of the proof per action.
LEMMA IInvStep == IInv /\ [Next]_vars => IInv'
<1> SUFFICES ASSUME IInv, [Next]_vars PROVE IInv'
  OBVIOUS
<1>1. /\ TypeOK /\ RequestsOK /\ (\A s \in Reqs : Holds(s)) /\ KeyHeld /\ StoreOK
      /\ TypeOK' /\ RequestsOK'
  BY TypedStep DEF IInv
<1> DEFINE Kept == (\A s \in Reqs : Holds(s)') /\ KeyHeld' /\ StoreOK'
<1> USE DEF store, locks, vars
<1>2. ASSUME NEW q \in QuoteIds, CreateQuote(q) PROVE Kept
  <2>1. /\ \A x \in QuoteIds : quoteStatus[x] = "ACTIVE" => quoteStatus'[x] = "ACTIVE"
        /\ \A x \in QuoteIds : quoteStatus'[x] = "EXECUTED" <=> quoteStatus[x] = "EXECUTED"
    BY <1>1, <1>2 DEF CreateQuote, TypeOK
  <2>2. ASSUME NEW s \in Reqs PROVE Holds(s)'
    BY <1>1, <1>2, <2>1, HoldsFrame DEF CreateQuote
  <2>3. KeyHeld'
    BY <1>1, <1>2, KeyFrame DEF CreateQuote
  <2>4. StoreOK'
    BY <1>1, <1>2, <2>1, StoreFrame DEF CreateQuote, Committed
  <2> QED BY <2>2, <2>3, <2>4
<1>3. ASSUME NEW q \in QuoteIds, Expire(q) PROVE Kept
  <2>1. ASSUME NEW s \in Reqs PROVE Holds(s)'
    BY <1>1, <1>3, HoldsFrame DEF Expire
  <2>2. KeyHeld'
    BY <1>1, <1>3, KeyFrame DEF Expire
  <2>3. StoreOK'
    BY <1>1, <1>3, StoreFrame DEF Expire, Committed
  <2> QED BY <2>1, <2>2, <2>3
<1>4. ASSUME NEW r \in Reqs, NEW call \in Calls, Receive(r, call) PROVE Kept
  <2>1. /\ pc[r] = "idle" /\ pc'[r] \in {"lookup", "begin"}
        /\ \A s \in Reqs \ {r} : pc'[s] = pc[s] /\ req'[s] = req[s]
    BY <1>1, <1>4 DEF Receive, Goto, TypeOK
  <2>2. \A s \in Reqs : Committed(s) => Committed(s)'
    BY <1>4, <2>1 DEF Receive, Committed
  <2> QED BY <1>4, <2>1, <2>2, OutsideStep DEF Receive, InTx
<1>5. ASSUME NEW r \in Reqs, Goto(r, "done"),
             pc[r] \in {"lookup", "raced", "respond"},
             \A s \in Reqs \ {r} : reply'[s] = reply[s],
             pc[r] = "respond" => reply'[r].code = 201,
             UNCHANGED <<store, expired, locks, req, tx>>
      PROVE  Kept
  <2>1. pc'[r] = "done" /\ \A s \in Reqs \ {r} : pc'[s] = pc[s]
    BY <1>1, <1>5 DEF Goto, TypeOK
  <2>2. \A s \in Reqs : Committed(s) => Committed(s)'
    BY <1>5, <2>1 DEF Committed
  <2> QED BY <1>5, <2>1, <2>2, OutsideStep DEF InTx
<1>6. ASSUME NEW r \in Reqs, pc[r] \in {"lookup", "begin"},
             NEW l \in {"begin", "quote", "rows"}, Goto(r, l),
             l = "rows" => ~IsTrade(r),
             UNCHANGED <<store, expired, locks, req, tx, reply>>
      PROVE  Kept
  <2>1. pc'[r] = l /\ \A s \in Reqs \ {r} : pc'[s] = pc[s]
    BY <1>1, <1>6 DEF Goto, TypeOK
  <2>2. \A s \in Reqs : Committed(s) => Committed(s)'
    BY <1>6, <2>1 DEF Committed
  <2> QED BY <1>6, <2>1, <2>2, SameCall, OutsideStep DEF InTx
<1>7. ASSUME NEW r \in Reqs, Lookup(r) PROVE Kept
  <2>1. CASE \E t \in Existing(r) : ReplayOrConflict(r, t)
    <3>1. Goto(r, "done") /\ \A s \in Reqs \ {r} : reply'[s] = reply[s]
      BY <1>1, <2>1 DEF ReplayOrConflict, Finish, TypeOK
    <3> QED BY <1>5, <1>7, <3>1 DEF Lookup
  <2>2. CASE Goto(r, "begin") /\ UNCHANGED reply
    BY <1>6, <1>7, <2>2 DEF Lookup
  <2> QED BY <1>7, <2>1, <2>2 DEF Lookup
<1>8. ASSUME NEW r \in Reqs, RacedLookup(r) PROVE Kept
  <2>1. Goto(r, "done") /\ \A s \in Reqs \ {r} : reply'[s] = reply[s]
    BY <1>1, <1>8 DEF RacedLookup, ReplayOrConflict, Finish, TypeOK
  <2> QED BY <1>5, <1>8, <2>1 DEF RacedLookup
<1>9. ASSUME NEW r \in Reqs, Begin(r) PROVE Kept
  <2>1. PICK l \in {"begin", "quote", "rows"} : /\ Goto(r, l)
                                               /\ l = "rows" => ~IsTrade(r)
    BY <1>9 DEF Begin
  <2> QED BY <1>6, <1>9, <2>1 DEF Begin
<1>10. ASSUME NEW r \in Reqs, Respond(r) PROVE Kept
  <2>1. /\ Goto(r, "done") /\ reply'[r].code = 201
        /\ \A s \in Reqs \ {r} : reply'[s] = reply[s]
    BY <1>1, <1>10 DEF Respond, Finish, TypeOK
  <2> QED BY <1>5, <1>10, <2>1 DEF Respond
<1>11. ASSUME NEW r \in Reqs, NEW code, Rollback(r, code), pc[r] # "done",
              pc[r] = "respond" => code = 500
       PROVE  Kept
  <2>1. /\ pc'[r] = "done" /\ reply'[r].code = code
        /\ \A s \in Reqs \ {r} : pc'[s] = pc[s] /\ reply'[s] = reply[s]
    BY <1>1, <1>11 DEF Rollback, Finish, Goto, TypeOK
  <2>2. \A s \in Reqs : Committed(s) => Committed(s)'
    BY <1>11, <2>1 DEF Committed
  <2> QED BY <1>11, <2>1, <2>2, EndTxIInv DEF Rollback, InTx
<1>12. ASSUME NEW r \in Reqs, LockQuote(r) PROVE Kept
  <2>1. CASE Rollback(r, Refusal(r))
    BY <1>11, <1>12, <2>1 DEF LockQuote
  <2>2. CASE ~Rollback(r, Refusal(r))
    BY <1>12, <2>2, LockStep DEF LockQuote
  <2> QED BY <2>1, <2>2
<1>13. ASSUME NEW r \in Reqs, InsertRow(r) \/ LockRow(r) \/ RowsLocked(r)
       PROVE  Kept
  BY <1>13, LockStep
<1>14. ASSUME NEW r \in Reqs, Debit(r) PROVE Kept
  <2>1. CASE Rollback(r, 422)
    BY <1>11, <1>14, <2>1 DEF Debit
  <2>2. CASE ~Rollback(r, 422)
    <3>1. /\ IsTrade(r) /\ req[r] \in Calls
          /\ DebitMinor(req[r].quote) \in Int /\ AccountAt(r, 1) \in Accounts
      BY <1>1, <1>14, EntryTypes, CallTypes, LegTypes, ConstantTypes
         DEF Debit, RequestsOK
    <3>2. /\ DebitEntry(req[r].client, req[r].quote, r).account = AccountAt(r, 1)
          /\ DebitEntry(req[r].client, req[r].quote, r).delta
                = - DebitMinor(req[r].quote)
      BY <3>1 DEF DebitEntry, Entry, AccountAt, CurrencyAt
    <3>3. balance[AccountAt(r, 1)] \in Int /\ tx[r].pend[AccountAt(r, 1)] \in Int
      BY <1>1, <3>1 DEF TypeOK
    <3>4. /\ balance[AccountAt(r, 1)] + tx[r].pend[AccountAt(r, 1)]
               - DebitMinor(req[r].quote) >= 0
          /\ Move(r, DebitEntry(req[r].client, req[r].quote, r))
          /\ Goto(r, "credit")
      BY <1>14, <2>2, <3>1, <3>2, <3>3 DEF Debit, Available
    <3> QED BY <1>14, <2>2, <3>4, DebitStep DEF Debit
  <2> QED BY <2>1, <2>2
<1>15. ASSUME NEW r \in Reqs, Credit(r) PROVE Kept
  <2>1. CASE Rollback(r, 500)
    BY <1>11, <1>15, <2>1 DEF Credit
  <2>2. CASE ~Rollback(r, 500)
    <3>1. req[r] \in Calls
      BY <1>1, <1>15 DEF Credit, RequestsOK
    <3>2. balance[AccountAt(r, 2)] + tx[r].pend[AccountAt(r, 2)]
             + CreditOf(r).delta <= MaxMinor
      BY <1>15, <2>2, <3>1, CreditAccount DEF Credit, Available
    <3> QED BY <1>15, <2>2, <3>2, CreditStep DEF Credit
  <2> QED BY <2>1, <2>2
<1>16. ASSUME NEW r \in Reqs, InsertTrade(r) PROVE Kept
  <2>1. CASE \E shape \in ErrorShapes : UniqueViolation(r, shape)
    <3>1. CASE \E code \in {409, 500} : Rollback(r, code)
      BY <1>11, <1>16, <3>1 DEF InsertTrade
    <3>2. CASE EndTx({r}) /\ Goto(r, "raced")
               /\ UNCHANGED <<store, expired, req, reply>>
      <4>1. pc'[r] = "raced" /\ \A s \in Reqs \ {r} : pc'[s] = pc[s]
        BY <1>1, <3>2 DEF Goto, TypeOK
      <4>2. \A s \in Reqs : Committed(s) => Committed(s)'
        BY <1>16, <3>2, <4>1 DEF InsertTrade, Committed
      <4> QED BY <3>2, <4>1, <4>2, EndTxIInv DEF InTx
    <3> QED BY <2>1, <3>1, <3>2 DEF UniqueViolation
  <2>2. CASE ~ \E t \in trades : Clash(t, r)
    BY <1>16, <2>2, InsertStep DEF InsertTrade
  <2> QED BY <1>16, <2>1, <2>2 DEF InsertTrade
<1>17. ASSUME NEW r \in Reqs, MarkExecuted(r) PROVE Kept
  BY <1>17, MarkStep
<1>18. ASSUME NEW r \in Reqs, Commit(r) PROVE Kept
  <2>1. pc'[r] = "respond" /\ \A s \in Reqs \ {r} : pc'[s] = pc[s]
    BY <1>1, <1>18 DEF Commit, Goto, TypeOK
  <2> QED BY <1>18, <2>1, PublishStep DEF Commit
<1>19. ASSUME NEW r \in Reqs, CommitAnswerLost(r) PROVE Kept
  <2>1. /\ pc'[r] = "done" /\ reply'[r].code = 500
        /\ \A s \in Reqs \ {r} : pc'[s] = pc[s] /\ reply'[s] = reply[s]
    BY <1>1, <1>19 DEF CommitAnswerLost, Finish, Goto, TypeOK
  <2> QED BY <1>19, <2>1, PublishStep DEF CommitAnswerLost
<1>20. ASSUME NEW r \in Reqs, DbError(r) PROVE Kept
  BY <1>11, <1>20 DEF DbError, InTx
<1>21. ASSUME NEW r \in Reqs, DeadlockVictim(r) PROVE Kept
  BY <1>11, <1>21 DEF DeadlockVictim, WaitsFor
<1>22. ASSUME Crash PROVE Kept
  <2> DEFINE inFlight == {r \in Reqs : pc[r] \notin {"idle", "done"}}
  <2>1. /\ \A r \in inFlight : pc'[r] = "done"
        /\ \A r \in Reqs \ inFlight : pc'[r] = pc[r]
        /\ UNCHANGED <<store, req, reply>> /\ EndTx(inFlight)
    BY <1>22 DEF Crash
  <2>2. \A s \in Reqs : Committed(s) => Committed(s)'
    BY <1>1, <2>1 DEF Committed, RequestsOK, NoReply
  <2> QED BY <2>1, <2>2, EndTxIInv DEF InTx
<1>23. ASSUME UNCHANGED vars PROVE Kept
  <2>1. ASSUME NEW s \in Reqs PROVE Holds(s)'
    BY <1>1, <1>23, HoldsFrame
  <2>2. KeyHeld'
    BY <1>1, <1>23, KeyFrame
  <2>3. StoreOK'
    BY <1>1, <1>23, StoreFrame DEF Committed
  <2> QED BY <2>1, <2>2, <2>3
<1>24. TypeOK' /\ RequestsOK' /\ Kept => IInv'
  BY DEF IInv
<1> HIDE DEF Kept
<1> QED
  BY <1>1, <1>24, <1>2, <1>3, <1>4, <1>7, <1>8, <1>9, <1>10, <1>12, <1>13, <1>14,
     <1>15, <1>16, <1>17, <1>18, <1>19, <1>20, <1>21, <1>22, <1>23
     DEF Next, Progress, Terminated

-----------------------------------------------------------------------------
(* What follows from it.                                                   *)

\* The inductive invariant holds in every reachable state.
THEOREM Invariance == Spec => []IInv
BY InitIInv, IInvStep, PTL DEF Spec

\* The variables keep their types.
THEOREM Typing == Spec => []TypeOK
<1>1. IInv => TypeOK
  BY DEF IInv
<1> QED BY Invariance, <1>1, PTL

\* For any clients, quotes, amounts, requests and pool: no account is ever
\* overdrawn or exceeds its column.
THEOREM Solvency == Spec => []Solvent
<1>1. IInv => Solvent
  BY DEF IInv, StoreOK
<1> QED BY Invariance, <1>1, PTL

\* An idempotency key never names two trades of a client.
THEOREM KeyUniqueness == Spec => []KeyNamesOneTrade
<1>1. IInv => KeyNamesOneTrade
  BY DEF IInv, StoreOK
<1> QED BY Invariance, <1>1, PTL

\* Each trade is booked by its two legs and by nothing else.
THEOREM Bookkeeping == Spec => []TradesAreBooked
<1>1. IInv => TradesAreBooked
  <2> SUFFICES ASSUME IInv PROVE TradesAreBooked
    OBVIOUS
  <2>1. RowsSayTheTruth /\ LedgerOK /\ trades \subseteq Trades
    BY DEF IInv, StoreOK, TypeOK
  <2>2. ASSUME NEW t \in trades
        PROVE  {e \in ledger : e.ref = t.id}
                 = {DebitEntry(Terms[t.quote].client, t.quote, t.id),
                    CreditEntry(Terms[t.quote].client, t.quote, t.id)}
    <3>1. \A e \in ledger : e.ref = t.id =>
              e \in {DebitEntry(t.client, t.quote, t.id),
                    CreditEntry(t.client, t.quote, t.id)}
      BY <2>1 DEF LedgerOK, RowsSayTheTruth
    <3>2. /\ DebitEntry(t.client, t.quote, t.id) \in ledger
          /\ CreditEntry(t.client, t.quote, t.id) \in ledger
          /\ t.client = Terms[t.quote].client
      BY <2>1 DEF RowsSayTheTruth
    <3>3. /\ DebitEntry(t.client, t.quote, t.id).ref = t.id
          /\ CreditEntry(t.client, t.quote, t.id).ref = t.id
      BY DEF DebitEntry, CreditEntry, Entry
    <3> QED BY <3>1, <3>2, <3>3
  <2>3. \A e \in ledger : e.reason = "TRADE" => \E t \in trades : t.id = e.ref
    BY <2>1 DEF LedgerOK
  <2> QED BY <2>2, <2>3 DEF TradesAreBooked
<1> QED BY Invariance, <1>1, PTL

\* A refused request has left no row, however far its transaction got.
THEOREM CleanRefusals == Spec => []RefusalLeavesNoTrace
<1>1. IInv => RefusalLeavesNoTrace
  <2> SUFFICES ASSUME IInv, NEW r \in Reqs,
                      reply[r].code \in {404, 409, 410, 422}
               PROVE  /\ \A e \in ledger : e.ref # r
                      /\ \A t \in trades : t.id # r
    BY DEF RefusalLeavesNoTrace
  <2>1. ~Committed(r)
    BY DEF IInv, RequestsOK, NoReply, Committed
  <2> QED BY <2>1, SeedAssumption DEF IInv, StoreOK, RowsSayTheTruth
<1> QED BY Invariance, <1>1, PTL

\* A quote is EXECUTED exactly when one trade settled it.
THEOREM SingleExecution == Spec => []ExecutedOnce
<1>1. IInv => ExecutedOnce
  <2> SUFFICES ASSUME IInv, NEW q \in QuoteIds
               PROVE  /\ Cardinality({t \in trades : t.quote = q}) <= 1
                      /\ quoteStatus[q] = "EXECUTED"
                           <=> {t \in trades : t.quote = q} # {}
    BY DEF ExecutedOnce
  <2> DEFINE settled == {t \in trades : t.quote = q}
  <2>1. RowsSayTheTruth /\ StatusOK
    BY DEF IInv, StoreOK
  <2>2. CASE settled = {}
    <3>1. quoteStatus[q] # "EXECUTED"
      BY <2>1, <2>2 DEF StatusOK
    <3>2. Cardinality(settled) = 0
      BY <2>2, FS_EmptySet
    <3> QED BY <2>2, <3>1, <3>2
  <2>3. CASE settled # {}
    <3>1. PICK t \in trades : t.quote = q
      BY <2>3
    <3>2. settled = {t}
      BY <2>1, <3>1 DEF RowsSayTheTruth
    <3>3. quoteStatus[q] = "EXECUTED"
      BY <2>1, <3>1 DEF RowsSayTheTruth
    <3>4. Cardinality(settled) = 1
      BY <3>2, FS_Singleton
    <3> QED BY <2>3, <3>3, <3>4
  <2> QED BY <2>2, <2>3
<1> QED BY Invariance, <1>1, PTL

-----------------------------------------------------------------------------
(* The refinement of Settlement.                                           *)

\* Both modules speak of the same entries and legs.
LEMMA Vocabulary ==
    /\ Settled!SeedEntries = SeedEntries
    /\ \A a, d, w, i : Settled!Entry(a, d, w, i) = Entry(a, d, w, i)
    /\ \A i, c, q, k : Settled!Trade(i, c, q, k) = Trade(i, c, q, k)
    /\ \A q : /\ Settled!DebitCurrency(q) = DebitCurrency(q)
              /\ Settled!CreditCurrency(q) = CreditCurrency(q)
              /\ Settled!DebitMinor(q) = DebitMinor(q)
              /\ Settled!CreditMinor(q) = CreditMinor(q)
    /\ \A c, q, i : /\ Settled!DebitEntry(c, q, i) = DebitEntry(c, q, i)
                    /\ Settled!CreditEntry(c, q, i) = CreditEntry(c, q, i)
BY DEF Settled!SeedEntries, Settled!FundedAccounts, Settled!Accounts, SeedEntries,
       FundedAccounts, Accounts, Settled!Entry, Entry, Settled!Trade, Trade,
       Settled!DebitCurrency, Settled!CreditCurrency, Settled!DebitMinor,
       Settled!CreditMinor, DebitCurrency, CreditCurrency, DebitMinor, CreditMinor,
       Settled!DebitEntry, Settled!CreditEntry, DebitEntry, CreditEntry

\* The COMMIT of a trade is one execution, the COMMIT of a deposit one
\* deposit: the checks made statements ago still hold.
LEMMA PublishRefines ==
    ASSUME IInv, NEW r \in Reqs, pc[r] = "commit", Publish(r)
    PROVE  Settled!Next
<1>1. /\ TypeOK /\ RequestsOK /\ (\A s \in Reqs : Holds(s)) /\ KeyHeld /\ StoreOK
      /\ req[r] \in Calls
  BY DEF IInv, RequestsOK
<1> DEFINE q == req[r].quote
           a1 == AccountAt(r, 1)
           a2 == AccountAt(r, 2)
           ce == CreditOf(r)
<1>2. /\ a1 \in Accounts /\ a2 \in Accounts /\ ce.delta \in Int
      /\ balance[a2] + ce.delta <= MaxMinor
  BY <1>1, EntryTypes, CreditAccount DEF Holds, FundsHeld, Credited
<1>3. /\ \A a \in Accounts : tx[r].pend[a] = PendOf(r, a)
      /\ tx[r].entries = EntriesOf(r)
      /\ tx[r].trade =
           IF IsTrade(r) THEN {Trade(r, req[r].client, q, req[r].key)} ELSE {}
      /\ tx[r].executed = IF IsTrade(r) THEN {q} ELSE {}
      /\ Credited(r) /\ (Debited(r) <=> IsTrade(r))
  BY <1>1 DEF Holds, WritesOK, Debited, Credited
<1>4. /\ \A e \in ledger : e.ref # r
      /\ \A t \in trades : t.id # r
  BY <1>1, SeedAssumption DEF StoreOK, RowsSayTheTruth, Committed
<1>5. CASE ~IsTrade(r)
  <2>1. /\ a1 = a2 /\ a2 = <<req[r].client, req[r].currency>>
        /\ ce = Entry(a2, req[r].minor, "DEPOSIT", r) /\ ce.delta = req[r].minor
        /\ req[r].kind = "deposit"
    BY <1>1, <1>5, CallsAssumption
       DEF AccountAt, CurrencyAt, CreditOf, Entry, IsTrade, TradeCalls, DepositCalls
  <2> HIDE DEF a1, a2, ce
  <2>2. \A a \in Accounts : tx[r].pend[a] = IF a = a2 THEN ce.delta ELSE 0
    BY <1>3, <1>5 DEF PendOf, a2, ce
  <2>3. ledger' = ledger \cup {ce}
    BY <1>3, <1>5 DEF Publish, EntriesOf, ce
  <2>4. trades' = trades /\ quoteStatus' = quoteStatus
    BY <1>1, <1>3, <1>5 DEF Publish, TypeOK
  <2>5. balance' = [balance EXCEPT ![a2] = @ + ce.delta]
    <3>1. \A a \in Accounts : balance'[a] =
              IF a = a2 THEN balance[a] + ce.delta ELSE balance[a]
      BY <1>1, <2>2 DEF Publish, TypeOK
    <3> QED BY <1>1, <3>1 DEF Publish, TypeOK
  <2>6. Settled!Deposit(r, a2, req[r].minor)
    BY <1>2, <1>4, <2>1, <2>3, <2>4, <2>5, Vocabulary DEF Settled!Deposit
  <2> QED BY <1>1, <2>1, <2>6 DEF Settled!Next
<1>6. CASE IsTrade(r)
  <2>1. /\ q \in QuoteIds /\ req[r].key \in Keys /\ a1 # a2
        /\ Terms[q].client = req[r].client /\ quoteStatus[q] = "ACTIVE"
        /\ balance[a1] >= DebitMinor(q)
        /\ a1 = <<Terms[q].client, DebitCurrency(q)>>
        /\ a2 = <<Terms[q].client, CreditCurrency(q)>>
        /\ ce = CreditEntry(Terms[q].client, q, r) /\ ce.delta = CreditMinor(q)
    <3>1. q \in QuoteIds /\ req[r].key \in Keys /\ a1 # a2
      BY <1>1, <1>6, CallTypes, EntryTypes
    <3>2. /\ Terms[q].client = req[r].client /\ quoteStatus[q] = "ACTIVE"
          /\ balance[a1] >= DebitMinor(q)
      BY <1>1, <1>6 DEF Holds, QuoteHeld, FundsHeld, Debited, InTx
    <3> QED BY <1>6, <3>1, <3>2
            DEF AccountAt, CurrencyAt, CreditOf, CreditEntry, Entry
  <2>2. DebitMinor(q) \in Int
    BY <2>1, LegTypes, ConstantTypes
  <2>3. \A t \in trades : t.quote # q
    BY <1>1, <2>1 DEF StoreOK, RowsSayTheTruth
  <2>4. \A t \in trades : ~(t.client = Terms[q].client /\ t.key = req[r].key)
    BY <1>1, <1>6, <2>1 DEF KeyHeld, SameKey
  <2> HIDE DEF a1, a2, ce, q
  <2>5. \A a \in Accounts : tx[r].pend[a] =
            IF a = a1 THEN - DebitMinor(q) ELSE IF a = a2 THEN ce.delta ELSE 0
    BY <1>3, <1>6 DEF PendOf, a1, a2, ce, q
  <2>6. balance' = [balance EXCEPT ![a1] = @ - DebitMinor(q),
                                   ![a2] = @ + CreditMinor(q)]
    <3> DEFINE b == [balance EXCEPT ![a1] = @ - DebitMinor(q),
                                    ![a2] = @ + CreditMinor(q)]
    <3>1. ASSUME NEW a \in Accounts PROVE balance'[a] = b[a]
      <4>1. balance'[a] = balance[a] + tx[r].pend[a] /\ balance[a] \in Int
        BY <1>1 DEF Publish, TypeOK
      <4>2. b[a] = IF a = a1 THEN balance[a] - DebitMinor(q)
                   ELSE IF a = a2 THEN balance[a] + CreditMinor(q)
                   ELSE balance[a]
        BY <1>1, <1>2, <2>1 DEF TypeOK
      <4>3. balance'[a] = IF a = a1 THEN balance[a] - DebitMinor(q)
                          ELSE IF a = a2 THEN balance[a] + CreditMinor(q)
                          ELSE balance[a]
        BY <1>2, <2>1, <2>2, <2>5, <4>1
      <4> QED BY <4>2, <4>3
    <3>2. balance' = [a \in Accounts |-> balance'[a]]
      BY DEF Publish
    <3>3. b = [a \in Accounts |-> b[a]]
      BY <1>1 DEF TypeOK
    <3> HIDE DEF b
    <3>4. balance' = b
      BY <3>1, <3>2, <3>3
    <3> QED BY <3>4 DEF b
  <2>7. ledger' = ledger \cup {DebitEntry(Terms[q].client, q, r),
                               CreditEntry(Terms[q].client, q, r)}
    BY <1>3, <1>6, <2>1 DEF Publish, EntriesOf, ce, q
  <2>8. trades' = trades \cup {Trade(r, Terms[q].client, q, req[r].key)}
    BY <1>3, <1>6, <2>1 DEF Publish
  <2>9. quoteStatus' = [quoteStatus EXCEPT ![q] = "EXECUTED"]
    BY <1>1, <1>3, <1>6 DEF Publish, TypeOK
  <2>10. Settled!Execute(r, q, req[r].key)
    BY <1>2, <1>4, <2>1, <2>3, <2>4, <2>6, <2>7, <2>8, <2>9, Vocabulary
       DEF Settled!Execute
  <2> QED BY <2>1, <2>10 DEF Settled!Next
<1> QED BY <1>5, <1>6

\* Every step is one of the abstract settlement or leaves its rows alone.
LEMMA StepRefines == IInv /\ [Next]_vars => [Settled!Next]_(Settled!vars)
<1> SUFFICES ASSUME IInv, [Next]_vars PROVE [Settled!Next]_(Settled!vars)
  OBVIOUS
<1>1. ASSUME UNCHANGED store PROVE UNCHANGED Settled!vars
  BY <1>1 DEF store, Settled!vars
<1>2. ASSUME NEW q \in QuoteIds, CreateQuote(q) PROVE Settled!Next
  BY <1>2 DEF CreateQuote, Settled!Next, Settled!CreateQuote
<1>3. ASSUME NEW r \in Reqs, Commit(r) \/ CommitAnswerLost(r)
      PROVE  Settled!Next
  BY <1>3, PublishRefines DEF Commit, CommitAnswerLost
<1>4. ASSUME \E r \in Reqs : InsertTrade(r) PROVE UNCHANGED store
  BY <1>4 DEF InsertTrade, UniqueViolation, Rollback
<1>5. ASSUME \E r \in Reqs : \/ Lookup(r) \/ Begin(r) \/ RacedLookup(r) \/ Respond(r)
                             \/ LockQuote(r) \/ InsertRow(r) \/ LockRow(r)
                             \/ RowsLocked(r)
      PROVE  UNCHANGED store
  BY <1>5 DEF Lookup, Begin, RacedLookup, Respond, LockQuote, Rollback, InsertRow,
              LockRow, Take, RowsLocked
<1>6. ASSUME \E r \in Reqs : \/ Debit(r) \/ Credit(r) \/ MarkExecuted(r)
                             \/ DbError(r) \/ DeadlockVictim(r)
      PROVE  UNCHANGED store
  BY <1>6 DEF Debit, Credit, Rollback, MarkExecuted, DbError, DeadlockVictim
<1>7. ASSUME \/ \E q \in QuoteIds : Expire(q)
             \/ \E r \in Reqs, call \in Calls : Receive(r, call)
             \/ Crash \/ UNCHANGED vars
      PROVE  UNCHANGED store
  BY <1>7 DEF Expire, Receive, Crash, vars
<1> QED
  BY <1>1, <1>2, <1>3, <1>4, <1>5, <1>6, <1>7 DEF Next, Progress, Terminated

\* For every value of the constants: seen through its committed rows, the
\* concurrent, failing, crashing execution is a sequence of indivisible
\* executions and deposits.
THEOREM Refinement == Spec => ImplementsSettlement
<1>1. Init => Settled!Init
  BY Vocabulary DEF Init, Settled!Init
<1> QED BY Invariance, <1>1, StepRefines, PTL DEF Spec, ImplementsSettlement, Settled!Spec

-----------------------------------------------------------------------------
(* Answers and expiry.                                                     *)

\* A success stays backed while its request keeps its answer: committed rows
\* are never deleted.
LEMMA BackedFrame ==
    ASSUME SuccessIsBacked, Answerable, trades \subseteq trades', ledger \subseteq ledger',
           NEW r \in Reqs, req'[r] = req[r], pc'[r] = pc[r], reply'[r] = reply[r]
    PROVE  /\ reply'[r].code \in {200, 201} =>
                IF IsTrade(r)'
                THEN \E t \in trades' :
                       /\ t.id = reply'[r].trade
                       /\ SameQuote(t, r)' /\ SameKey(t, r)'
                       /\ reply'[r].code = 201 <=> t.id = r
                ELSE CreditOf(r)' \in ledger'
           /\ pc'[r] = "respond" =>
                IF IsTrade(r)'
                THEN Trade(r, req'[r].client, req'[r].quote, req'[r].key) \in trades'
                ELSE CreditOf(r)' \in ledger'
<1> USE SameCall
<1>1. \A t : SameQuote(t, r)' = SameQuote(t, r)
  BY DEF SameQuote
<1> QED BY <1>1 DEF SuccessIsBacked, Answerable

\* A step that ends or moves one request by anything but a success or a COMMIT.
LEMMA BackedQuiet ==
    ASSUME TypeOK, SuccessIsBacked, Answerable,
           trades \subseteq trades', ledger \subseteq ledger',
           NEW gone \in SUBSET Reqs,
           \A s \in Reqs \ gone : req'[s] = req[s] /\ pc'[s] = pc[s]
                                  /\ reply'[s] = reply[s],
           \A s \in gone : reply'[s].code \notin {200, 201} /\ pc'[s] # "respond"
    PROVE  SuccessIsBacked' /\ Answerable'
<1>1. SuccessIsBacked'
  BY BackedFrame DEF SuccessIsBacked
<1>2. Answerable'
  BY BackedFrame DEF Answerable
<1> QED BY <1>1, <1>2

\* Every step keeps each 2xx answer, given or due, backed by its rows.
LEMMA BackedStep ==
    IInv /\ SuccessIsBacked /\ Answerable /\ [Next]_vars
      => SuccessIsBacked' /\ Answerable'
<1> SUFFICES ASSUME IInv, SuccessIsBacked, Answerable, [Next]_vars
             PROVE  SuccessIsBacked' /\ Answerable'
  OBVIOUS
<1> DEFINE Kept == SuccessIsBacked' /\ Answerable'
<1>1. /\ TypeOK /\ RequestsOK /\ (\A s \in Reqs : Holds(s)) /\ StoreOK
      /\ reply \in [Reqs -> [code: Codes, trade: Reqs \cup {NoReq}]]
  BY DEF IInv, TypeOK
<1>2. \A s \in Reqs : pc[s] # "done" => reply[s].code = 0
  BY <1>1 DEF RequestsOK, NoReply
<1>3. ASSUME NEW r \in Reqs, NEW l, l # "respond", pc[r] # "done", Goto(r, l),
             UNCHANGED <<ledger, trades, reply>>,
             \A s \in Reqs \ {r} : req'[s] = req[s]
      PROVE  Kept
  <2>1. pc'[r] = l /\ \A s \in Reqs \ {r} : pc'[s] = pc[s]
    BY <1>1, <1>3 DEF Goto, TypeOK
  <2>2. \A s \in {r} : reply'[s].code \notin {200, 201} /\ pc'[s] # "respond"
    BY <1>2, <1>3, <2>1
  <2>3. \A s \in Reqs \ {r} : req'[s] = req[s] /\ pc'[s] = pc[s] /\ reply'[s] = reply[s]
    BY <1>3, <2>1
  <2>4. {r} \in SUBSET Reqs /\ trades \subseteq trades' /\ ledger \subseteq ledger'
    BY <1>3
  <2> QED BY <1>1, <2>2, <2>3, <2>4, BackedQuiet
<1>4. ASSUME NEW r \in Reqs, NEW code, NEW id, code \notin {200, 201},
             Finish(r, code, id), trades \subseteq trades', ledger \subseteq ledger',
             UNCHANGED req
      PROVE  Kept
  <2>1. /\ pc'[r] = "done" /\ reply'[r].code = code
        /\ \A s \in Reqs \ {r} : pc'[s] = pc[s] /\ reply'[s] = reply[s]
    BY <1>1, <1>4 DEF Finish, Goto, TypeOK
  <2>2. \A s \in {r} : reply'[s].code \notin {200, 201} /\ pc'[s] # "respond"
    BY <1>4, <2>1
  <2>3. \A s \in Reqs \ {r} : req'[s] = req[s] /\ pc'[s] = pc[s] /\ reply'[s] = reply[s]
    BY <1>4, <2>1
  <2>4. {r} \in SUBSET Reqs
    OBVIOUS
  <2> QED BY <1>1, <1>4, <2>2, <2>3, <2>4, BackedQuiet
<1>5. ASSUME NEW r \in Reqs, NEW code, code \notin {200, 201}, Rollback(r, code)
      PROVE  Kept
  BY <1>4, <1>5 DEF Rollback, store
<1>6. ASSUME NEW r \in Reqs, NEW t \in Existing(r), ReplayOrConflict(r, t),
             pc[r] \in {"lookup", "raced"}, UNCHANGED <<store, req>>
      PROVE  Kept
  <2>1. CASE t.quote # req[r].quote
    BY <1>4, <1>6, <2>1 DEF ReplayOrConflict, store
  <2>2. CASE t.quote = req[r].quote
    <3>1. t \in trades /\ SameKey(t, r) /\ SameQuote(t, r) /\ t.id # r
      BY <1>1, <1>6, <2>2
         DEF Existing, SameQuote, StoreOK, RowsSayTheTruth, Committed
    <3>2. /\ pc'[r] = "done" /\ reply'[r] = [code |-> 200, trade |-> t.id]
          /\ \A s \in Reqs \ {r} : pc'[s] = pc[s] /\ reply'[s] = reply[s]
      BY <1>1, <1>6, <2>2 DEF ReplayOrConflict, Finish, Goto, TypeOK
    <3>3. IsTrade(r) /\ UNCHANGED <<ledger, trades, req>>
      BY <1>1, <1>6 DEF RequestsOK, store
    <3>4. SuccessIsBacked'
      BY <3>1, <3>2, <3>3, BackedFrame, SameCall DEF SuccessIsBacked, SameQuote
    <3>5. Answerable'
      BY <3>2, <3>3, BackedFrame DEF Answerable
    <3> QED BY <3>4, <3>5
  <2> QED BY <2>1, <2>2
<1>7. ASSUME NEW r \in Reqs, Respond(r) PROVE Kept
  <2>1. /\ pc[r] = "respond" /\ pc'[r] = "done"
        /\ reply'[r] = [code |-> 201, trade |-> IF IsTrade(r) THEN r ELSE NoReq]
        /\ \A s \in Reqs \ {r} : pc'[s] = pc[s] /\ reply'[s] = reply[s]
        /\ UNCHANGED <<ledger, trades, req>>
    BY <1>1, <1>7 DEF Respond, Finish, Goto, TypeOK, store
  <2>2. IsTrade(r) => \E t \in trades : /\ t.id = reply'[r].trade
                                        /\ SameQuote(t, r) /\ SameKey(t, r)
                                        /\ t.id = r
    <3> DEFINE u == Trade(r, req[r].client, req[r].quote, req[r].key)
    <3>1. IsTrade(r) => u \in trades
      BY <2>1 DEF Answerable
    <3>2. SameQuote(u, r) /\ SameKey(u, r) /\ u.id = r
      BY DEF Trade, SameQuote, SameKey
    <3>3. IsTrade(r) => u.id = reply'[r].trade
      BY <2>1, <3>2
    <3> HIDE DEF u
    <3> QED BY <3>1, <3>2, <3>3
  <2>3. ~IsTrade(r) => CreditOf(r) \in ledger
    BY <2>1 DEF Answerable
  <2>4. SuccessIsBacked'
    BY <2>1, <2>2, <2>3, BackedFrame, SameCall DEF SuccessIsBacked, SameQuote
  <2>5. Answerable'
    BY <2>1, BackedFrame DEF Answerable
  <2> QED BY <2>4, <2>5
<1>8. ASSUME NEW r \in Reqs, Publish(r)
      PROVE  trades \subseteq trades' /\ ledger \subseteq ledger'
  BY <1>8 DEF Publish
<1>9. ASSUME NEW r \in Reqs, Commit(r) PROVE Kept
  <2>1. /\ pc[r] = "commit" /\ pc'[r] = "respond"
        /\ \A s \in Reqs \ {r} : pc'[s] = pc[s]
        /\ UNCHANGED <<req, reply>>
    BY <1>1, <1>9 DEF Commit, Goto, TypeOK
  <2>2. /\ IsTrade(r) => Trade(r, req[r].client, req[r].quote, req[r].key) \in trades'
        /\ CreditOf(r) \in ledger'
    BY <1>1, <1>9, <2>1
       DEF Commit, Publish, Holds, WritesOK, EntriesOf, Credited
  <2>3. SuccessIsBacked'
    BY <1>2, <1>8, <1>9, <2>1, BackedFrame DEF SuccessIsBacked, Commit
  <2>4. Answerable'
    BY <1>8, <1>9, <2>1, <2>2, BackedFrame, SameCall DEF Answerable, Commit
  <2> QED BY <2>3, <2>4
<1>10. ASSUME NEW r \in Reqs, CommitAnswerLost(r) PROVE Kept
  BY <1>4, <1>8, <1>10 DEF CommitAnswerLost
<1>11. ASSUME UNCHANGED <<ledger, trades, pc, req, reply>> PROVE Kept
  <2>1. {} \in SUBSET Reqs /\ trades \subseteq trades' /\ ledger \subseteq ledger'
    BY <1>11
  <2>2. \A s \in Reqs \ {} : req'[s] = req[s] /\ pc'[s] = pc[s] /\ reply'[s] = reply[s]
    BY <1>11
  <2>3. \A s \in {} : reply'[s].code \notin {200, 201} /\ pc'[s] # "respond"
    OBVIOUS
  <2> QED BY <1>1, <2>1, <2>2, <2>3, BackedQuiet
<1>12. ASSUME Crash PROVE Kept
  <2> DEFINE inFlight == {r \in Reqs : pc[r] \notin {"idle", "done"}}
  <2>1. /\ \A r \in inFlight : pc'[r] = "done" /\ reply'[r].code = 0
        /\ \A r \in Reqs \ inFlight : pc'[r] = pc[r]
        /\ UNCHANGED <<ledger, trades, req, reply>>
    BY <1>2, <1>12 DEF Crash, store
  <2> HIDE DEF inFlight
  <2>2. inFlight \in SUBSET Reqs
    BY DEF inFlight
  <2> QED BY <1>1, <2>1, <2>2, BackedQuiet
<1>13. ASSUME NEW r \in Reqs, LockQuote(r) PROVE Kept
  <2>1. CASE Rollback(r, Refusal(r))
    BY <1>5, <1>13, <2>1 DEF LockQuote, Refusal
  <2>2. CASE Goto(r, "rows") /\ UNCHANGED <<store, req, reply>>
    BY <1>3, <1>13, <2>2 DEF LockQuote, store
  <2> QED BY <1>13, <2>1, <2>2 DEF LockQuote
<1>14. ASSUME NEW r \in Reqs, InsertTrade(r) PROVE Kept
  <2>1. CASE Rollback(r, 500) \/ Rollback(r, 409)
    BY <1>5, <2>1
  <2>2. CASE /\ Goto(r, "raced") \/ Goto(r, "mark")
             /\ UNCHANGED <<store, req, reply>>
    BY <1>3, <1>14, <2>2 DEF InsertTrade, store
  <2> QED BY <1>14, <2>1, <2>2 DEF InsertTrade, UniqueViolation
<1>15. ASSUME NEW r \in Reqs, Debit(r) \/ Credit(r) \/ MarkExecuted(r) PROVE Kept
  <2>1. CASE Rollback(r, 500) \/ Rollback(r, 422)
    BY <1>5, <2>1
  <2>2. CASE /\ \E l \in {"credit", "trade", "commit"} : Goto(r, l)
             /\ UNCHANGED <<store, req, reply>>
    BY <1>3, <1>15, <2>2 DEF Debit, Credit, MarkExecuted, store
  <2> QED BY <1>15, <2>1, <2>2 DEF Debit, Credit, MarkExecuted
<1>16. ASSUME NEW r \in Reqs, Lookup(r) \/ RacedLookup(r) PROVE Kept
  <2>1. CASE \E t \in Existing(r) : ReplayOrConflict(r, t)
    BY <1>6, <1>16, <2>1 DEF Lookup, RacedLookup
  <2>2. CASE Goto(r, "begin") /\ UNCHANGED reply
    BY <1>3, <1>16, <2>2 DEF Lookup, RacedLookup, store
  <2>3. CASE Finish(r, 500, NoReq)
    BY <1>4, <1>16, <2>3 DEF Lookup, RacedLookup, store
  <2> QED BY <1>16, <2>1, <2>2, <2>3 DEF Lookup, RacedLookup
<1>17. ASSUME NEW r \in Reqs, Begin(r) \/ RowsLocked(r) PROVE Kept
  <2>1. \E l \in {"quote", "rows", "debit", "credit"} : Goto(r, l)
    BY <1>17 DEF Begin, RowsLocked
  <2> QED BY <1>3, <1>17, <2>1 DEF Begin, RowsLocked, store
<1>18. ASSUME NEW r \in Reqs, DbError(r) \/ DeadlockVictim(r) PROVE Kept
  BY <1>5, <1>18 DEF DbError, DeadlockVictim
<1>19. ASSUME NEW r \in Reqs, NEW call \in Calls, Receive(r, call) PROVE Kept
  <2>1. /\ pc[r] = "idle" /\ \E l \in {"lookup", "begin"} : Goto(r, l)
        /\ \A s \in Reqs \ {r} : req'[s] = req[s]
        /\ UNCHANGED <<ledger, trades, reply>>
    BY <1>1, <1>19 DEF Receive, TypeOK, store
  <2> QED BY <1>3, <2>1
<1>20. ASSUME \/ \E q \in QuoteIds : CreateQuote(q) \/ Expire(q)
              \/ \E r \in Reqs : InsertRow(r) \/ LockRow(r)
              \/ UNCHANGED vars
       PROVE  Kept
  BY <1>11, <1>20 DEF CreateQuote, Expire, InsertRow, LockRow, Take, vars, store
<1> HIDE DEF Kept
<1>21. Kept
  BY <1>7, <1>9, <1>10, <1>12, <1>13, <1>14, <1>15, <1>16, <1>17, <1>18, <1>19, <1>20
     DEF Next, Progress, Terminated
<1> QED BY <1>21 DEF Kept

\* A 2xx answer is backed by committed rows of the call it answers.
THEOREM Durability == Spec => []SuccessIsBacked
<1>1. Init => SuccessIsBacked /\ Answerable
  BY DEF Init, SuccessIsBacked, Answerable, NoReply
<1> QED BY Invariance, <1>1, BackedStep, PTL DEF Spec

\* Once a quote has lapsed and nobody holds it, it is never executed.
THEOREM Expiry == Spec => LapsedQuoteStaysUnexecuted
<1> DEFINE A == \A q \in expired :
                  quoteStatus[q] = "ACTIVE" /\ quoteOwner[q] = NoReq
                    => quoteStatus'[q] = "ACTIVE" /\ quoteOwner'[q] = NoReq
<1>1. IInv /\ [Next]_vars => [A]_vars
  <2> SUFFICES ASSUME IInv, Next, NEW q \in expired,
                      quoteStatus[q] = "ACTIVE", quoteOwner[q] = NoReq
               PROVE  quoteStatus'[q] = "ACTIVE" /\ quoteOwner'[q] = NoReq
    OBVIOUS
  <2> DEFINE G == quoteStatus'[q] = "ACTIVE" /\ quoteOwner'[q] = NoReq
  <2>1. /\ TypeOK /\ RequestsOK /\ (\A s \in Reqs : Holds(s)) /\ q \in QuoteIds
    BY DEF IInv, TypeOK
  <2>2. ASSUME UNCHANGED <<quoteStatus, quoteOwner>> PROVE G
    BY <2>2
  <2>3. ASSUME NEW gone, EndTx(gone), UNCHANGED quoteStatus PROVE G
    BY <2>1, <2>3 DEF EndTx, Without, TypeOK
  <2>4. ASSUME NEW r \in Reqs, LockQuote(r) PROVE G
    <3>1. CASE Rollback(r, Refusal(r))
      BY <2>3, <3>1 DEF Rollback, store
    <3>2. CASE /\ Refusal(r) = 0
               /\ quoteOwner' = [quoteOwner EXCEPT ![req[r].quote] = r]
               /\ UNCHANGED store
      <4>1. req[r].quote # q
        BY <2>1, <3>2 DEF Refusal
      <4> QED BY <2>1, <3>2, <4>1 DEF TypeOK, store
    <3> QED BY <2>4, <3>1, <3>2 DEF LockQuote
  <2>5. ASSUME NEW r \in Reqs, pc[r] = "commit", Publish(r) PROVE G
    <3>1. q \notin tx[r].executed
      <4>1. tx[r].executed = IF IsTrade(r) THEN {req[r].quote} ELSE {}
        BY <2>1, <2>5 DEF Holds, WritesOK
      <4>2. IsTrade(r) => quoteOwner[req[r].quote] = r
        BY <2>1, <2>5 DEF Holds, QuoteHeld, InTx
      <4>3. r # NoReq
        BY NoReqAssumption
      <4> QED BY <4>1, <4>2, <4>3
    <3> QED BY <2>1, <2>5, <3>1 DEF Publish, EndTx, Without, TypeOK
  <2>6. ASSUME NEW x \in QuoteIds, CreateQuote(x) PROVE G
    BY <2>1, <2>6 DEF CreateQuote, locks, TypeOK
  <2>7. ASSUME \E r \in Reqs : \/ Lookup(r) \/ Begin(r) \/ RacedLookup(r)
                               \/ Respond(r) \/ InsertRow(r) \/ LockRow(r)
                               \/ RowsLocked(r) \/ MarkExecuted(r)
        PROVE  G
    BY <2>2, <2>7 DEF Lookup, Begin, RacedLookup, Respond, InsertRow, LockRow, Take,
                      RowsLocked, MarkExecuted, store, locks
  <2>8. ASSUME \E r \in Reqs : \/ Debit(r) \/ Credit(r) \/ DbError(r)
                               \/ DeadlockVictim(r)
        PROVE  G
    BY <2>2, <2>3, <2>8 DEF Debit, Credit, DbError, DeadlockVictim, Rollback, store, locks
  <2>9. ASSUME \E r \in Reqs : InsertTrade(r) PROVE G
    BY <2>2, <2>3, <2>9 DEF InsertTrade, UniqueViolation, Rollback, store, locks
  <2>10. ASSUME \/ \E x \in QuoteIds : Expire(x)
                \/ \E r \in Reqs, call \in Calls : Receive(r, call)
                \/ Crash \/ UNCHANGED vars
         PROVE  G
    BY <2>2, <2>3, <2>10 DEF Expire, Receive, Crash, vars, store, locks
  <2> HIDE DEF G
  <2>11. G
    BY <2>4, <2>5, <2>6, <2>7, <2>8, <2>9, <2>10
       DEF Next, Progress, Terminated, Commit, CommitAnswerLost
  <2> QED BY <2>11 DEF G
<1> QED BY Invariance, <1>1, PTL DEF Spec, LapsedQuoteStaysUnexecuted

-----------------------------------------------------------------------------
(* The life of a quote.                                                    *)

\* Locks on quote rows stay with the trades that took them for themselves.
LEMMA OwnersStep ==
    TypeOK /\ RequestsOK /\ OwnersOK /\ [Next]_vars => OwnersOK'
<1> SUFFICES ASSUME TypeOK, RequestsOK, OwnersOK, [Next]_vars PROVE OwnersOK'
  OBVIOUS
<1> DEFINE Kept == OwnersOK'
<1>1. ASSUME NEW gone \in SUBSET Reqs, EndTx(gone), UNCHANGED req,
             \A s \in Reqs \ gone : pc'[s] = pc[s]
      PROVE  Kept
  <2> SUFFICES ASSUME NEW q \in QuoteIds, NEW s \in Reqs, quoteOwner'[q] = s
               PROVE  pc'[s] \in InTx \ {"quote"} /\ IsTrade(s)' /\ req'[s].quote = q
    BY DEF OwnersOK
  <2>1. s \notin gone /\ quoteOwner[q] = s
    BY <1>1, NoReqAssumption DEF EndTx, Without, TypeOK
  <2> QED BY <1>1, <2>1 DEF OwnersOK, IsTrade
<1>2. ASSUME UNCHANGED quoteOwner,
             \A s \in Reqs : pc[s] \in InTx \ {"quote"} =>
                 pc'[s] \in InTx \ {"quote"} /\ req'[s] = req[s]
      PROVE  Kept
  BY <1>2 DEF OwnersOK, IsTrade
<1>3. ASSUME NEW r \in Reqs, NEW code, Rollback(r, code) PROVE Kept
  <2>1. EndTx({r}) /\ UNCHANGED req /\ \A s \in Reqs \ {r} : pc'[s] = pc[s]
    BY <1>3 DEF Rollback, Finish, Goto, TypeOK
  <2> QED BY <1>1, <2>1
<1>4. ASSUME NEW r \in Reqs, NEW l, Goto(r, l), pc[r] \in InTx \ {"quote"} => l \in InTx \ {"quote"},
             UNCHANGED <<quoteOwner, req>>
      PROVE  Kept
  BY <1>2, <1>4 DEF Goto, TypeOK
<1>5. ASSUME NEW r \in Reqs, LockQuote(r) PROVE Kept
  <2>1. CASE Refusal(r) # 0
    BY <1>3, <1>5, <2>1 DEF LockQuote
  <2>2. CASE Refusal(r) = 0
    <3>1. /\ quoteOwner' = [quoteOwner EXCEPT ![req[r].quote] = r]
          /\ Goto(r, "rows") /\ UNCHANGED req /\ pc[r] = "quote"
      BY <1>5, <2>2 DEF LockQuote
    <3>2. IsTrade(r) /\ pc'[r] = "rows" /\ \A s \in Reqs \ {r} : pc'[s] = pc[s]
      BY <3>1 DEF RequestsOK, Goto, TypeOK
    <3> QED BY <3>1, <3>2 DEF OwnersOK, IsTrade, TypeOK, InTx
  <2> QED BY <2>1, <2>2
<1>6. ASSUME NEW r \in Reqs, Lookup(r) \/ RacedLookup(r) \/ Respond(r) PROVE Kept
  <2>1. pc[r] \in {"lookup", "raced", "respond"} /\ UNCHANGED <<quoteOwner, req>>
    BY <1>6 DEF Lookup, RacedLookup, Respond, locks
  <2>2. \E l : Goto(r, l)
    BY <1>6 DEF Lookup, RacedLookup, Respond, ReplayOrConflict, Finish
  <2> QED BY <1>4, <2>1, <2>2 DEF InTx
<1>7. ASSUME NEW r \in Reqs, Begin(r) \/ RowsLocked(r) \/ MarkExecuted(r) PROVE Kept
  <2>1. /\ UNCHANGED <<quoteOwner, req>>
        /\ \E l : /\ Goto(r, l)
                  /\ pc[r] \in InTx \ {"quote"} => l \in InTx \ {"quote"}
    BY <1>7 DEF Begin, RowsLocked, MarkExecuted, locks, InTx
  <2> QED BY <1>4, <2>1
<1>8. ASSUME NEW r \in Reqs, Debit(r) \/ Credit(r) PROVE Kept
  <2>1. CASE \E code : Rollback(r, code)
    BY <1>3, <2>1
  <2>2. CASE UNCHANGED <<quoteOwner, req>> /\ \E l \in InTx \ {"quote"} : Goto(r, l)
    BY <1>4, <2>2
  <2> QED BY <1>8, <2>1, <2>2 DEF Debit, Credit, locks, InTx
<1>9. ASSUME NEW r \in Reqs, InsertTrade(r) PROVE Kept
  <2>1. CASE \E code : Rollback(r, code)
    BY <1>3, <2>1
  <2>2. CASE EndTx({r}) /\ Goto(r, "raced") /\ UNCHANGED req
    BY <1>1, <2>2 DEF Goto, TypeOK
  <2>3. CASE UNCHANGED <<quoteOwner, req>> /\ Goto(r, "mark")
    BY <1>4, <2>3 DEF InTx
  <2> QED BY <1>9, <2>1, <2>2, <2>3 DEF InsertTrade, UniqueViolation, locks
<1>10. ASSUME NEW r \in Reqs, Commit(r) \/ CommitAnswerLost(r) PROVE Kept
  <2>1. EndTx({r}) /\ UNCHANGED req /\ \A s \in Reqs \ {r} : pc'[s] = pc[s]
    BY <1>10 DEF Commit, CommitAnswerLost, Publish, Finish, Goto, TypeOK
  <2> QED BY <1>1, <2>1
<1>11. ASSUME Crash PROVE Kept
  <2> DEFINE inFlight == {r \in Reqs : pc[r] \notin {"idle", "done"}}
  <2>1. EndTx(inFlight) /\ UNCHANGED req /\ \A s \in Reqs \ inFlight : pc'[s] = pc[s]
    BY <1>11 DEF Crash
  <2>2. inFlight \in SUBSET Reqs
    OBVIOUS
  <2> HIDE DEF inFlight
  <2> QED BY <1>1, <2>1, <2>2
<1>12. ASSUME NEW r \in Reqs, NEW call \in Calls, Receive(r, call) PROVE Kept
  <2>1. /\ pc[r] = "idle" /\ UNCHANGED quoteOwner
        /\ \A s \in Reqs \ {r} : pc'[s] = pc[s] /\ req'[s] = req[s]
    BY <1>12 DEF Receive, Goto, locks, TypeOK
  <2> QED BY <1>2, <2>1 DEF InTx
<1>13. ASSUME \/ \E q \in QuoteIds : CreateQuote(q) \/ Expire(q)
              \/ \E r \in Reqs : InsertRow(r) \/ LockRow(r)
              \/ UNCHANGED vars
       PROVE  Kept
  BY <1>2, <1>13 DEF CreateQuote, Expire, InsertRow, LockRow, Take, vars, locks
<1>14. ASSUME NEW r \in Reqs, DbError(r) \/ DeadlockVictim(r) PROVE Kept
  BY <1>3, <1>14 DEF DbError, DeadlockVictim
<1> HIDE DEF Kept
<1>15. Kept
  BY <1>5, <1>6, <1>7, <1>8, <1>9, <1>10, <1>11, <1>12, <1>13, <1>14
     DEF Next, Progress, Terminated
<1> QED BY <1>15 DEF Kept

\* The end of transactions gives up the quotes they held.
LEMMA EndTxLife ==
    ASSUME TypeOK, NEW gone \in SUBSET Reqs, EndTx(gone),
           UNCHANGED <<quoteStatus, expired>>
    PROVE  [Life!Next]_(Life!life)
<1> DEFINE held == {q \in QuoteIds : quoteOwner[q] # NoReq}
           freed == {q \in QuoteIds : quoteOwner[q] \in gone}
<1>1. /\ freed \subseteq held
      /\ {q \in QuoteIds : quoteOwner'[q] # NoReq} = held \ freed
  BY NoReqAssumption DEF EndTx, Without, TypeOK
<1> HIDE DEF held, freed
<1>2. CASE freed = {}
  BY <1>1, <1>2 DEF Life!life, held
<1>3. CASE freed # {}
  <2>1. Life!Release(freed)
    BY <1>1, <1>3 DEF Life!Release, held
  <2>2. freed \in SUBSET QuoteIds
    BY DEF freed
  <2>3. Life!Next
    BY <2>1, <2>2 DEF Life!Next, Life!Release
  <2> QED BY <2>3
<1> QED BY <1>2, <1>3

\* COMMIT settles the quote of a trade, and no quote for a deposit.
LEMMA PublishLife ==
    ASSUME IInv, OwnersOK, NEW r \in Reqs, pc[r] = "commit", Publish(r),
           UNCHANGED expired
    PROVE  [Life!Next]_(Life!life)
<1>1. /\ TypeOK /\ RequestsOK /\ req[r] \in Calls /\ r # NoReq
      /\ tx[r].executed = IF IsTrade(r) THEN {req[r].quote} ELSE {}
      /\ EndTx({r})
  BY NoReqAssumption DEF IInv, RequestsOK, Holds, WritesOK, Publish
<1>2. CASE ~IsTrade(r)
  <2>1. UNCHANGED <<quoteStatus, expired>>
    BY <1>1, <1>2 DEF Publish, TypeOK
  <2> QED BY <1>1, <2>1, EndTxLife
<1>3. CASE IsTrade(r)
  <2> DEFINE q == req[r].quote
  <2>1. q \in QuoteIds /\ quoteOwner[q] = r
    BY <1>1, <1>3, CallTypes DEF IInv, Holds, QuoteHeld, InTx
  <2>2. \A p \in QuoteIds : quoteOwner[p] = r => p = q
    BY DEF OwnersOK
  <2>3. quoteStatus' = [quoteStatus EXCEPT ![q] = "EXECUTED"]
    BY <1>1, <1>3 DEF Publish, TypeOK
  <2>4. {p \in QuoteIds : quoteOwner'[p] # NoReq} =
          {p \in QuoteIds : quoteOwner[p] # NoReq} \ {q}
    BY <1>1, <2>1, <2>2 DEF EndTx, Without, TypeOK
  <2>5. Life!Settle(q)
    BY <1>1, <2>1, <2>3, <2>4 DEF Life!Settle
  <2>6. Life!Next
    BY <2>1, <2>5 DEF Life!Next, Life!Settle
  <2> QED BY <2>6
<1> QED BY <1>2, <1>3

\* Every step is one of the life of a quote or leaves it alone.
LEMMA LifeStep == IInv /\ OwnersOK /\ [Next]_vars => [Life!Next]_(Life!life)
<1> SUFFICES ASSUME IInv, OwnersOK, [Next]_vars PROVE [Life!Next]_(Life!life)
  OBVIOUS
<1> DEFINE Lives == [Life!Next]_(Life!life)
<1>1. TypeOK /\ RequestsOK
  BY DEF IInv
<1>2. ASSUME UNCHANGED <<quoteStatus, expired, quoteOwner>> PROVE Lives
  BY <1>2 DEF Life!life
<1>3. ASSUME NEW r \in Reqs, NEW code, Rollback(r, code) PROVE Lives
  BY <1>1, <1>3, EndTxLife DEF Rollback, store
<1>4. ASSUME NEW q \in QuoteIds, CreateQuote(q) PROVE Lives
  BY <1>4 DEF CreateQuote, locks, Life!Next, Life!Issue
<1>5. ASSUME NEW q \in QuoteIds, Expire(q) PROVE Lives
  <2>1. Life!Lapse({q})
    BY <1>5 DEF Expire, store, locks, Life!Lapse
  <2> QED BY <2>1 DEF Life!Next
<1>6. ASSUME NEW r \in Reqs, LockQuote(r) PROVE Lives
  <2>1. CASE Refusal(r) # 0
    BY <1>3, <1>6, <2>1 DEF LockQuote
  <2>2. CASE Refusal(r) = 0
    <3> DEFINE q == req[r].quote
    <3>1. /\ q \in QuoteIds /\ quoteOwner[q] = NoReq /\ r # NoReq
          /\ quoteStatus[q] = "ACTIVE" /\ q \notin expired
      BY <1>1, <1>6, <2>2, CallTypes, NoReqAssumption
         DEF LockQuote, Refusal, RequestsOK, TypeOK
    <3>2. /\ quoteOwner' = [quoteOwner EXCEPT ![q] = r]
          /\ UNCHANGED <<quoteStatus, expired>>
      BY <1>6, <2>2 DEF LockQuote, store
    <3>3. {p \in QuoteIds : quoteOwner'[p] # NoReq} =
            {p \in QuoteIds : quoteOwner[p] # NoReq} \cup {q}
      BY <1>1, <3>1, <3>2 DEF TypeOK
    <3>4. Life!Hold(q)
      BY <3>1, <3>2, <3>3 DEF Life!Hold
    <3>5. Life!Next
      BY <3>1, <3>4 DEF Life!Next, Life!Hold
    <3> QED BY <3>5
  <2> QED BY <2>1, <2>2
<1>7. ASSUME NEW r \in Reqs, Commit(r) \/ CommitAnswerLost(r) PROVE Lives
  BY <1>7, PublishLife DEF Commit, CommitAnswerLost
<1>8. ASSUME Crash PROVE Lives
  <2>1. {r \in Reqs : pc[r] \notin {"idle", "done"}} \in SUBSET Reqs
    OBVIOUS
  <2> QED BY <1>1, <1>8, <2>1, EndTxLife DEF Crash, store
<1>9. ASSUME NEW r \in Reqs, InsertTrade(r) PROVE Lives
  BY <1>1, <1>2, <1>3, <1>9, EndTxLife DEF InsertTrade, UniqueViolation, store, locks
<1>10. ASSUME \E r \in Reqs : Debit(r) \/ Credit(r) \/ DbError(r) \/ DeadlockVictim(r)
       PROVE  Lives
  BY <1>2, <1>3, <1>10 DEF Debit, Credit, DbError, DeadlockVictim, store, locks
<1>11. ASSUME \E r \in Reqs : \/ Lookup(r) \/ Begin(r) \/ RacedLookup(r)
                              \/ Respond(r) \/ InsertRow(r) \/ LockRow(r)
                              \/ RowsLocked(r) \/ MarkExecuted(r)
       PROVE  Lives
  BY <1>2, <1>11 DEF Lookup, Begin, RacedLookup, Respond, InsertRow, LockRow, Take,
                     RowsLocked, MarkExecuted, store, locks
<1>12. ASSUME \/ \E r \in Reqs, call \in Calls : Receive(r, call)
              \/ UNCHANGED vars
       PROVE  Lives
  BY <1>2, <1>12 DEF Receive, vars, store, locks
<1> HIDE DEF Lives
<1>13. Lives
  BY <1>4, <1>5, <1>6, <1>7, <1>8, <1>9, <1>10, <1>11, <1>12
     DEF Next, Progress, Terminated
<1> QED BY <1>13 DEF Lives

\* For every value of the constants: whatever the requests do, wait for, fail
\* at or die of, each quote lives the life of QuoteLife.
THEOREM Lifecycle == Spec => ImplementsQuoteLife
<1>1. Init => Life!Init
  BY DEF Init, Life!Init
<1>2. Init => OwnersOK
  BY NoReqAssumption DEF Init, OwnersOK
<1> QED
  BY Invariance, OwnersStep, LifeStep, <1>1, <1>2, PTL
     DEF Spec, IInv, ImplementsQuoteLife, Life!Spec
=============================================================================
