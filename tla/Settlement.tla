----------------------------- MODULE Settlement -----------------------------
(***************************************************************************)
(* What the ledger, the quotes and the trades promise to whoever reads the *)
(* database: money moves only by a deposit or by the execution of a quote, *)
(* each of them indivisible.  No request, transaction, lock or failure is  *)
(* visible here; TradeExecution has them all and implements this.          *)
(***************************************************************************)
EXTENDS FxData

VARIABLES
    quoteStatus,    \* [QuoteIds -> {"ABSENT", "ACTIVE", "EXECUTED"}]
    balance,        \* balances.available_minor, 0 where there is no row
    ledger,         \* the rows of ledger_entries
    trades          \* the rows of trades

vars == <<quoteStatus, balance, ledger, trades>>

Init ==
    /\ quoteStatus = [q \in QuoteIds |-> "ABSENT"]
    /\ balance = Funding
    /\ ledger = SeedEntries
    /\ trades = {}

CreateQuote(q) ==
    /\ quoteStatus[q] = "ABSENT"
    /\ quoteStatus' = [quoteStatus EXCEPT ![q] = "ACTIVE"]
    /\ UNCHANGED <<balance, ledger, trades>>

\* The owner of an ACTIVE quote trades on it, under a key it has not used,
\* with funds that cover the debit.
Execute(id, q, key) ==
    LET client == Terms[q].client
        debit == <<client, DebitCurrency(q)>>
        credit == <<client, CreditCurrency(q)>>
    IN  /\ quoteStatus[q] = "ACTIVE"
        /\ \A t \in trades :
              t.id # id /\ t.quote # q /\ ~(t.client = client /\ t.key = key)
        /\ balance[debit] >= DebitMinor(q)
        /\ balance[credit] + CreditMinor(q) <= MaxMinor
        /\ balance' = [balance EXCEPT ![debit] = @ - DebitMinor(q),
                                      ![credit] = @ + CreditMinor(q)]
        /\ ledger' = ledger \cup {DebitEntry(client, q, id),
                                  CreditEntry(client, q, id)}
        /\ trades' = trades \cup {Trade(id, client, q, key)}
        /\ quoteStatus' = [quoteStatus EXCEPT ![q] = "EXECUTED"]

Deposit(id, account, minor) ==
    /\ balance[account] + minor <= MaxMinor
    /\ \A e \in ledger : e.ref # id
    /\ balance' = [balance EXCEPT ![account] = @ + minor]
    /\ ledger' = ledger \cup {Entry(account, minor, "DEPOSIT", id)}
    /\ UNCHANGED <<quoteStatus, trades>>

Next ==
    \/ \E q \in QuoteIds : CreateQuote(q)
    \/ \E id \in Reqs, q \in QuoteIds, key \in Keys : Execute(id, q, key)
    \/ \E id \in Reqs, call \in {c \in Calls : c.kind = "deposit"} :
          Deposit(id, <<call.client, call.currency>>, call.minor)

Spec == Init /\ [][Next]_vars
=============================================================================
