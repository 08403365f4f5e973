--------------------------- MODULE TradeInvariant ---------------------------
(***************************************************************************)
(* The inductive invariant of TradeExecution: what each request may rely   *)
(* on at each statement of its transaction, and what the committed rows    *)
(* say about the requests that wrote them.                                 *)
(***************************************************************************)
EXTENDS TradeExecution

\* A request past a point has asked for what takes it there.
RequestsOK ==
    \A r \in Reqs :
        /\ pc[r] # "idle" => req[r] \in Calls
        /\ pc[r] \in {"lookup", "quote", "debit", "trade", "mark", "raced"}
             => IsTrade(r)
        /\ pc[r] # "done" => reply[r] = NoReply

\* The quote row is locked from the SELECT FOR UPDATE to the end of the
\* transaction, and stays as the checks found it.
QuoteHeld(r) ==
    IsTrade(r) /\ pc[r] \in InTx \ {"quote"} =>
        /\ quoteOwner[req[r].quote] = r
        /\ quoteStatus[req[r].quote] = "ACTIVE"
        /\ Terms[req[r].quote].client = req[r].client

\* lockBalanceRows returned: its rows are locked to the end.
RowsHeld(r) ==
    pc[r] \in InTx \ {"quote", "rows"} =>
        rowOwner[AccountAt(r, 1)] = r /\ rowOwner[AccountAt(r, 2)] = r

\* How far the movements of the transaction of r have come.
Debited(r) ==
    IsTrade(r) /\ pc[r] \in {"credit", "trade", "mark", "commit"}
Credited(r) == pc[r] \in {"trade", "mark", "commit"}

\* The balances that a statement has checked still allow what is pending.
FundsHeld(r) ==
    /\ Debited(r) => balance[AccountAt(r, 1)] >= DebitMinor(req[r].quote)
    /\ Credited(r) => balance[AccountAt(r, 2)] + CreditOf(r).delta <= MaxMinor

\* What the transaction of r has written so far.
PendOf(r, a) ==
    IF Debited(r) /\ a = AccountAt(r, 1) THEN - DebitMinor(req[r].quote)
    ELSE IF Credited(r) /\ a = AccountAt(r, 2) THEN CreditOf(r).delta
    ELSE 0

EntriesOf(r) ==
    (IF Debited(r) THEN {DebitEntry(req[r].client, req[r].quote, r)} ELSE {})
    \cup (IF Credited(r) THEN {CreditOf(r)} ELSE {})

WritesOK(r) ==
    /\ \A a \in Accounts : tx[r].pend[a] = PendOf(r, a)
    /\ tx[r].entries = EntriesOf(r)
    /\ tx[r].trade =
         IF IsTrade(r) /\ pc[r] \in {"mark", "commit"}
         THEN {Trade(r, req[r].client, req[r].quote, req[r].key)} ELSE {}
    /\ tx[r].executed =
         IF IsTrade(r) /\ pc[r] = "commit" THEN {req[r].quote} ELSE {}

Holds(r) == QuoteHeld(r) /\ RowsHeld(r) /\ FundsHeld(r) /\ WritesOK(r)

\* The unique index has been passed: nobody else has, or will have, the key.
KeyHeld ==
    \A r \in Reqs : IsTrade(r) /\ pc[r] \in {"mark", "commit"} =>
        /\ \A t \in trades : ~SameKey(t, r)
        /\ \A s \in Reqs \ {r} : \A t \in tx[s].trade : ~SameKey(t, r)

\* A row that names a request was committed by it, and the request has not
\* been refused.
Committed(r) ==
    \/ pc[r] = "respond"
    \/ pc[r] = "done" /\ reply[r].code \in {0, 201, 500}

RowsSayTheTruth ==
    /\ \A e \in ledger : e.ref # "seed" => Committed(e.ref)
    /\ \A t \in trades :
         /\ Committed(t.id)
         /\ t.client = Terms[t.quote].client
         /\ quoteStatus[t.quote] = "EXECUTED"
         /\ DebitEntry(t.client, t.quote, t.id) \in ledger
         /\ CreditEntry(t.client, t.quote, t.id) \in ledger
    /\ \A t, u \in trades : t.id = u.id \/ t.quote = u.quote => t = u

\* What the entries of one request are.
LedgerOK ==
    \A e \in ledger :
        \/ e.reason = "DEPOSIT" /\ \A t \in trades : t.id # e.ref
        \/ \E t \in trades :
             /\ t.id = e.ref
             /\ \/ e = DebitEntry(t.client, t.quote, t.id)
                \/ e = CreditEntry(t.client, t.quote, t.id)

\* A quote is EXECUTED because a trade settled it.
StatusOK ==
    \A q \in QuoteIds :
        quoteStatus[q] = "EXECUTED" => \E t \in trades : t.quote = q

StoreOK == RowsSayTheTruth /\ LedgerOK /\ StatusOK /\ Solvent /\ KeyNamesOneTrade

IInv == TypeOK /\ RequestsOK /\ (\A r \in Reqs : Holds(r)) /\ KeyHeld /\ StoreOK

\* Once committed, a request has the row it will answer with; together with
\* IInv this makes SuccessIsBacked inductive.
Answerable ==
    \A r \in Reqs : pc[r] = "respond" =>
        IF IsTrade(r)
        THEN Trade(r, req[r].client, req[r].quote, req[r].key) \in trades
        ELSE CreditOf(r) \in ledger

\* A quote row is held by nobody but the trade that asked for it, while its
\* transaction lasts: the converse of QuoteHeld.
OwnersOK ==
    \A q \in QuoteIds, r \in Reqs : quoteOwner[q] = r =>
        pc[r] \in InTx \ {"quote"} /\ IsTrade(r) /\ req[r].quote = q
=============================================================================
