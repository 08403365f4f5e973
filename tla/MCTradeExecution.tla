-------------------------- MODULE MCTradeExecution --------------------------
(* Instances of TradeExecution for TLC. *)
EXTENDS TradeInvariant, TLC

CONSTANTS alice, bob, q1, q2, q3, q4, k1, k2, k3, r1, r2, r3

BTC == 1
USDT == 2

Quote(client, side, base, quote, baseMinor, quoteMinor) ==
    [client |-> client, side |-> side, base |-> base, quote |-> quote,
     baseMinor |-> baseMinor, quoteMinor |-> quoteMinor]

TradeCall(client, quote, key) ==
    [kind |-> "trade", client |-> client, quote |-> quote, key |-> key]
DepositCall(client, currency, minor) ==
    [kind |-> "deposit", client |-> client, currency |-> currency,
     minor |-> minor]

\* A purchase and a sale over the same two accounts of one client.
MCTerms == q1 :> Quote(alice, "BUY", BTC, USDT, 2, 1)
        @@ q2 :> Quote(alice, "SELL", BTC, USDT, 1, 1)

\* The owner of the quotes has no row until it deposits, which pays for the
\* purchase, which pays for the sale.  The stranger could afford the purchase.
MCFunding == [a \in Clients \X Currencies |-> IF a = <<bob, USDT>> THEN 2 ELSE 0]

\* Executions, retries, one key on two quotes, a stranger and a deposit.
MCCalls == {TradeCall(alice, q1, k1), TradeCall(alice, q2, k1),
            TradeCall(alice, q2, k2), TradeCall(bob, q1, k1),
            DepositCall(alice, USDT, 2)}

MCSymmetry == Permutations(Reqs)

-----------------------------------------------------------------------------
(* Progress is checked in two scenarios.  In the first two requests meet at
   balance rows: one client has funds, the other opposite quotes over accounts
   that have no row, and a deposit leaves no room for a purchase.  In the second
   there are more requests than connections, with one key on two quotes over
   disjoint accounts: they meet at the quote row, at the unique index, in the
   lookup after a lost race and at the pool. *)
ProgressTerms == q1 :> Quote(alice, "BUY", BTC, USDT, 2, 1)
              @@ q2 :> Quote(alice, "BUY", 4, 5, 1, 1)
              @@ q3 :> Quote(alice, "SELL", 4, 5, 1, 1)
              @@ q4 :> Quote(alice, "SELL", 3, 4, 1, 1)

ProgressFunding ==
    [a \in Clients \X Currencies |->
        CASE a[2] = USDT -> 2 [] a[2] = 3 -> 1 [] OTHER -> 0]

CallList == <<TradeCall(alice, q1, k1), TradeCall(alice, q4, k1),
              TradeCall(alice, q2, k2), TradeCall(alice, q3, k3),
              DepositCall(alice, BTC, 1)>>
ProgressCalls == {CallList[i] : i \in 1 .. 5}
RowCalls == {CallList[i] : i \in {1, 3, 4, 5}}
KeyCalls == {CallList[i] : i \in {1, 2}}

Requests == <<r1, r2, r3>>
Asked == {req'[r] : r \in Reqs} \ {NoCall}
Issued == {q \in QuoteIds : quoteStatus'[q] # "ABSENT"}

\* One quote may lapse: another that has lapsed is refused as that one is.
OneLapses == expired' \subseteq {q1}

AtRows == Asked \subseteq RowCalls /\ req'[r3] = NoCall /\ q4 \notin Issued
AtKeys == Asked \subseteq KeyCalls /\ Issued \subseteq {q1, q4}

\* Symmetry by hand, as TLC has none for liveness: requests can change names,
\* so they have their calls in the order of CallList.
InOrder ==
    \A i, j \in 1 .. 3, m, n \in 1 .. 5 :
        i < j /\ req'[Requests[i]] = CallList[m]
              /\ req'[Requests[j]] = CallList[n] => m <= n

\* The first scenario leaves a request unused.
AtRest == (\A r \in Reqs : pc[r] \in {"idle", "done"}) /\ UNCHANGED vars

ProgressNext == (Next /\ InOrder /\ OneLapses /\ (AtRows \/ AtKeys)) \/ AtRest
ProgressSpec == Init /\ [][ProgressNext]_vars /\ Fairness
=============================================================================
