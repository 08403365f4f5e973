---------------------------- MODULE LedgerProofs ----------------------------
(***************************************************************************)
(* Theorems about TradeExecution that need counting: the balances are the  *)
(* sums of their ledger entries, and what a cycle of waiting transactions  *)
(* looks like.                                                             *)
(***************************************************************************)
EXTENDS TradeExecutionProofs

-----------------------------------------------------------------------------
(* Sums over finite sets.  A property of all finite sets is proved by      *)
(* looking at a smallest one without it.                                   *)

Pick(s) == CHOOSE x \in s : TRUE
Total(S) == MapThenSumSet(LAMBDA e : e.delta, S)

\* f adds up the deltas of every subset of S.
SumsUp(f, S) ==
    f = [s \in SUBSET S |->
           IF s = {} THEN 0 ELSE Pick(s).delta + f[s \ {Pick(s)}]]

\* Every set of finite sets has a member of which it has no proper subset.
LEMMA Smallest ==
    ASSUME NEW S, IsFiniteSet(S), NEW T \in SUBSET SUBSET S, T # {}
    PROVE  \E s \in T : \A t \in T : t \subseteq s => t = s
<1>1. T \subseteq FiniteSubsetsOf(S)
  BY FS_Subset DEF FiniteSubsetsOf
<1>2. \E s \in T : \A t \in T : <<t, s>> \notin StrictSubsetOrdering(S)
  BY <1>1, FS_StrictSubsetOrderingWellFounded, WFMin
<1> QED
  BY <1>2 DEF StrictSubsetOrdering

LEMMA PickIn == ASSUME NEW s, s # {} PROVE Pick(s) \in s
BY DEF Pick

LEMMA SumsAgree ==
    ASSUME NEW S, NEW f, NEW g, NEW T \in SUBSET S, IsFiniteSet(T),
           SumsUp(f, S), SumsUp(g, T)
    PROVE  f[T] = g[T]
<1> DEFINE Bad == {s \in SUBSET T : f[s] # g[s]}
<1>1. CASE Bad # {}
  <2>1. PICK s \in Bad : \A t \in Bad : t \subseteq s => t = s
    <3>1. Bad \in SUBSET SUBSET T
      OBVIOUS
    <3> HIDE DEF Bad
    <3> QED
      BY <1>1, <3>1, Smallest
  <2>2. s # {}
    BY <2>1 DEF SumsUp
  <2>3. Pick(s) \in s
    BY <2>2, PickIn
  <2>4. s \ {Pick(s)} \notin Bad
    BY <2>1, <2>3
  <2>5. f[s \ {Pick(s)}] = g[s \ {Pick(s)}]
    BY <2>1, <2>4
  <2>6. /\ f[s] = Pick(s).delta + f[s \ {Pick(s)}]
        /\ g[s] = Pick(s).delta + g[s \ {Pick(s)}]
    BY <2>1, <2>2 DEF SumsUp
  <2> QED
    BY <2>1, <2>5, <2>6
<1> QED
  BY <1>1

LEMMA TotalSumsUp ==
    ASSUME NEW S, IsFiniteSet(S)
    PROVE  \E f : SumsUp(f, S)
<1> DEFINE Bad == {s \in SUBSET S : ~ \E f : SumsUp(f, s)}
<1>1. CASE Bad # {}
  <2>1. PICK T \in Bad : \A t \in Bad : t \subseteq T => t = T
    <3>1. Bad \in SUBSET SUBSET S
      OBVIOUS
    <3> HIDE DEF Bad
    <3> QED
      BY <1>1, <3>1, Smallest
  <2> DEFINE h(s) == CHOOSE f : SumsUp(f, s)
             f == [s \in SUBSET T |->
                     IF s = {} THEN 0
                     ELSE Pick(s).delta + h(s \ {Pick(s)})[s \ {Pick(s)}]]
  <2>2. ASSUME NEW s \in SUBSET T, s # {}
        PROVE  f[s] = Pick(s).delta + f[s \ {Pick(s)}]
    <3> DEFINE t == s \ {Pick(s)}
    <3>1. t \in SUBSET T /\ t # T
      BY <2>2, PickIn
    <3>2. SumsUp(h(t), t)
      BY <2>1, <3>1
    <3>3. ASSUME t = {} PROVE h(t)[t] = f[t]
      BY <3>2, <3>3 DEF SumsUp
    <3>4. ASSUME t # {} PROVE h(t)[t] = f[t]
      <4> DEFINE u == t \ {Pick(t)}
      <4>1. h(t)[t] = Pick(t).delta + h(t)[u]
        BY <3>2, <3>4 DEF SumsUp
      <4>2. u \in SUBSET T /\ u # T /\ u \in SUBSET t
        BY <3>1, <3>4
      <4>3. SumsUp(h(u), u)
        BY <2>1, <4>2
      <4>4. IsFiniteSet(u)
        BY <2>1, <4>2, FS_Subset
      <4>5. h(t)[u] = h(u)[u]
        BY <3>2, <4>2, <4>3, <4>4, SumsAgree
      <4>6. f[t] = Pick(t).delta + h(u)[u]
        BY <3>1, <3>4
      <4> QED
        BY <4>1, <4>5, <4>6
    <3>5. h(t)[t] = f[t]
      BY <3>3, <3>4
    <3>6. f[s] = Pick(s).delta + h(t)[t]
      BY <2>2
    <3> QED
      BY <3>5, <3>6, Zenon
  <2>3. f[{}] = 0
    OBVIOUS
  <2>4. DOMAIN f = SUBSET T /\ f = [s \in SUBSET T |-> f[s]]
    OBVIOUS
  <2> HIDE DEF f
  <2>5. SumsUp(f, T)
    BY <2>2, <2>3, <2>4 DEF SumsUp
  <2> QED
    BY <2>1, <2>5
<1> QED
  BY <1>1

LEMMA TotalIs ==
    ASSUME NEW S, IsFiniteSet(S)
    PROVE  \E f : SumsUp(f, S) /\ Total(S) = f[S]
<1> DEFINE g == CHOOSE f : SumsUp(f, S)
<1>1. SumsUp(g, S)
  BY TotalSumsUp
<1>2. Total(S) = g[S]
  BY DEF Total, MapThenSumSet, MapThenFoldSet, SumsUp, Pick
<1> QED
  BY <1>1, <1>2

LEMMA SumsAreIntegers ==
    ASSUME NEW S, IsFiniteSet(S), \A e \in S : e.delta \in Int,
           NEW f, SumsUp(f, S)
    PROVE  \A s \in SUBSET S : f[s] \in Int
<1> DEFINE Bad == {s \in SUBSET S : f[s] \notin Int}
<1>1. CASE Bad # {}
  <2>1. PICK s \in Bad : \A t \in Bad : t \subseteq s => t = s
    <3>1. Bad \in SUBSET SUBSET S
      OBVIOUS
    <3> HIDE DEF Bad
    <3> QED
      BY <1>1, <3>1, Smallest
  <2>2. s # {}
    BY <2>1 DEF SumsUp
  <2>3. f[s \ {Pick(s)}] \in Int /\ Pick(s).delta \in Int
    BY <2>1, <2>2, PickIn
  <2>4. f[s] = Pick(s).delta + f[s \ {Pick(s)}]
    BY <2>1, <2>2 DEF SumsUp
  <2> QED
    BY <2>1, <2>3, <2>4
<1> QED
  BY <1>1

\* The order in which Pick goes through a set makes no difference.
LEMMA AnyOrder ==
    ASSUME NEW S, IsFiniteSet(S), \A e \in S : e.delta \in Int,
           NEW f, SumsUp(f, S)
    PROVE  \A s \in SUBSET S : \A x \in s : f[s] = x.delta + f[s \ {x}]
<1> DEFINE Good(s) == \A x \in s : f[s] = x.delta + f[s \ {x}]
           Bad == {s \in SUBSET S : ~Good(s)}
<1>1. CASE Bad # {}
  <2>1. PICK s \in Bad : \A t \in Bad : t \subseteq s => t = s
    <3>1. Bad \in SUBSET SUBSET S
      OBVIOUS
    <3> HIDE DEF Bad
    <3> QED
      BY <1>1, <3>1, Smallest
  <2>2. PICK x \in s : f[s] # x.delta + f[s \ {x}]
    BY <2>1
  <2> DEFINE p == Pick(s)
             both == s \ {x, p}
  <2>3. p \in s /\ f[s] = p.delta + f[s \ {p}]
    BY <2>1, <2>2, PickIn DEF SumsUp
  <2>4. x # p
    BY <2>2, <2>3
  <2>5. Good(s \ {p}) /\ Good(s \ {x})
    BY <2>1, <2>2, <2>3
  <2>6. both = (s \ {p}) \ {x} /\ both = (s \ {x}) \ {p}
    OBVIOUS
  <2>7. f[s \ {p}] = x.delta + f[both]
    BY <2>2, <2>4, <2>5, <2>6
  <2>8. f[s \ {x}] = p.delta + f[both]
    BY <2>3, <2>4, <2>5, <2>6
  <2>9. x.delta \in Int /\ p.delta \in Int /\ f[both] \in Int
    BY <2>1, <2>2, <2>3, SumsAreIntegers
  <2> QED
    BY <2>2, <2>3, <2>7, <2>8, <2>9
<1> QED
  BY <1>1

LEMMA TotalOfNothing == Total({}) = 0
BY FS_EmptySet, TotalIs DEF SumsUp

LEMMA TotalWith ==
    ASSUME NEW S, IsFiniteSet(S), NEW x, x \notin S,
           \A e \in S \cup {x} : e.delta \in Int
    PROVE  Total(S \cup {x}) = Total(S) + x.delta
<1> DEFINE T == S \cup {x}
<1>1. IsFiniteSet(T)
  BY FS_AddElement
<1>2. PICK f : SumsUp(f, T) /\ Total(T) = f[T]
  BY <1>1, TotalIs
<1>3. PICK g : SumsUp(g, S) /\ Total(S) = g[S]
  BY TotalIs
<1>4. f[S] = g[S]
  <2>1. S \in SUBSET T
    OBVIOUS
  <2> QED
    BY <1>2, <1>3, <2>1, SumsAgree
<1>5. f[T] = x.delta + f[S]
  <2>1. T \ {x} = S
    OBVIOUS
  <2> QED
    BY <1>1, <1>2, <2>1, AnyOrder
<1>6. f[S] \in Int /\ x.delta \in Int
  BY <1>1, <1>2, SumsAreIntegers
<1> QED
  BY <1>2, <1>3, <1>4, <1>5, <1>6

-----------------------------------------------------------------------------
(* Balances.                                                               *)

EntriesAt(a) == {e \in ledger : e.account = a}

\* The inductive invariant: an account has finitely many entries, and they
\* add up to its balance.
SumsOK ==
    \A a \in Accounts :
        IsFiniteSet(EntriesAt(a)) /\ balance[a] = Total(EntriesAt(a))

LEMMA DeltasAreIntegers ==
    ASSUME IInv PROVE \A e \in ledger : e.delta \in Int
BY DEF IInv, TypeOK, LedgerEntries

\* The one entry of a funded account is its funding.
LEMMA SumsInit == ASSUME Init PROVE SumsOK
<1> SUFFICES ASSUME NEW a \in Accounts
             PROVE  IsFiniteSet(EntriesAt(a)) /\ balance[a] = Total(EntriesAt(a))
  BY DEF SumsOK
<1> DEFINE e == Entry(a, Funding[a], "DEPOSIT", "seed")
<1>1. balance[a] = Funding[a] /\ Funding[a] \in 0 .. MaxMinor
  BY FundingAssumption DEF Init
<1>2. CASE Funding[a] > 0
  <2>1. EntriesAt(a) = {e}
    BY <1>2 DEF Init, EntriesAt, SeedEntries, FundedAccounts, Entry
  <2>2. e.delta = Funding[a] /\ Funding[a] \in Int
    BY <1>1 DEF Entry
  <2> HIDE DEF e
  <2>3. Total({} \cup {e}) = Total({}) + e.delta
    BY <2>2, FS_EmptySet, TotalWith
  <2>4. {} \cup {e} = {e}
    OBVIOUS
  <2>5. Total({e}) = Funding[a]
    BY <2>2, <2>3, <2>4, TotalOfNothing
  <2> QED
    BY <1>1, <2>1, <2>5, FS_Singleton
<1>3. CASE ~(Funding[a] > 0)
  <2>1. EntriesAt(a) = {}
    BY <1>3 DEF Init, EntriesAt, SeedEntries, FundedAccounts, Entry
  <2> QED
    BY <1>1, <1>3, <2>1, TotalOfNothing, FS_EmptySet, MaxMinorAssumption
<1> QED
  BY <1>2, <1>3

\* An entry that is new and the balance that moves by its delta.
LEMMA Booked ==
    ASSUME IInv, SumsOK, NEW a \in Accounts, NEW e, e \notin ledger,
           e.delta \in Int, EntriesAt(a)' = EntriesAt(a) \cup {e},
           balance'[a] = balance[a] + e.delta
    PROVE  IsFiniteSet(EntriesAt(a)') /\ balance'[a] = Total(EntriesAt(a)')
<1>1. IsFiniteSet(EntriesAt(a)) /\ balance[a] = Total(EntriesAt(a))
  BY DEF SumsOK
<1>2. e \notin EntriesAt(a) /\ \A x \in EntriesAt(a) \cup {e} : x.delta \in Int
  BY DeltasAreIntegers DEF EntriesAt
<1>3. Total(EntriesAt(a) \cup {e}) = Total(EntriesAt(a)) + e.delta
  BY <1>1, <1>2, TotalWith
<1> QED
  BY <1>1, <1>3, FS_AddElement

\* Every step of the abstract settlement books what it moves.
LEMMA SumsStep ==
    ASSUME IInv, SumsOK, [Settled!Next]_(Settled!vars) PROVE SumsOK'
<1> DEFINE Right(a) ==
             IsFiniteSet(EntriesAt(a)') /\ balance'[a] = Total(EntriesAt(a)')
<1>1. balance \in [Accounts -> Int]
  BY DEF IInv, TypeOK
<1>2. ASSUME NEW a \in Accounts, EntriesAt(a)' = EntriesAt(a),
             balance'[a] = balance[a]
      PROVE  Right(a)
  BY <1>2 DEF SumsOK
<1>3. ASSUME UNCHANGED <<balance, ledger>> PROVE SumsOK'
  BY <1>3 DEF SumsOK, EntriesAt
<1>4. ASSUME NEW id \in Reqs, NEW q \in QuoteIds, NEW key \in Keys,
             Settled!Execute(id, q, key), NEW a \in Accounts
      PROVE  Right(a)
  <2> DEFINE d == DebitEntry(Terms[q].client, q, id)
             c == CreditEntry(Terms[q].client, q, id)
  <2>1. /\ ledger' = ledger \cup {d, c}
        /\ balance' = [balance EXCEPT ![d.account] = @ + d.delta,
                                      ![c.account] = @ + c.delta]
        /\ \A t \in trades : t.id # id
    <3>1. d.account = <<Terms[q].client, DebitCurrency(q)>> /\ d.delta = -DebitMinor(q)
      BY DEF DebitEntry, Entry
    <3>2. c.account = <<Terms[q].client, CreditCurrency(q)>> /\ c.delta = CreditMinor(q)
      BY DEF CreditEntry, Entry
    <3>3. DebitMinor(q) \in Int /\ balance[d.account] \in Int
      BY <1>1, <3>1, LegTypes, MaxMinorAssumption, TermsAssumption
         DEF PositiveMinor, Accounts, QuoteTerms
    <3>4. balance[d.account] - DebitMinor(q) = balance[d.account] + d.delta
      BY <3>1, <3>3
    <3> QED
      BY <1>4, <3>1, <3>2, <3>4, Vocabulary DEF Settled!Execute
  <2>2. /\ d.account # c.account /\ d.account \in Accounts /\ c.account \in Accounts
        /\ d.delta \in Int /\ c.delta \in Int
    BY LegTypes, MaxMinorAssumption, TermsAssumption
       DEF PositiveMinor, Accounts, QuoteTerms, DebitEntry, CreditEntry, Entry
  <2>3. d \notin ledger /\ c \notin ledger
    <3>1. d.ref = id /\ d.reason = "TRADE" /\ c.ref = id /\ c.reason = "TRADE"
      BY DEF DebitEntry, CreditEntry, Entry
    <3> QED
      BY <2>1, <3>1 DEF IInv, StoreOK, LedgerOK
  <2> HIDE DEF d, c
  <2>4. CASE a = d.account
    <3>1. EntriesAt(a)' = EntriesAt(a) \cup {d} /\ balance'[a] = balance[a] + d.delta
      BY <1>1, <2>1, <2>2, <2>4 DEF EntriesAt
    <3> QED
      BY <2>2, <2>3, <3>1, Booked
  <2>5. CASE a = c.account
    <3>1. EntriesAt(a)' = EntriesAt(a) \cup {c} /\ balance'[a] = balance[a] + c.delta
      BY <1>1, <2>1, <2>2, <2>5 DEF EntriesAt
    <3> QED
      BY <2>2, <2>3, <3>1, Booked
  <2>6. CASE a \notin {d.account, c.account}
    <3>1. EntriesAt(a)' = EntriesAt(a) /\ balance'[a] = balance[a]
      BY <1>1, <2>1, <2>6 DEF EntriesAt
    <3> QED
      BY <1>2, <3>1
  <2> QED
    BY <2>4, <2>5, <2>6
<1>5. ASSUME NEW id \in Reqs, NEW account \in Accounts, NEW minor \in Int,
             Settled!Deposit(id, account, minor), NEW a \in Accounts
      PROVE  Right(a)
  <2> DEFINE e == Entry(account, minor, "DEPOSIT", id)
  <2>1. /\ e.account = account /\ e.delta = minor /\ e \notin ledger
        /\ ledger' = ledger \cup {e}
        /\ balance' = [balance EXCEPT ![account] = @ + minor]
    BY <1>5, Vocabulary DEF Settled!Deposit, Entry
  <2> HIDE DEF e
  <2>2. CASE a = account
    <3>1. EntriesAt(a)' = EntriesAt(a) \cup {e} /\ balance'[a] = balance[a] + e.delta
      BY <1>1, <2>1, <2>2 DEF EntriesAt
    <3> QED
      BY <2>1, <3>1, Booked
  <2>3. CASE a # account
    <3>1. EntriesAt(a)' = EntriesAt(a) /\ balance'[a] = balance[a]
      BY <1>1, <2>1, <2>3 DEF EntriesAt
    <3> QED
      BY <1>2, <3>1
  <2> QED
    BY <2>2, <2>3
<1>6. ASSUME NEW call \in Calls, call.kind = "deposit"
      PROVE  <<call.client, call.currency>> \in Accounts /\ call.minor \in Int
  BY <1>6, CallsAssumption, MaxMinorAssumption
     DEF TradeCalls, DepositCalls, Accounts, PositiveMinor
<1>7. ASSUME \A a \in Accounts : Right(a) PROVE SumsOK'
  BY <1>7 DEF SumsOK
<1> HIDE DEF Right
<1>8. CASE \E q \in QuoteIds : Settled!CreateQuote(q)
  BY <1>3, <1>8 DEF Settled!CreateQuote
<1>9. CASE UNCHANGED Settled!vars
  BY <1>3, <1>9 DEF Settled!vars
<1>10. CASE \E id \in Reqs, q \in QuoteIds, key \in Keys : Settled!Execute(id, q, key)
  BY <1>4, <1>7, <1>10
<1>11. CASE \E id \in Reqs, call \in {c \in Calls : c.kind = "deposit"} :
              Settled!Deposit(id, <<call.client, call.currency>>, call.minor)
  BY <1>5, <1>6, <1>7, <1>11
<1> QED
  BY <1>8, <1>9, <1>10, <1>11 DEF Settled!Next

\* For any clients, accounts, amounts and requests, and however many entries
\* there are: the balances table is the sum of the ledger.
THEOREM Conservation == Spec => []BalanceIsLedgerSum
<1>1. Init => SumsOK
  BY SumsInit
<1>2. IInv /\ SumsOK /\ [Next]_vars => SumsOK'
  BY SumsStep, StepRefines
<1>3. SumsOK => BalanceIsLedgerSum
  BY DEF SumsOK, BalanceIsLedgerSum, Total, EntriesAt
<1> QED
  BY <1>1, <1>2, <1>3, Invariance, PTL DEF Spec

-----------------------------------------------------------------------------
(* Row locks.                                                              *)

\* A balances row is locked by nobody but a transaction that needs it and
\* has passed its SELECT of the quote.
RowOwnersOK ==
    \A a \in Accounts, r \in Reqs : rowOwner[a] = r =>
        pc[r] \in InTx \ {"quote"} /\ a \in Needed(r)

\* Of its two rows, a request has locked the first one to be locked: of two
\* committed rows the one with the lesser currency, of two rows it inserts
\* the one of the debit, and a row it inserts before one that is committed.
TakenInOrder ==
    \A r \in Reqs : pc[r] = "rows" =>
        \A a, b \in Needed(r) : rowOwner[a] = r /\ rowOwner[b] # r =>
            /\ a \in rows => b \in rows /\ a[2] < b[2]
            /\ b \notin rows => a = AccountAt(r, 1)

\* However many requests there are, finitely many are in a transaction.
InPool == {r \in Reqs : pc[r] \in InTx}
PoolOK == IsFiniteSet(InPool)

LocksOK == RowOwnersOK /\ TakenInOrder /\ PoolOK

OwnsNone(s) == \A a \in Accounts : rowOwner[a] # s

\* A step after which s owns what it owned before, on its way to commit.
Keeps(s) ==
    /\ req'[s] = req[s]
    /\ pc'[s] \in InTx \ {"quote"}
    /\ pc'[s] = "rows" => pc[s] = "rows"
    /\ \A a \in Accounts : rowOwner'[a] = s <=> rowOwner[a] = s
    /\ \A a \in Accounts : rowOwner[a] = s => (a \in rows' <=> a \in rows)

LEMMA SameNeeds ==
    ASSUME NEW r \in Reqs, req'[r] = req[r]
    PROVE  /\ Needed(r)' = Needed(r)
           /\ \A i \in 1 .. 2 : AccountAt(r, i)' = AccountAt(r, i)
BY DEF Needed, AccountAt, CurrencyAt, IsTrade

LEMMA NeedsAreAccounts ==
    ASSUME NEW r \in Reqs, req[r] \in Calls
    PROVE  /\ Needed(r) \subseteq Accounts
           /\ \A a \in Needed(r) : a = <<req[r].client, a[2]>> /\ a[2] \in Nat
<1>1. Needed(r) = {AccountAt(r, 1), AccountAt(r, 2)}
  BY EntryTypes
<1>2. \A i \in 1 .. 2 : AccountAt(r, i) \in Accounts
  BY EntryTypes
<1>3. \A i \in 1 .. 2 : AccountAt(r, i) = <<req[r].client, AccountAt(r, i)[2]>>
  BY DEF AccountAt
<1>4. \A a \in Accounts : a[2] \in Nat
  BY CurrenciesAssumption DEF Accounts
<1> QED
  BY <1>1, <1>2, <1>3, <1>4

LEMMA NeedsTyped ==
    RequestsOK => \A r \in Reqs : pc[r] # "idle" => Needed(r) \subseteq Accounts
BY NeedsAreAccounts DEF RequestsOK

LEMMA NeedsTypedNext ==
    (RequestsOK => \A r \in Reqs : pc[r] # "idle" => Needed(r) \subseteq Accounts)'
BY NeedsTyped, PTL

LEMMA RowsFrame ==
    ASSUME TypeOK, RequestsOK, RequestsOK', RowOwnersOK, TakenInOrder, rows \subseteq rows',
           \A s \in Reqs : OwnsNone(s)' \/ Keeps(s)
    PROVE  RowOwnersOK' /\ TakenInOrder'
<1>1. RowOwnersOK'
  <2> SUFFICES ASSUME NEW a \in Accounts, NEW r \in Reqs, rowOwner'[a] = r
               PROVE  pc'[r] \in InTx \ {"quote"} /\ a \in Needed(r)'
    BY DEF RowOwnersOK
  <2>1. Keeps(r)
    BY DEF OwnsNone
  <2> QED
    BY <2>1, SameNeeds DEF Keeps, RowOwnersOK
<1>2. TakenInOrder'
  <2> SUFFICES ASSUME NEW r \in Reqs, pc'[r] = "rows",
                      NEW a \in Needed(r)', NEW b \in Needed(r)',
                      rowOwner'[a] = r, rowOwner'[b] # r
               PROVE  /\ a \in rows' => b \in rows' /\ a[2] < b[2]
                      /\ b \notin rows' => a = AccountAt(r, 1)'
    BY DEF TakenInOrder
  <2>1. CASE OwnsNone(r)'
    <3>1. RequestsOK' => Needed(r)' \subseteq Accounts
      BY NeedsTypedNext
    <3> QED
      BY <2>1, <3>1 DEF OwnsNone
  <2>2. CASE Keeps(r)
    <3>1. pc[r] = "rows" /\ req'[r] = req[r] /\ req[r] \in Calls
      BY <2>2 DEF Keeps, RequestsOK
    <3>2. /\ a \in Needed(r) /\ b \in Needed(r) /\ a \in Accounts /\ b \in Accounts
          /\ AccountAt(r, 1)' = AccountAt(r, 1)
      BY <3>1, SameNeeds, NeedsAreAccounts
    <3>3. rowOwner[a] = r /\ rowOwner[b] # r /\ (a \in rows' <=> a \in rows)
      BY <2>2, <3>2 DEF Keeps
    <3> QED
      BY <3>1, <3>2, <3>3 DEF TakenInOrder
  <2> QED
    BY <2>1, <2>2
<1> QED
  BY <1>1, <1>2

\* The row that a request at lockBalanceRows asks for next.
NextRow(r) == IF Missing(r) # {} THEN FirstMissing(r) ELSE LeastUnlocked(r)

LEMMA NextRowIs ==
    ASSUME NEW r \in Reqs, req[r] \in Calls, Unlocked(r) # {}
    PROVE  LET a == NextRow(r) IN
           /\ a \in Needed(r) /\ rowOwner[a] # r
           /\ a \in rows <=> Missing(r) = {}
           /\ a \notin rows => a = AccountAt(r, 1) \/ AccountAt(r, 1) \notin Missing(r)
           /\ a \in rows => \A b \in Needed(r) : rowOwner[b] # r =>
                               b \in rows /\ a[2] <= b[2]
<1>1. Needed(r) = {AccountAt(r, 1), AccountAt(r, 2)}
  BY EntryTypes
<1>2. CASE Missing(r) # {}
  <2>1. NextRow(r) = FirstMissing(r) /\ FirstMissing(r) \in Missing(r)
    BY <1>1, <1>2 DEF NextRow, FirstMissing, Missing
  <2>2. FirstMissing(r) = AccountAt(r, 1) \/ AccountAt(r, 1) \notin Missing(r)
    BY DEF FirstMissing
  <2> QED
    BY <1>2, <2>1, <2>2 DEF Missing
<1>3. CASE Missing(r) = {}
  <2>1. \A a \in Unlocked(r) : a[2] \in Nat
    BY NeedsAreAccounts DEF Unlocked
  <2>2. \E a \in Unlocked(r) : \A b \in Unlocked(r) : a[2] <= b[2]
    <3>1. PICK x \in Unlocked(r) : TRUE
      OBVIOUS
    <3>2. CASE \A b \in Unlocked(r) : x[2] <= b[2]
      BY <3>2
    <3>3. CASE \E b \in Unlocked(r) : ~(x[2] <= b[2])
      <4>1. PICK y \in Unlocked(r) : ~(x[2] <= y[2])
        BY <3>3
      <4>2. \A b \in Unlocked(r) : b = x \/ b = y
        BY <1>1, <3>1, <4>1, <2>1 DEF Unlocked
      <4> QED
        BY <2>1, <3>1, <4>1, <4>2
    <3> QED
      BY <3>2, <3>3
  <2>3. /\ LeastUnlocked(r) \in Unlocked(r)
        /\ \A b \in Unlocked(r) : LeastUnlocked(r)[2] <= b[2]
    BY <2>2 DEF LeastUnlocked
  <2>4. \A b \in Unlocked(r) : b \in rows
    BY <1>3 DEF Unlocked, Missing
  <2>5. NextRow(r) = LeastUnlocked(r)
    BY <1>3 DEF NextRow
  <2> HIDE DEF NextRow
  <2> QED
    BY <1>3, <2>3, <2>4, <2>5 DEF Unlocked
<1> QED
  BY <1>2, <1>3

\* The request that takes a row is the only one that gains or loses any.
LEMMA TakeRow ==
    ASSUME TypeOK, RequestsOK, RequestsOK', RowOwnersOK, TakenInOrder,
           NEW r \in Reqs, InsertRow(r) \/ LockRow(r)
    PROVE  RowOwnersOK' /\ TakenInOrder'
<1> DEFINE a == NextRow(r)
<1>1. /\ pc[r] = "rows" /\ rowOwner[a] = NoReq
      /\ rowOwner' = [rowOwner EXCEPT ![a] = r]
      /\ UNCHANGED <<pc, req, rows>>
      /\ Unlocked(r) # {}
  BY DEF InsertRow, LockRow, Take, NextRow, Missing, Unlocked, store
<1>2. req[r] \in Calls
  BY <1>1 DEF RequestsOK
<1>3. /\ a \in Needed(r) /\ rowOwner[a] # r
      /\ a \notin rows => a = AccountAt(r, 1) \/ AccountAt(r, 1) \notin Missing(r)
      /\ a \in rows => \A b \in Needed(r) : rowOwner[b] # r => b \in rows /\ a[2] <= b[2]
  BY <1>1, <1>2, NextRowIs
<1>4. a \in Accounts /\ Needed(r) \subseteq Accounts
  BY <1>2, <1>3, NeedsAreAccounts
<1> HIDE DEF a
<1>5. \A b \in Accounts :
        /\ b # a => rowOwner'[b] = rowOwner[b]
        /\ b = a => rowOwner'[b] = r
  BY <1>1, <1>4 DEF TypeOK
<1>6. \A s \in Reqs : Needed(s)' = Needed(s) /\ AccountAt(s, 1)' = AccountAt(s, 1)
  BY <1>1, SameNeeds
<1>7. RowOwnersOK'
  BY <1>1, <1>3, <1>5, <1>6 DEF RowOwnersOK, InTx
<1>8. ASSUME NEW s \in Reqs \ {r}, pc'[s] = "rows",
             NEW b \in Needed(s)', NEW c \in Needed(s)',
             rowOwner'[b] = s, rowOwner'[c] # s
      PROVE  /\ b \in rows' => c \in rows' /\ b[2] < c[2]
             /\ c \notin rows' => b = AccountAt(s, 1)'
  <2>1. pc[s] = "rows" /\ req[s] \in Calls /\ s \in Reqs /\ s # r
    BY <1>1, <1>8 DEF RequestsOK
  <2>2. b \in Needed(s) /\ c \in Needed(s) /\ Needed(s) \subseteq Accounts
    BY <1>6, <1>8, <2>1, NeedsAreAccounts
  <2>3. rowOwner[b] = s /\ rowOwner[c] # s
    BY <1>1, <1>5, <1>8, <2>1, <2>2, NoReqAssumption
  <2> QED
    BY <1>1, <1>6, <2>1, <2>2, <2>3 DEF TakenInOrder
<1>9. ASSUME NEW b \in Needed(r), NEW c \in Needed(r),
             rowOwner'[b] = r, rowOwner'[c] # r
      PROVE  /\ b \in rows => c \in rows /\ b[2] < c[2]
             /\ c \notin rows => b = AccountAt(r, 1)
  <2>1. c # a /\ b # c /\ rowOwner[c] # r
    BY <1>4, <1>5, <1>9
  <2>2. b = a
    <3>1. Needed(r) = {AccountAt(r, 1), AccountAt(r, 2)}
      BY <1>2, EntryTypes
    <3> QED
      BY <1>3, <1>9, <2>1, <3>1
  <2>3. b \in rows => c \in rows /\ b[2] < c[2]
    <3>1. b = <<req[r].client, b[2]>> /\ c = <<req[r].client, c[2]>>
          /\ b[2] \in Nat /\ c[2] \in Nat
      BY <1>2, <1>9, NeedsAreAccounts
    <3>2. b[2] # c[2]
      BY <2>1, <3>1
    <3> QED
      BY <1>3, <1>9, <2>1, <2>2, <3>1, <3>2
  <2>4. c \notin rows => b = AccountAt(r, 1)
    <3>1. Needed(r) = {AccountAt(r, 1), AccountAt(r, 2)}
      BY <1>2, EntryTypes
    <3> QED
      BY <1>3, <1>9, <2>1, <2>2, <3>1 DEF Missing
  <2> QED
    BY <2>3, <2>4
<1>10. TakenInOrder'
  BY <1>1, <1>6, <1>8, <1>9 DEF TakenInOrder
<1> QED
  BY <1>7, <1>10

LEMMA LocksStep ==
    TypeOK /\ RequestsOK /\ LocksOK /\ [Next]_vars => LocksOK'
<1> SUFFICES ASSUME TypeOK, RequestsOK, LocksOK, [Next]_vars PROVE LocksOK'
  OBVIOUS
<1> DEFINE Ordered == RowOwnersOK' /\ TakenInOrder'
           Grown(p) == \A s \in Reqs \ {p} : pc'[s] \in InTx => pc[s] \in InTx
<1>1. RequestsOK' /\ RowOwnersOK /\ TakenInOrder /\ PoolOK
  BY TypedStep DEF LocksOK
<1>2. ASSUME NEW gone \in SUBSET Reqs, EndTx(gone), UNCHANGED req,
             \A s \in Reqs \ gone : pc'[s] = pc[s],
             rows' = rows \/ \E s \in gone : rows' = rows \cup {a \in Accounts : rowOwner[a] = s}
      PROVE  Ordered
  <2>1. rows \subseteq rows' /\ \A a \in Accounts : a \in rows' => a \in rows \/ rowOwner[a] \in gone
    BY <1>2
  <2>2. \A a \in Accounts :
          rowOwner'[a] = IF rowOwner[a] \in gone THEN NoReq ELSE rowOwner[a]
    BY <1>2 DEF EndTx, Without, TypeOK
  <2>3. ASSUME NEW s \in Reqs PROVE OwnsNone(s)' \/ Keeps(s)
    <3>1. CASE s \in gone \/ OwnsNone(s)
      BY <2>2, <3>1, NoReqAssumption DEF OwnsNone
    <3>2. CASE s \notin gone /\ ~OwnsNone(s)
      <4>1. pc[s] \in InTx \ {"quote"}
        BY <1>1, <3>2 DEF OwnsNone, RowOwnersOK
      <4> QED
        BY <1>2, <2>1, <2>2, <3>2, <4>1, NoReqAssumption DEF Keeps
    <3> QED
      BY <3>1, <3>2
  <2> QED
    BY <1>1, <2>1, <2>3, RowsFrame
<1>3. ASSUME UNCHANGED <<rowOwner, rows>>,
             \A s \in Reqs : \/ pc[s] \notin InTx \ {"quote"}
                             \/ /\ req'[s] = req[s] /\ pc'[s] \in InTx \ {"quote"}
                                /\ pc'[s] = "rows" => pc[s] = "rows"
      PROVE  Ordered
  <2>1. ASSUME NEW s \in Reqs PROVE OwnsNone(s)' \/ Keeps(s)
    BY <1>1, <1>3 DEF OwnsNone, RowOwnersOK, Keeps
  <2> QED
    BY <1>1, <1>3, <2>1, RowsFrame
<1>4. ASSUME NEW r \in Reqs, NEW l, Goto(r, l), UNCHANGED <<rowOwner, rows, req>>,
             pc[r] \notin InTx \ {"quote"} \/ l \in InTx \ {"quote", "rows"}
      PROVE  Ordered
  <2>1. pc'[r] = l /\ \A s \in Reqs \ {r} : pc'[s] = pc[s]
    BY <1>4 DEF Goto, TypeOK
  <2> QED
    BY <1>3, <1>4, <2>1
<1>5. ASSUME NEW r \in Reqs, NEW code, Rollback(r, code)
      PROVE  Ordered /\ Grown(r)
  <2>1. EndTx({r}) /\ UNCHANGED <<req, rows>> /\ \A s \in Reqs \ {r} : pc'[s] = pc[s]
    BY <1>5 DEF Rollback, Finish, Goto, store, TypeOK
  <2> QED
    BY <1>2, <2>1
<1>6. ASSUME NEW r \in Reqs, NEW l, Goto(r, l) PROVE Grown(r)
  BY <1>6 DEF Goto, TypeOK
<1>7. ASSUME NEW r \in Reqs, LockQuote(r) PROVE Ordered /\ Grown(r)
  <2>1. pc[r] = "quote"
    BY <1>7 DEF LockQuote
  <2>2. CASE \E code : Rollback(r, code)
    BY <1>5, <2>2
  <2>3. CASE Goto(r, "rows") /\ UNCHANGED <<rowOwner, rows, req>>
    BY <1>4, <1>6, <2>1, <2>3
  <2> QED
    BY <1>7, <2>2, <2>3 DEF LockQuote, store
<1>8. ASSUME NEW r \in Reqs,
             Lookup(r) \/ Begin(r) \/ RacedLookup(r) \/ Respond(r)
      PROVE  Ordered /\ Grown(r)
  <2>1. /\ pc[r] \in {"lookup", "begin", "raced", "respond"}
        /\ UNCHANGED <<rowOwner, rows, req>>
    BY <1>8 DEF Lookup, Begin, RacedLookup, Respond, locks, store
  <2>2. \E l : Goto(r, l)
    BY <1>8 DEF Lookup, Begin, RacedLookup, Respond, ReplayOrConflict, Finish
  <2> QED
    BY <1>4, <1>6, <2>1, <2>2 DEF InTx
<1>9. ASSUME NEW r \in Reqs,
             RowsLocked(r) \/ Debit(r) \/ Credit(r) \/ MarkExecuted(r)
      PROVE  Ordered /\ Grown(r)
  <2>1. CASE \E code : Rollback(r, code)
    BY <1>5, <2>1
  <2>2. CASE /\ \E l \in InTx \ {"quote", "rows"} : Goto(r, l)
             /\ UNCHANGED <<rowOwner, rows, req>>
    BY <1>4, <1>6, <2>2
  <2> QED
    BY <1>9, <2>1, <2>2 DEF RowsLocked, Debit, Credit, MarkExecuted, locks, store, InTx
<1>10. ASSUME NEW r \in Reqs, InsertTrade(r) PROVE Ordered /\ Grown(r)
  <2>1. CASE \E code : Rollback(r, code)
    BY <1>5, <2>1
  <2>2. CASE EndTx({r}) /\ Goto(r, "raced") /\ UNCHANGED <<req, rows>>
    <3>1. \A s \in Reqs \ {r} : pc'[s] = pc[s]
      BY <2>2 DEF Goto, TypeOK
    <3> QED
      BY <1>2, <1>6, <2>2, <3>1
  <2>3. CASE UNCHANGED <<rowOwner, rows, req>> /\ Goto(r, "mark")
    BY <1>4, <1>6, <2>3 DEF InTx
  <2> QED
    BY <1>10, <2>1, <2>2, <2>3 DEF InsertTrade, UniqueViolation, locks, store
<1>11. ASSUME NEW r \in Reqs, Commit(r) \/ CommitAnswerLost(r)
       PROVE  Ordered /\ Grown(r)
  <2>1. /\ EndTx({r}) /\ UNCHANGED req /\ \A s \in Reqs \ {r} : pc'[s] = pc[s]
        /\ rows' = rows \cup {a \in Accounts : rowOwner[a] = r}
    BY <1>11 DEF Commit, CommitAnswerLost, Publish, Finish, Goto, TypeOK
  <2> QED
    BY <1>2, <2>1
<1>12. ASSUME Crash PROVE Ordered /\ Grown(NoReq)
  <2> DEFINE inFlight == {r \in Reqs : pc[r] \notin {"idle", "done"}}
  <2>1. /\ EndTx(inFlight) /\ UNCHANGED <<req, rows>>
        /\ \A s \in Reqs \ inFlight : pc'[s] = pc[s]
    BY <1>12 DEF Crash, store
  <2>2. inFlight \in SUBSET Reqs
    OBVIOUS
  <2>3. \A s \in Reqs : pc'[s] \in InTx => pc[s] \in InTx
    BY <1>12 DEF Crash, InTx
  <2> HIDE DEF inFlight
  <2> QED
    BY <1>2, <2>1, <2>2, <2>3
<1>13. ASSUME NEW r \in Reqs, NEW call \in Calls, Receive(r, call)
       PROVE  Ordered /\ Grown(r)
  <2>1. /\ pc[r] = "idle" /\ UNCHANGED <<rowOwner, rows>>
        /\ \A s \in Reqs \ {r} : pc'[s] = pc[s] /\ req'[s] = req[s]
    BY <1>13 DEF Receive, Goto, locks, store, TypeOK
  <2>2. Ordered
    <3>1. ASSUME NEW s \in Reqs
          PROVE  \/ pc[s] \notin InTx \ {"quote"}
                 \/ /\ req'[s] = req[s] /\ pc'[s] \in InTx \ {"quote"}
                    /\ pc'[s] = "rows" => pc[s] = "rows"
      BY <2>1 DEF InTx
    <3> QED
      BY <1>3, <2>1, <3>1
  <2> QED
    BY <2>1, <2>2
<1>14. ASSUME NEW r \in Reqs, InsertRow(r) \/ LockRow(r)
       PROVE  Ordered /\ Grown(r)
  <2>1. UNCHANGED pc
    BY <1>14 DEF InsertRow, LockRow, Take
  <2> QED
    BY <1>1, <1>14, <2>1, TakeRow
<1>15. ASSUME UNCHANGED vars \/ \E q \in QuoteIds : CreateQuote(q) \/ Expire(q)
       PROVE  Ordered /\ Grown(NoReq)
  <2>1. UNCHANGED <<rowOwner, rows, req, pc>>
    BY <1>15 DEF CreateQuote, Expire, vars, locks, store
  <2> QED
    BY <1>3, <2>1
<1>16. ASSUME NEW r \in Reqs, DbError(r) \/ DeadlockVictim(r)
       PROVE  Ordered /\ Grown(r)
  BY <1>5, <1>16 DEF DbError, DeadlockVictim
<1>17. ASSUME NEW r, Grown(r) PROVE PoolOK'
  <2>1. InPool' \in SUBSET (InPool \cup {r})
    BY <1>17 DEF InPool
  <2>2. IsFiniteSet(InPool \cup {r})
    BY <1>1, FS_AddElement DEF PoolOK
  <2> QED
    BY <2>1, <2>2, FS_Subset DEF PoolOK
<1> HIDE DEF Ordered, Grown
<1>18. CASE UNCHANGED vars \/ Crash \/ \E q \in QuoteIds : CreateQuote(q) \/ Expire(q)
  <2>1. Ordered /\ Grown(NoReq)
    BY <1>12, <1>15, <1>18
  <2> QED
    BY <2>1, <1>17 DEF Ordered, LocksOK
<1>19. CASE \E r \in Reqs : Ordered /\ Grown(r)
  BY <1>17, <1>19 DEF Ordered, LocksOK
<1> QED
  BY <1>7, <1>8, <1>9, <1>10, <1>11, <1>13, <1>14, <1>16, <1>18, <1>19
     DEF Next, Progress, Terminated

LEMMA LocksInit == ASSUME Init PROVE LocksOK
<1>1. RowOwnersOK
  BY NoReqAssumption DEF Init, RowOwnersOK
<1>2. TakenInOrder
  BY DEF Init, TakenInOrder
<1>3. InPool = {}
  BY DEF Init, InPool, InTx
<1> QED
  BY <1>1, <1>2, <1>3, FS_EmptySet DEF LocksOK, PoolOK

-----------------------------------------------------------------------------
(* Cycles of waiting transactions.                                         *)

LEMMA SmallestNumber ==
    ASSUME NEW S \in SUBSET Nat, S # {}
    PROVE  \E m \in S : \A n \in S : m <= n
<1>1. PICK k \in S : TRUE
  OBVIOUS
<1> DEFINE T == {0 .. n : n \in {i \in S : i <= k}}
<1>2. PICK s \in T : \A t \in T : t \subseteq s => t = s
  <2> DEFINE K == 0 .. k
  <2>1. T \in SUBSET SUBSET K /\ T # {}
    BY <1>1
  <2>2. IsFiniteSet(K)
    BY FS_Interval
  <2> HIDE DEF T, K
  <2> QED
    BY <2>1, <2>2, Smallest
<1>3. PICK m \in S : m <= k /\ s = 0 .. m
  BY <1>2
<1>4. \A n \in S : n < m =>
        0 .. n \in T /\ m \notin 0 .. n /\ m \in s /\ 0 .. n \subseteq s
  BY <1>1, <1>3
<1>5. \A n \in S : ~(n < m)
  <2> HIDE DEF T
  <2> QED
    BY <1>2, <1>4
<1> QED
  BY <1>5

\* A finite set that f covers by the images of its own elements is closed
\* under f.
LEMMA CoveredIsClosed ==
    ASSUME NEW D, IsFiniteSet(D), NEW f, \A d \in D : \E e \in D : f[e] = d
    PROVE  \A e \in D : f[e] \in D
<1> DEFINE R == {f[e] : e \in D}
           g == [e \in D |-> f[e]]
<1>1. g \in Surjection(D, R)
  BY DEF Surjection
<1>2. D \in SUBSET R
  OBVIOUS
<1>3. \A e \in D : f[e] \in R
  OBVIOUS
<1> HIDE DEF g, R
<1>4. IsFiniteSet(R) /\ Cardinality(R) <= Cardinality(D)
  BY <1>1, FS_Surjection
<1>5. Cardinality(D) <= Cardinality(R) /\ (Cardinality(R) = Cardinality(D) => R = D)
  BY <1>2, <1>4, FS_Subset
<1>6. Cardinality(D) \in Nat /\ Cardinality(R) \in Nat
  BY <1>4, FS_CardinalityType
<1> QED
  BY <1>3, <1>4, <1>5, <1>6

\* Whoever is waited for has passed its SELECT of the quote; a request waits
\* for a trade that is inserted only if that trade needs no lock any more.
LEMMA Waits ==
    ASSUME IInv, OwnersOK, LocksOK, NEW r \in Reqs, NEW s \in WaitsFor(r)
    PROVE  /\ s \in Reqs /\ pc[s] \in InTx \ {"quote"}
           /\ pc[r] \in {"quote", "rows", "trade"}
           /\ pc[r] = "trade" => pc[s] \notin {"rows", "trade"}
           /\ pc[r] = "rows" => s = rowOwner[NextRow(r)] /\ Unlocked(r) # {}
<1>1. TypeOK /\ RequestsOK /\ RowOwnersOK
  BY DEF IInv, LocksOK
<1>2. CASE pc[r] = "quote"
  <2>1. s = quoteOwner[req[r].quote] /\ s # NoReq
    BY <1>2 DEF WaitsFor
  <2>2. req[r].quote \in QuoteIds
    BY <1>1, <1>2, CallTypes DEF RequestsOK
  <2>3. s \in Reqs
    BY <1>1, <2>1, <2>2 DEF TypeOK
  <2> QED
    BY <1>2, <2>1, <2>2, <2>3 DEF OwnersOK
<1>3. CASE pc[r] = "rows"
  <2>1. req[r] \in Calls
    BY <1>1, <1>3 DEF RequestsOK
  <2>2. s = rowOwner[NextRow(r)] /\ s # NoReq /\ Unlocked(r) # {}
    BY <1>3 DEF WaitsFor, NextRow, Unlocked, Missing
  <2>3. NextRow(r) \in Accounts
    BY <2>1, <2>2, NextRowIs, NeedsAreAccounts
  <2>4. s \in Reqs
    BY <1>1, <2>2, <2>3 DEF TypeOK
  <2> QED
    BY <1>1, <1>3, <2>2, <2>3, <2>4 DEF RowOwnersOK
<1>4. CASE pc[r] = "trade"
  <2>1. s \in Reqs /\ tx[s].trade # {}
    BY <1>4 DEF WaitsFor, Rivals
  <2>2. pc[s] \in {"mark", "commit"}
    BY <2>1 DEF IInv, Holds, WritesOK
  <2> QED
    BY <1>4, <2>1, <2>2 DEF InTx
<1> QED
  BY <1>2, <1>3, <1>4 DEF WaitsFor

\* Every member of a cycle waits at lockBalanceRows for the next.
LEMMA CycleAtRows ==
    ASSUME IInv, OwnersOK, LocksOK, NEW C \in SUBSET Reqs, WaitCycle(C)
    PROVE  /\ IsFiniteSet(C)
           /\ \A r \in C : pc[r] = "rows" /\ Unlocked(r) # {}
           /\ \A r \in C : \E p \in C : rowOwner[NextRow(p)] = r
<1> DEFINE W == {r \in C : pc[r] = "rows" /\ WaitsFor(r) # {}}
           f == [r \in Reqs |-> rowOwner[NextRow(r)]]
<1>1. /\ \A s \in C : \E r \in C : s \in WaitsFor(r)
      /\ \A r \in C : WaitsFor(r) \subseteq C
  BY DEF WaitCycle
<1>2. \A r \in C : pc[r] \in InTx \ {"quote"}
  BY <1>1, Waits
<1>3. ASSUME NEW s \in C, pc[s] \in {"rows", "trade"}
      PROVE  \E r \in W : f[r] = s
  <2>1. PICK r \in C : s \in WaitsFor(r)
    BY <1>1
  <2>2. pc[r] = "rows" /\ s = rowOwner[NextRow(r)]
    BY <1>2, <1>3, <2>1, Waits
  <2> QED
    BY <2>1, <2>2
<1>4. IsFiniteSet(W)
  <2>1. W \in SUBSET InPool
    BY DEF InPool, InTx
  <2> QED
    BY <2>1, FS_Subset DEF LocksOK, PoolOK
<1>5. \A d \in W : \E e \in W : f[e] = d
  BY <1>3
<1>6. \A e \in W : f[e] \in W
  <2> HIDE DEF W, f
  <2> QED
    BY <1>4, <1>5, CoveredIsClosed
<1>7. ASSUME NEW s \in C PROVE s \in W
  <2>1. PICK r \in C : s \in WaitsFor(r)
    BY <1>1
  <2>2. pc[r] \in {"rows", "trade"}
    BY <1>2, <2>1, Waits
  <2>3. r \in W
    BY <1>3, <1>6, <2>2
  <2>4. s = rowOwner[NextRow(r)]
    BY <2>1, <2>3, Waits
  <2> QED
    BY <1>6, <2>3, <2>4
<1>8. W = C
  BY <1>7
<1>9. \A r \in W : pc[r] = "rows" /\ Unlocked(r) # {}
  BY Waits
<1>10. \A r \in W : \E p \in W : rowOwner[NextRow(p)] = r
  BY <1>5
<1> QED
  BY <1>4, <1>8, <1>9, <1>10

\* The row a member waits for and the one it is waited for make up its two
\* rows; around the cycle the rows cannot all get greater.
LEMMA Doomed ==
    ASSUME IInv, OwnersOK, LocksOK, NEW C \in SUBSET Reqs, WaitCycle(C)
    PROVE  \A r \in C : IsTrade(r) /\ AccountAt(r, 1) \notin rows
<1> DEFINE f == [r \in Reqs |-> rowOwner[NextRow(r)]]
           D == {r \in C : NextRow(r) \notin rows}
<1>1. IsFiniteSet(C) /\ \A r \in C : \E p \in C : f[p] = r
  BY CycleAtRows
<1>2. ASSUME NEW r \in C, NEW p \in C, f[p] = r
      PROVE  /\ IsTrade(r)
             /\ NextRow(p) \in rows => NextRow(r) \in rows /\ NextRow(p)[2] < NextRow(r)[2]
             /\ NextRow(r) \notin rows => NextRow(p) = AccountAt(r, 1)
  <2>1. /\ pc[r] = "rows" /\ Unlocked(r) # {} /\ pc[p] = "rows" /\ Unlocked(p) # {}
        /\ req[r] \in Calls /\ req[p] \in Calls /\ rowOwner[NextRow(p)] = r
    BY <1>2, CycleAtRows DEF IInv, RequestsOK
  <2>2. NextRow(r) \in Needed(r) /\ rowOwner[NextRow(r)] # r
    BY <2>1, NextRowIs
  <2>3. NextRow(p) \in Accounts
    BY <2>1, NextRowIs, NeedsAreAccounts
  <2>4. NextRow(p) \in Needed(r)
    BY <2>1, <2>3 DEF LocksOK, RowOwnersOK
  <2>5. IsTrade(r)
    <3>1. NextRow(p) # NextRow(r)
      BY <2>1, <2>2
    <3>2. ~IsTrade(r) => AccountAt(r, 1) = AccountAt(r, 2)
      BY DEF AccountAt, CurrencyAt
    <3>3. Needed(r) = {AccountAt(r, 1), AccountAt(r, 2)}
      BY <2>1, EntryTypes
    <3> QED
      BY <2>2, <2>4, <3>1, <3>2, <3>3
  <2> QED
    BY <2>1, <2>2, <2>4, <2>5 DEF LocksOK, TakenInOrder
<1>3. \A r \in C : NextRow(r)[2] \in Nat
  BY CycleAtRows, NextRowIs, NeedsAreAccounts DEF IInv, RequestsOK
<1>4. IsFiniteSet(D)
  <2>1. D \in SUBSET C
    OBVIOUS
  <2> QED
    BY <1>1, <2>1, FS_Subset
<1>5. \A d \in D : \E e \in D : f[e] = d
  <2> SUFFICES ASSUME NEW d \in D PROVE \E e \in D : f[e] = d
    OBVIOUS
  <2>1. PICK e \in C : f[e] = d
    BY <1>1
  <2>2. e \in D
    BY <1>2, <2>1
  <2> QED
    BY <2>1, <2>2
<1>6. \A e \in D : f[e] \in D
  <2> HIDE DEF D, f
  <2> QED
    BY <1>4, <1>5, CoveredIsClosed
<1>7. ASSUME C # D PROVE FALSE
  <2> DEFINE S == {NextRow(r)[2] : r \in C \ D}
  <2>1. S # {} /\ S \in SUBSET Nat
    BY <1>3, <1>7
  <2>2. \E m \in S : \A n \in S : m <= n
    <3> HIDE DEF S
    <3> QED
      BY <2>1, SmallestNumber
  <2>3. PICK r \in C \ D : \A s \in C \ D : NextRow(r)[2] <= NextRow(s)[2]
    BY <2>2
  <2>4. PICK p \in C : f[p] = r
    BY <1>1, <2>3
  <2>5. p \notin D
    BY <1>6, <2>3, <2>4
  <2>6. NextRow(p)[2] < NextRow(r)[2]
    BY <1>2, <2>3, <2>4, <2>5
  <2> QED
    BY <1>3, <2>3, <2>4, <2>5, <2>6
<1> QED
  <2> SUFFICES ASSUME NEW r \in C PROVE IsTrade(r) /\ AccountAt(r, 1) \notin rows
    OBVIOUS
  <2>1. PICK p \in C : f[p] = r
    BY <1>1
  <2>2. NextRow(p) \notin rows /\ NextRow(r) \notin rows
    BY <1>7, <2>1
  <2> QED
    BY <1>2, <2>1, <2>2

\* However many transactions wait for one another, in whatever order they
\* came to lockBalanceRows: those that Postgres may break a deadlock among
\* are trades on a debit account without a committed row.
THEOREM DeadlocksAreDoomed == Spec => []CycleMembersAreDoomed
<1>1. Init => OwnersOK /\ LocksOK
  BY LocksInit, NoReqAssumption DEF Init, OwnersOK
<1>2. IInv /\ LocksOK /\ [Next]_vars => LocksOK'
  BY LocksStep DEF IInv
<1>3. IInv /\ OwnersOK /\ [Next]_vars => OwnersOK'
  BY OwnersStep DEF IInv
<1>4. IInv /\ OwnersOK /\ LocksOK => CycleMembersAreDoomed
  BY Doomed DEF CycleMembersAreDoomed
<1> QED
  BY <1>1, <1>2, <1>3, <1>4, Invariance, PTL DEF Spec
=============================================================================
