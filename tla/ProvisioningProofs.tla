------------------------- MODULE ProvisioningProofs -------------------------
(***************************************************************************)
(* The properties of Provisioning, for any number of runs, keys,           *)
(* currencies and requests.                                                *)
(***************************************************************************)
EXTENDS Provisioning, TLAPS

\* One run at a time has rows of its own, and as long as it has, nobody else
\* has committed a client; who skips has seen one.
RunsOK ==
    /\ \A r, s \in Runs : tx[r] # {} /\ tx[s] # {} => r = s
    /\ \A r \in Runs :
          /\ at[r] = "fund" => ~Seeded /\ tx[r] \subseteq Planned(r)
          /\ at[r] = "skip" => Seeded
          /\ at[r] \in {"insert", "fund"} => KeyOf[r] # NoKey

\* What a request has read stays true, as clients are neither changed nor
\* taken away.
RequestOK(g) ==
    /\ g.rows \subseteq Table("clients")
    /\ g.at = "scan" /\ g.good => Opens(g.key)
    /\ g.at = "compare" /\ g.good => \E row \in g.rows : row.key = g.key
    /\ g.at = "in" =>
          \E row \in Table("clients") : g.rows = {row} /\ row.key = g.key
    /\ g.at = "200" =>
          \E r \in Runs :
             /\ g.key = KeyOf[r]
             /\ g.found = {FundRow("balances", r, c) : c \in Currencies}
    /\ g.at = "401" => ~g.good

\* No client has an empty key.
GuardOK ==
    /\ \A row \in Table("clients") : row.key # NoKey
    /\ \A q \in Requests : RequestOK(guard[q])

IInv ==
    /\ TypeOK
    /\ OneFundedClient
    /\ ReportsAreTrue
    /\ RunsOK
    /\ GuardOK

Records ==
    [at: Answered \cup {"scan", "compare", "in"}, key: ApiKeys \cup {NoKey},
     rows: SUBSET {ClientRow(r) : r \in Runs}, good: BOOLEAN,
     found: SUBSET UNION {Planned(r) : r \in Runs}]

-----------------------------------------------------------------------------
\* A client row is recognised by its table, and names its run.
LEMMA TablesOfPlan ==
    ASSUME NEW r \in Runs, db = Planned(r)
    PROVE  /\ Table("clients") = {ClientRow(r)}
           /\ Table("balances") = {FundRow("balances", r, c) : c \in Currencies}
           /\ Seeded
<1>1. \A row \in Planned(r) : row.table = "clients" => row = ClientRow(r)
  BY DEF Planned, ClientRow, FundRow
<1>2. ClientRow(r) \in Planned(r) /\ ClientRow(r).table = "clients"
  BY DEF Planned, ClientRow
<1>3. ASSUME NEW row \in Planned(r), row.table = "balances"
      PROVE  row \in {FundRow("balances", r, c) : c \in Currencies}
  <2>1. row # ClientRow(r)
    BY <1>3 DEF ClientRow
  <2>2. row \notin {FundRow("ledger_entries", r, c) : c \in Currencies}
    BY <1>3 DEF FundRow
  <2> QED
    BY <1>3, <2>1, <2>2 DEF Planned
<1>4. \A c \in Currencies :
         /\ FundRow("balances", r, c) \in Planned(r)
         /\ FundRow("balances", r, c).table = "balances"
  BY DEF Planned, FundRow
<1>5. Table("clients") = {ClientRow(r)}
  BY <1>1, <1>2 DEF Table
<1>6. Table("balances") = {FundRow("balances", r, c) : c \in Currencies}
  BY <1>3, <1>4 DEF Table
<1> QED
  BY <1>5, <1>6 DEF Seeded

\* Without rows there are no clients.
LEMMA TablesOfNothing ==
    ASSUME db = {}
    PROVE  Table("clients") = {} /\ ~Seeded
BY DEF Table, Seeded

LEMMA Initially == Init => IInv
<1> SUFFICES ASSUME Init PROVE IInv
  OBVIOUS
<1>1. TypeOK
  BY DEF Init, TypeOK, NoRequest, Answered, Ended
<1>2. Table("clients") = {} /\ ~Seeded
  BY TablesOfNothing DEF Init
<1>3. OneFundedClient /\ ReportsAreTrue
  BY DEF Init, OneFundedClient, ReportsAreTrue
<1>4. RunsOK /\ GuardOK
  BY <1>2 DEF Init, RunsOK, GuardOK, RequestOK, NoRequest
<1> QED
  BY <1>1, <1>3, <1>4 DEF IInv

-----------------------------------------------------------------------------
(* The runs.                                                               *)

\* As long as no client is committed, requests know what they knew.
LEMMA GuardStays ==
    ASSUME GuardOK, UNCHANGED <<db, guard>>
    PROVE  GuardOK' /\ (Seeded' <=> Seeded)
<1>1. Table("clients")' = Table("clients")
  BY DEF Table
<1>2. ASSUME NEW q \in Requests PROVE RequestOK(guard[q])'
  BY <1>1 DEF GuardOK, RequestOK, Opens
<1> QED
  BY <1>1, <1>2 DEF GuardOK, Seeded

\* A step of a run that has no rows and does not get any.
LEMMA EmptyStep ==
    ASSUME IInv, NEW r \in Runs, UNCHANGED <<migrated, db, tx, guard>>,
           NEW place \in {"insert", "skip", "failed"}, Goto(r, place),
           tx[r] = {}, place = "skip" => Seeded,
           place = "insert" => KeyOf[r] # NoKey
    PROVE  IInv'
<1> USE DEF IInv
<1>1. TypeOK'
  BY DEF TypeOK, Goto, Ended
<1>2. GuardOK' /\ (Seeded' <=> Seeded)
  BY GuardStays
<1>3. OneFundedClient' /\ ReportsAreTrue'
  BY <1>2 DEF OneFundedClient, ReportsAreTrue, Goto, TypeOK
<1>4. RunsOK'
  BY <1>2 DEF RunsOK, Goto, TypeOK
<1> QED
  BY <1>1, <1>2, <1>3, <1>4

LEMMA MigrateStep == IInv /\ Migrate => IInv'
<1> SUFFICES ASSUME IInv, Migrate PROVE IInv'
  OBVIOUS
<1> USE DEF IInv, Migrate
<1>1. GuardOK' /\ (Seeded' <=> Seeded)
  BY GuardStays
<1> QED
  BY <1>1 DEF TypeOK, OneFundedClient, ReportsAreTrue, RunsOK

LEMMA HashStep == ASSUME NEW r \in Runs PROVE IInv /\ Hash(r) => IInv'
<1> SUFFICES ASSUME IInv, Hash(r) PROVE IInv'
  OBVIOUS
<1>1. tx[r] = {}
  BY DEF IInv, TypeOK, Hash
<1>2. CASE KeyOf[r] = NoKey
  BY <1>1, <1>2, EmptyStep DEF Hash
<1>3. CASE KeyOf[r] # NoKey
  BY <1>1, <1>3, EmptyStep DEF Hash
<1> QED
  BY <1>2, <1>3

LEMMA InsertClientStep ==
    ASSUME NEW r \in Runs PROVE IInv /\ InsertClient(r) => IInv'
<1> SUFFICES ASSUME IInv, InsertClient(r) PROVE IInv'
  OBVIOUS
<1>1. tx[r] = {}
  BY DEF IInv, TypeOK, InsertClient
<1>2. CASE Seeded
  BY <1>1, <1>2, EmptyStep DEF InsertClient
<1>3. CASE ~Seeded
  <2> USE DEF IInv
  <2>1. /\ UNCHANGED <<migrated, db, guard>> /\ Goto(r, "fund")
        /\ tx' = [tx EXCEPT ![r] = {ClientRow(r)}]
    BY <1>3 DEF InsertClient
  <2>2. ClientRow(r) \in Planned(r)
    BY DEF Planned
  <2>3. TypeOK'
    BY <2>1, <2>2 DEF TypeOK, Goto, Ended
  <2>4. GuardOK' /\ (Seeded' <=> Seeded)
    BY <2>1, GuardStays
  <2>5. OneFundedClient' /\ ReportsAreTrue'
    BY <2>1, <2>4 DEF OneFundedClient, ReportsAreTrue, Goto, TypeOK
  <2>6. \A s \in Runs \ {r} : tx'[s] = {}
    BY <2>1 DEF InsertClient, TypeOK
  <2>7. KeyOf[r] # NoKey
    BY DEF InsertClient, RunsOK
  <2>8. RunsOK'
    <3>1. \A s, u \in Runs : tx'[s] # {} /\ tx'[u] # {} => s = u
      BY <2>6
    <3>2. ASSUME NEW s \in Runs
          PROVE  /\ at'[s] = "fund" => ~Seeded' /\ tx'[s] \subseteq Planned(s)
                 /\ at'[s] = "skip" => Seeded'
                 /\ at'[s] \in {"insert", "fund"} => KeyOf[s] # NoKey
      BY <1>3, <2>1, <2>2, <2>4, <2>7 DEF RunsOK, Goto, TypeOK
    <3> QED
      BY <3>1, <3>2 DEF RunsOK
  <2> QED
    BY <2>3, <2>4, <2>5, <2>8
<1> QED
  BY <1>2, <1>3

LEMMA InsertFundsStep ==
    ASSUME NEW r \in Runs PROVE IInv /\ InsertFunds(r) => IInv'
<1> SUFFICES ASSUME IInv, InsertFunds(r) PROVE IInv'
  OBVIOUS
<1> USE DEF IInv
<1>1. PICK row \in Planned(r) : tx' = [tx EXCEPT ![r] = @ \cup {row}]
  BY DEF InsertFunds
<1>2. UNCHANGED <<migrated, db, at, guard>> /\ at[r] = "fund"
  BY DEF InsertFunds
<1>3. TypeOK'
  BY <1>1, <1>2 DEF TypeOK
<1>4. GuardOK' /\ (Seeded' <=> Seeded)
  BY <1>2, GuardStays
<1>5. OneFundedClient' /\ ReportsAreTrue'
  BY <1>2, <1>4 DEF OneFundedClient, ReportsAreTrue
<1>6. tx[r] # {}
  BY <1>2 DEF TypeOK
<1>7. RunsOK'
  BY <1>1, <1>2, <1>4, <1>6 DEF RunsOK, TypeOK
<1> QED
  BY <1>3, <1>4, <1>5, <1>7

LEMMA FailStep == ASSUME NEW r \in Runs PROVE IInv /\ Fail(r) => IInv'
<1> SUFFICES ASSUME IInv, Fail(r) PROVE IInv'
  OBVIOUS
<1> USE DEF IInv, Fail
<1>1. TypeOK'
  BY DEF TypeOK, Goto, Ended
<1>2. GuardOK' /\ (Seeded' <=> Seeded)
  BY GuardStays
<1>3. OneFundedClient' /\ ReportsAreTrue'
  BY <1>2 DEF OneFundedClient, ReportsAreTrue, Goto, TypeOK
<1>4. RunsOK'
  BY <1>2 DEF RunsOK, Goto, TypeOK
<1> QED
  BY <1>1, <1>2, <1>3, <1>4

\* The step that matters: what becomes visible is the first client, whole.
LEMMA CommitStep == ASSUME NEW r \in Runs PROVE IInv /\ Commit(r) => IInv'
<1> SUFFICES ASSUME IInv, Commit(r) PROVE IInv'
  OBVIOUS
<1> USE DEF IInv
<1>1. /\ db' = db \cup tx[r] /\ tx' = [tx EXCEPT ![r] = {}]
      /\ UNCHANGED <<migrated, guard>>
  BY DEF Commit
<1>2. CASE at[r] = "skip"
  <2>1. tx[r] = {} /\ tx' = tx /\ db' = db
    BY <1>1, <1>2 DEF TypeOK
  <2>2. Goto(r, "skipped") \/ Goto(r, "failed")
    BY <1>2 DEF Commit
  <2>3. TypeOK'
    BY <1>1, <2>1, <2>2 DEF TypeOK, Goto, Ended
  <2>4. GuardOK' /\ (Seeded' <=> Seeded)
    BY <1>1, <2>1, GuardStays
  <2>5. OneFundedClient' /\ ReportsAreTrue'
    BY <1>2, <2>1, <2>2, <2>4
    DEF OneFundedClient, ReportsAreTrue, RunsOK, Goto, TypeOK
  <2>6. RunsOK'
    BY <2>1, <2>2, <2>4 DEF RunsOK, Goto, TypeOK
  <2> QED
    BY <2>3, <2>4, <2>5, <2>6
<1>3. CASE at[r] = "fund" /\ tx[r] = Planned(r)
  <2>1. ~Seeded
    BY <1>3 DEF RunsOK
  <2>2. db = {} /\ Table("clients") = {}
    BY <2>1, TablesOfPlan, TablesOfNothing DEF OneFundedClient
  <2>3. db' = Planned(r)
    BY <1>1, <1>3, <2>2
  <2>4. Table("clients")' = {ClientRow(r)} /\ Seeded'
    <3>1. \A row \in Planned(r) : row.table = "clients" => row = ClientRow(r)
      BY DEF Planned, ClientRow, FundRow
    <3>2. ClientRow(r) \in Planned(r) /\ ClientRow(r).table = "clients"
      BY DEF Planned, ClientRow
    <3> QED
      BY <2>3, <3>1, <3>2 DEF Table, Seeded
  <2>5. Goto(r, "seeded") \/ Goto(r, "failed")
    BY <1>3 DEF Commit
  <2>6. tx[r] # {}
    BY <1>3 DEF TypeOK
  <2>7. \A s \in Runs \ {r} : tx[s] = {} /\ at[s] \notin {"fund", "skip", "seeded", "skipped"}
    BY <2>1, <2>2, <2>6 DEF RunsOK, TypeOK, ReportsAreTrue
  <2>8. TypeOK'
    BY <1>1, <2>3, <2>5 DEF TypeOK, Goto, Ended
  <2>9. OneFundedClient'
    BY <2>3 DEF OneFundedClient
  <2>10. ReportsAreTrue'
    BY <2>3, <2>4, <2>5, <2>7 DEF ReportsAreTrue, Goto, TypeOK, Planned
  <2>11. RunsOK'
    BY <1>1, <2>4, <2>5, <2>7 DEF RunsOK, Goto, TypeOK
  <2>12. GuardOK'
    <3>1. KeyOf[r] # NoKey
      BY <1>3 DEF RunsOK
    <3>2. ASSUME NEW q \in Requests PROVE RequestOK(guard[q])'
      <4>1. RequestOK(guard[q])
        BY DEF GuardOK
      <4>2. guard[q].rows = {} /\ ~Opens(guard[q].key)
        BY <2>2, <4>1 DEF RequestOK, Opens
      <4> QED
        BY <1>1, <2>2, <4>1, <4>2 DEF RequestOK
    <3> QED
      BY <2>4, <3>1, <3>2 DEF GuardOK, ClientRow
  <2> QED
    BY <2>8, <2>9, <2>10, <2>11, <2>12
<1> QED
  BY <1>2, <1>3 DEF Commit, Finished

-----------------------------------------------------------------------------
(* The guard.                                                              *)

\* A step of one request, to a record that it may rely on.
LEMMA RequestStep ==
    ASSUME IInv, NEW q \in Requests, UNCHANGED <<migrated, db, tx, at>>,
           NEW g \in Records, guard' = [guard EXCEPT ![q] = g], RequestOK(g)
    PROVE  IInv'
<1> USE DEF IInv
<1>1. TypeOK'
  BY DEF TypeOK, Records
<1>2. Table("clients")' = Table("clients") /\ (Seeded' <=> Seeded)
  BY DEF Table, Seeded
<1>3. OneFundedClient' /\ ReportsAreTrue' /\ RunsOK'
  BY <1>2 DEF OneFundedClient, ReportsAreTrue, RunsOK
<1>4. ASSUME NEW p \in Requests PROVE RequestOK(guard[p])'
  <2>1. guard'[p] = g \/ guard'[p] = guard[p]
    BY DEF TypeOK
  <2>2. RequestOK(g) /\ RequestOK(guard[p])
    BY DEF GuardOK
  <2> QED
    BY <1>2, <2>1, <2>2 DEF RequestOK, Opens
<1>5. GuardOK'
  BY <1>2, <1>4 DEF GuardOK
<1> QED
  BY <1>1, <1>3, <1>5

\* The client rows are client rows of runs.
LEMMA ClientRows ==
    ASSUME TypeOK
    PROVE  Table("clients") \subseteq {ClientRow(r) : r \in Runs}
<1> SUFFICES ASSUME NEW row \in Table("clients")
             PROVE  row \in {ClientRow(r) : r \in Runs}
  OBVIOUS
<1>1. PICK r \in Runs : row \in Planned(r)
  BY DEF TypeOK, Table
<1>2. row = ClientRow(r)
  BY <1>1 DEF Planned, Table, ClientRow, FundRow
<1> QED
  BY <1>2

LEMMA AskStep ==
    ASSUME NEW q \in Requests, NEW key \in ApiKeys \cup {NoKey}
    PROVE  IInv /\ Ask(q, key) => IInv'
<1> SUFFICES ASSUME IInv, Ask(q, key) PROVE IInv'
  OBVIOUS
<1> DEFINE g == [NoRequest EXCEPT !.at = IF key = NoKey THEN "401" ELSE "scan",
                                  !.key = key, !.good = Opens(key)]
<1>1. g \in Records
  BY DEF Records, NoRequest, Answered, Opens
<1>2. RequestOK(g)
  <2>1. ~Opens(NoKey)
    BY DEF IInv, GuardOK, Opens
  <2> QED
    BY <2>1 DEF RequestOK, NoRequest
<1>3. UNCHANGED <<migrated, db, tx, at>> /\ guard' = [guard EXCEPT ![q] = g]
  BY DEF Ask
<1> HIDE DEF g
<1> QED
  BY <1>1, <1>2, <1>3, RequestStep

LEMMA ReadClientsStep ==
    ASSUME NEW q \in Requests PROVE IInv /\ ReadClients(q) => IInv'
<1> SUFFICES ASSUME IInv, ReadClients(q) PROVE IInv'
  OBVIOUS
<1> DEFINE g == [guard[q] EXCEPT !.at = "compare", !.rows = Table("clients")]
<1>1. guard[q] \in Records /\ guard[q].at = "scan"
  BY DEF IInv, TypeOK, Records, ReadClients
<1>2. g \in Records
  BY <1>1, ClientRows DEF IInv, Records
<1>3. RequestOK(g)
  BY <1>1 DEF IInv, GuardOK, RequestOK, Records, Opens
<1>4. UNCHANGED <<migrated, db, tx, at>> /\ guard' = [guard EXCEPT ![q] = g]
  BY <1>1 DEF ReadClients, Records, IInv, TypeOK
<1> HIDE DEF g
<1> QED
  BY <1>2, <1>3, <1>4, RequestStep

LEMMA CompareStep ==
    ASSUME NEW q \in Requests PROVE IInv /\ Compare(q) => IInv'
<1> SUFFICES ASSUME IInv, Compare(q) PROVE IInv'
  OBVIOUS
<1>1. guard[q] \in Records /\ guard[q].at = "compare" /\ RequestOK(guard[q])
  BY DEF IInv, TypeOK, GuardOK, Records, Compare
<1>2. PICK row \in guard[q].rows :
         guard' = IF row.key = guard[q].key
                  THEN [guard EXCEPT ![q].at = "in", ![q].rows = {row}]
                  ELSE [guard EXCEPT ![q].rows = @ \ {row}]
  BY DEF Compare
<1>3. row \in Table("clients")
  BY <1>1, <1>2 DEF RequestOK
<1>4. CASE row.key = guard[q].key
  <2> DEFINE g == [guard[q] EXCEPT !.at = "in", !.rows = {row}]
  <2>1. g \in Records
    BY <1>1, <1>2 DEF Records
  <2>2. RequestOK(g)
    BY <1>1, <1>3, <1>4 DEF RequestOK, Records
  <2>3. UNCHANGED <<migrated, db, tx, at>> /\ guard' = [guard EXCEPT ![q] = g]
    BY <1>1, <1>2, <1>4 DEF Compare, IInv, TypeOK, Records
  <2> HIDE DEF g
  <2> QED
    BY <2>1, <2>2, <2>3, RequestStep
<1>5. CASE row.key # guard[q].key
  <2> DEFINE g == [guard[q] EXCEPT !.rows = guard[q].rows \ {row}]
  <2>1. g \in Records
    BY <1>1 DEF Records
  <2>2. RequestOK(g)
    BY <1>1, <1>5 DEF RequestOK, Records
  <2>3. UNCHANGED <<migrated, db, tx, at>> /\ guard' = [guard EXCEPT ![q] = g]
    BY <1>1, <1>2, <1>5 DEF Compare, IInv, TypeOK, Records
  <2> HIDE DEF g
  <2> QED
    BY <2>1, <2>2, <2>3, RequestStep
<1> QED
  BY <1>4, <1>5

LEMMA RejectStep ==
    ASSUME NEW q \in Requests PROVE IInv /\ Reject(q) => IInv'
<1> SUFFICES ASSUME IInv, Reject(q) PROVE IInv'
  OBVIOUS
<1> DEFINE g == [guard[q] EXCEPT !.at = "401"]
<1>1. /\ guard[q] \in Records /\ RequestOK(guard[q])
      /\ guard[q].at = "compare" /\ guard[q].rows = {}
  BY DEF IInv, TypeOK, GuardOK, Records, Reject
<1>2. g \in Records
  BY <1>1 DEF Records, Answered
<1>3. RequestOK(g)
  BY <1>1 DEF RequestOK, Records
<1>4. UNCHANGED <<migrated, db, tx, at>> /\ guard' = [guard EXCEPT ![q] = g]
  BY DEF Reject, IInv, TypeOK
<1> HIDE DEF g
<1> QED
  BY <1>2, <1>3, <1>4, RequestStep

\* Whoever is let in is the one client there is, and finds all its balances.
LEMMA GetBalancesStep ==
    ASSUME NEW q \in Requests PROVE IInv /\ GetBalances(q) => IInv'
<1> SUFFICES ASSUME IInv, GetBalances(q) PROVE IInv'
  OBVIOUS
<1> DEFINE found == {row \in Table("balances") :
                        \E c \in guard[q].rows : row.client = c.client}
           g == [guard[q] EXCEPT !.at = "200", !.found = found]
<1>1. guard[q] \in Records /\ RequestOK(guard[q]) /\ guard[q].at = "in"
  BY DEF IInv, TypeOK, GuardOK, Records, GetBalances
<1>2. PICK row \in Table("clients") :
         guard[q].rows = {row} /\ row.key = guard[q].key
  BY <1>1 DEF RequestOK
<1>3. PICK r \in Runs : db = Planned(r)
  BY <1>2 DEF IInv, OneFundedClient, Table
<1>4. row = ClientRow(r)
  BY <1>2, <1>3, TablesOfPlan
<1>5. found = {FundRow("balances", r, c) : c \in Currencies}
  <2>1. Table("balances") = {FundRow("balances", r, c) : c \in Currencies}
    BY <1>3, TablesOfPlan
  <2>2. \A b \in Table("balances") : b.client = row.client
    BY <1>4, <2>1 DEF FundRow, ClientRow
  <2> QED
    BY <1>2, <2>1, <2>2
<1>6. guard[q].key = KeyOf[r]
  BY <1>2, <1>4 DEF ClientRow
<1>7. found \in SUBSET UNION {Planned(s) : s \in Runs}
  BY <1>3 DEF Table
<1>8. g \in Records
  BY <1>1, <1>7 DEF Records, Answered
<1>9. RequestOK(g)
  BY <1>1, <1>5, <1>6 DEF RequestOK, Records
<1>10. UNCHANGED <<migrated, db, tx, at>> /\ guard' = [guard EXCEPT ![q] = g]
  BY <1>1 DEF GetBalances, IInv, TypeOK, Records
<1> HIDE DEF g
<1> QED
  BY <1>8, <1>9, <1>10, RequestStep

LEMMA QueryFailsStep ==
    ASSUME NEW q \in Requests PROVE IInv /\ QueryFails(q) => IInv'
<1> SUFFICES ASSUME IInv, QueryFails(q) PROVE IInv'
  OBVIOUS
<1> DEFINE g == [guard[q] EXCEPT !.at = "500"]
<1>1. guard[q] \in Records /\ RequestOK(guard[q])
  BY DEF IInv, TypeOK, GuardOK, Records
<1>2. g \in Records
  BY <1>1 DEF Records, Answered
<1>3. RequestOK(g)
  BY <1>1 DEF RequestOK, Records
<1>4. UNCHANGED <<migrated, db, tx, at>> /\ guard' = [guard EXCEPT ![q] = g]
  BY DEF QueryFails, IInv, TypeOK
<1> HIDE DEF g
<1> QED
  BY <1>2, <1>3, <1>4, RequestStep

-----------------------------------------------------------------------------
\* The inductive invariant holds in every reachable state.
THEOREM Invariance == Spec => []IInv
<1>1. Init => IInv
  BY Initially
<1>2. IInv /\ [Next]_vars => IInv'
  <2> SUFFICES ASSUME IInv, [Next]_vars PROVE IInv'
    OBVIOUS
  <2>1. CASE UNCHANGED vars
    BY <2>1 DEF vars, IInv, TypeOK, OneFundedClient, ReportsAreTrue, RunsOK,
                GuardOK, RequestOK, Opens, Seeded, Table
  <2>2. CASE Migrate
    BY <2>2, MigrateStep
  <2>3. ASSUME NEW r \in Runs,
               Hash(r) \/ InsertClient(r) \/ InsertFunds(r) \/ Commit(r) \/ Fail(r)
        PROVE  IInv'
    BY <2>3, HashStep, InsertClientStep, InsertFundsStep, CommitStep, FailStep
  <2>4. ASSUME NEW q \in Requests, NEW key \in ApiKeys \cup {NoKey}, Ask(q, key)
        PROVE  IInv'
    BY <2>4, AskStep
  <2>5. ASSUME NEW q \in Requests,
               \/ ReadClients(q) \/ Compare(q) \/ Reject(q)
               \/ GetBalances(q) \/ QueryFails(q)
        PROVE  IInv'
    BY <2>5, ReadClientsStep, CompareStep, RejectStep, GetBalancesStep,
       QueryFailsStep
  <2> QED
    BY <2>1, <2>2, <2>3, <2>4, <2>5 DEF Next
<1> QED
  BY <1>1, <1>2, PTL DEF Spec

\* Every variable of db:seed and the guard keeps its shape.
THEOREM Typing == Spec => []TypeOK
<1>1. IInv => TypeOK
  BY DEF IInv
<1> QED
  BY <1>1, Invariance, PTL

\* However many seed runs race and fail, the committed rows are those of no
\* run or of one, whole.
THEOREM SingleClient == Spec => []OneFundedClient
<1>1. IInv => OneFundedClient
  BY DEF IInv
<1> QED
  BY <1>1, Invariance, PTL

\* "Already seeded" and the printed key are said of what is committed.
THEOREM Reports == Spec => []ReportsAreTrue
<1>1. IInv => ReportsAreTrue
  BY DEF IInv
<1> QED
  BY <1>1, Invariance, PTL

\* ApiKeyAuthGuard lets a request in exactly with the key of the client, and
\* the client that is let in finds its funding.
THEOREM Admission == Spec => []KeyOpensItsClient
<1>1. IInv => KeyOpensItsClient
  BY DEF IInv, GuardOK, RequestOK, KeyOpensItsClient
<1> QED
  BY <1>1, Invariance, PTL
=============================================================================
