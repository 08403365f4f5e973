---------------------------- MODULE Provisioning ----------------------------
(***************************************************************************)
(* How the one client comes into being and is let in: db:migrate, runs of  *)
(* db:seed that may race, fail and be repeated with another key, and the   *)
(* guard of the API that is asked meanwhile.                               *)
(***************************************************************************)
EXTENDS FiniteSets, Naturals

CONSTANTS
    Runs,           \* runs of the seed script; each would create its own uuid
    Currencies,     \* those of the funding list
    ApiKeys,        \* keys; a hash stands for the one key it matches
    KeyOf,          \* SEEDED_API_KEY of each run, NoKey where it is not set
    NoKey,
    Requests        \* requests to the API, each asking again when answered

ASSUME KeysAssumption ==
    NoKey \notin ApiKeys /\ KeyOf \in [Runs -> ApiKeys \cup {NoKey}]

VARIABLES
    migrated,       \* whether the tables exist
    db,             \* the committed rows
    tx,             \* the rows of each run's transaction
    at,             \* where each run is, or how it ended
    guard           \* where each request is in ApiKeyAuthGuard and getBalances

vars == <<migrated, db, tx, at, guard>>

ClientRow(r) == [table |-> "clients", client |-> r, key |-> KeyOf[r]]
FundRow(t, r, c) == [table |-> t, client |-> r, currency |-> c]

\* What a run inserts, the client first; the rest becomes visible at once, so
\* that its order makes no difference.
Planned(r) ==
    {ClientRow(r)} \cup {FundRow("balances", r, c) : c \in Currencies}
                   \cup {FundRow("ledger_entries", r, c) : c \in Currencies}

Table(t) == {row \in db : row.table = t}
Seeded == Table("clients") # {}

Ended == {"seeded", "skipped", "failed"}
NoRequest == [at |-> "idle", key |-> NoKey, rows |-> {}, good |-> FALSE,
              found |-> {}]

Init ==
    /\ migrated = FALSE
    /\ db = {}
    /\ tx = [r \in Runs |-> {}]
    /\ at = [r \in Runs |-> "start"]
    /\ guard = [q \in Requests |-> NoRequest]

-----------------------------------------------------------------------------
(* db:migrate and db:seed.                                                 *)

\* All pending migrations are one transaction.
Migrate ==
    /\ ~migrated /\ migrated' = TRUE
    /\ UNCHANGED <<db, tx, at, guard>>

Goto(r, place) == at' = [at EXCEPT ![r] = place]

Hash(r) ==
    /\ at[r] = "start"
    /\ Goto(r, IF KeyOf[r] = NoKey THEN "failed" ELSE "insert")
    /\ UNCHANGED <<migrated, db, tx, guard>>

\* Bug: the name is looked for instead of being unique.
InsertClientUnlessSeen(r) ==
    /\ at[r] = "insert" /\ migrated
    /\ IF Seeded THEN Goto(r, "skip") /\ tx' = tx
                 ELSE Goto(r, "fund") /\ tx' = [tx EXCEPT ![r] = {ClientRow(r)}]
    /\ UNCHANGED <<migrated, db, guard>>

\* Bug: a run that meets a rival does not wait to see how it ends.
InsertClientImpatient(r) ==
    /\ at[r] = "insert" /\ migrated
    /\ IF Seeded \/ \E s \in Runs \ {r} : tx[s] # {}
       THEN Goto(r, "skip") /\ tx' = tx
       ELSE Goto(r, "fund") /\ tx' = [tx EXCEPT ![r] = {ClientRow(r)}]
    /\ UNCHANGED <<migrated, db, guard>>

\* ON CONFLICT DO NOTHING waits for a rival that has inserted the name and not
\* ended.
InsertClient(r) ==
    /\ at[r] = "insert" /\ migrated
    /\ \A s \in Runs \ {r} : tx[s] = {}
    /\ IF Seeded THEN Goto(r, "skip") /\ tx' = tx
                 ELSE Goto(r, "fund") /\ tx' = [tx EXCEPT ![r] = {ClientRow(r)}]
    /\ UNCHANGED <<migrated, db, guard>>

InsertFunds(r) ==
    /\ at[r] = "fund"
    /\ \E row \in Planned(r) \ tx[r] : tx' = [tx EXCEPT ![r] = @ \cup {row}]
    /\ UNCHANGED <<migrated, db, at, guard>>

\* Bug: the client is committed before it is funded.
FinishedUnfunded(r) == at[r] \in {"fund", "skip"}

Finished(r) ==
    \/ at[r] = "fund" /\ tx[r] = Planned(r)
    \/ at[r] = "skip"

\* The answer to COMMIT may be lost.
Commit(r) ==
    /\ Finished(r)
    /\ db' = db \cup tx[r]
    /\ tx' = [tx EXCEPT ![r] = {}]
    /\ \/ Goto(r, IF at[r] = "fund" THEN "seeded" ELSE "skipped")
       \/ Goto(r, "failed")
    /\ UNCHANGED <<migrated, guard>>

\* Bug: the transaction stays open.
FailInTransaction(r) ==
    /\ at[r] \notin Ended
    /\ Goto(r, "failed")
    /\ UNCHANGED <<migrated, db, tx, guard>>

\* A statement fails, as all do without tables, or the run is killed.
Fail(r) ==
    /\ at[r] \notin Ended
    /\ tx' = [tx EXCEPT ![r] = {}]
    /\ Goto(r, "failed")
    /\ UNCHANGED <<migrated, db, guard>>

-----------------------------------------------------------------------------
(* GET /v1/balances through ApiKeyAuthGuard.                               *)

Answered == {"idle", "401", "500", "200"}

Opens(key) == \E row \in Table("clients") : row.key = key

Ask(q, key) ==
    /\ guard[q].at \in Answered
    /\ guard' = [guard EXCEPT ![q] =
         [NoRequest EXCEPT !.at = IF key = NoKey THEN "401" ELSE "scan",
                           !.key = key, !.good = Opens(key)]]
    /\ UNCHANGED <<migrated, db, tx, at>>

ReadClients(q) ==
    /\ guard[q].at = "scan" /\ migrated
    /\ guard' = [guard EXCEPT ![q].at = "compare",
                              ![q].rows = Table("clients")]
    /\ UNCHANGED <<migrated, db, tx, at>>

\* bcrypt.compare, one row after another.
Compare(q) ==
    /\ guard[q].at = "compare"
    /\ \E row \in guard[q].rows :
          guard' = IF row.key = guard[q].key
                   THEN [guard EXCEPT ![q].at = "in", ![q].rows = {row}]
                   ELSE [guard EXCEPT ![q].rows = @ \ {row}]
    /\ UNCHANGED <<migrated, db, tx, at>>

Reject(q) ==
    /\ guard[q].at = "compare" /\ guard[q].rows = {}
    /\ guard' = [guard EXCEPT ![q].at = "401"]
    /\ UNCHANGED <<migrated, db, tx, at>>

GetBalances(q) ==
    /\ guard[q].at = "in"
    /\ guard' = [guard EXCEPT ![q].at = "200",
         ![q].found = {row \in Table("balances") :
                          \E c \in guard[q].rows : row.client = c.client}]
    /\ UNCHANGED <<migrated, db, tx, at>>

QueryFails(q) ==
    /\ guard[q].at \in {"scan", "in"}
    /\ guard' = [guard EXCEPT ![q].at = "500"]
    /\ UNCHANGED <<migrated, db, tx, at>>

Next ==
    \/ Migrate
    \/ \E r \in Runs : \/ Hash(r) \/ InsertClient(r) \/ InsertFunds(r)
                       \/ Commit(r) \/ Fail(r)
    \/ \E q \in Requests :
          \/ \E key \in ApiKeys \cup {NoKey} : Ask(q, key)
          \/ ReadClients(q) \/ Compare(q) \/ Reject(q)
          \/ GetBalances(q) \/ QueryFails(q)

Spec == Init /\ [][Next]_vars

-----------------------------------------------------------------------------
(* Properties.                                                             *)

\* Every variable keeps its shape, and only a run that is inserting has a
\* transaction with rows in it.
TypeOK ==
    /\ migrated \in BOOLEAN
    /\ db \subseteq UNION {Planned(r) : r \in Runs}
    /\ tx \in [Runs -> SUBSET UNION {Planned(r) : r \in Runs}]
    /\ at \in [Runs -> {"start", "insert", "fund", "skip"} \cup Ended]
    /\ guard \in [Requests ->
         [at: Answered \cup {"scan", "compare", "in"}, key: ApiKeys \cup {NoKey},
          rows: SUBSET {ClientRow(r) : r \in Runs}, good: BOOLEAN,
          found: SUBSET UNION {Planned(r) : r \in Runs}]]
    /\ \A r \in Runs : IF at[r] = "fund" THEN ClientRow(r) \in tx[r]
                                        ELSE tx[r] = {}

\* However many runs race, fail and are repeated: there is no client or one,
\* and with it all its balances and the ledger entries they come from.
OneFundedClient == db = {} \/ \E r \in Runs : db = Planned(r)

\* "Already seeded" is said of a client that is there, and no rollback of
\* another run takes it away; a key that is printed is the key of the client.
ReportsAreTrue ==
    \A r \in Runs : /\ at[r] = "skipped" => Seeded
                    /\ at[r] = "seeded" => ClientRow(r) \in db

\* A request that is let in sees the whole funding of the client whose key it
\* has, and a request made with that key when it was valid is not refused.
KeyOpensItsClient ==
    \A q \in Requests :
        /\ guard[q].at = "200" =>
              \E r \in Runs :
                 /\ guard[q].key = KeyOf[r]
                 /\ guard[q].found = {FundRow("balances", r, c) : c \in Currencies}
        /\ guard[q].at = "401" => ~guard[q].good
=============================================================================
