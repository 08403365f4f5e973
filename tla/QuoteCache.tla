----------------------------- MODULE QuoteCache -----------------------------
(***************************************************************************)
(* Quotes between Postgres and Redis: QuotingService.createQuote and       *)
(* getQuoteById read and fill the cache, TradingService.executeTrade drops *)
(* the copy after its commit, and RedisService turns every cache failure   *)
(* into a miss.  Each await is a step, so a copy that was read from one    *)
(* store is written to the other after anything else has happened, and a   *)
(* SET may reach Redis after its caller has given it up.                   *)
(*                                                                         *)
(* Time is kept as what remains: left[q] ticks to expires_at, ttl ticks to *)
(* the eviction of a copy.  Trades are seen from here as the lock, the     *)
(* commit and the invalidation of the one that wins (TradeExecution).      *)
(***************************************************************************)
EXTENDS Naturals

CONSTANTS
    Clients,
    Quotes,
    Owner,          \* the client each quote is created for
    Gets,           \* concurrent GET /v1/quotes/:id requests
    Lifetime,       \* DEFAULT_QUOTE_TTL_SECONDS, in ticks
    Outages,        \* whether Redis commands may fail
    Corruptions     \* what a corrupted copy may look like

ASSUME OwnerAssumption == Owner \in [Quotes -> Clients]
ASSUME LifetimeAssumption == Lifetime \in Nat \ {0}
ASSUME OutagesAssumption == Outages \in BOOLEAN
ASSUME CorruptionsAssumption == Corruptions \subseteq {"unparsable", "misshapen"}

VARIABLES
    row,            \* quotes.status, "ABSENT" before the insert
    left,           \* ticks until expires_at
    copy,           \* what Redis holds under quote:<id>
    ttl,            \* ticks until Redis drops it
    late,           \* a SET that timed out and is still under way (bound: one)
    maker,          \* createQuote
    settler,        \* executeTrade
    get             \* getQuoteById

vars == <<row, left, copy, ttl, late, maker, settler, get>>

Statuses == {"ABSENT", "ACTIVE", "EXECUTED"}
Shown == {"ACTIVE", "EXPIRED", "EXECUTED"}
Copies == {"none", "ACTIVE", "EXECUTED", "unparsable", "misshapen"}
Ticks == 0 .. Lifetime

NoSet == [status |-> "none"]
Sets == [quote: Quotes, status: {"ACTIVE", "EXECUTED"}, ttl: Ticks]

NoGet == [pc |-> "idle"]
GetStates ==
    [pc: {"cache", "db", "fill", "answer", "done"}, client: Clients,
     quote: Quotes, seen: Statuses, ttl: Ticks,
     reply: Shown \cup {"none", "404", "500"}]

Init ==
    /\ row = [q \in Quotes |-> "ABSENT"]
    /\ left = [q \in Quotes |-> 0]
    /\ copy = [q \in Quotes |-> "none"]
    /\ ttl = [q \in Quotes |-> 0]
    /\ late = NoSet
    /\ maker = [q \in Quotes |-> "idle"]
    /\ settler = [q \in Quotes |-> "idle"]
    /\ get = [g \in Gets |-> NoGet]

-----------------------------------------------------------------------------
(* Redis.                                                                  *)

\* SET ... PX: the lifetime is counted from its arrival.
Store(q, status, ticks) ==
    /\ copy' = [copy EXCEPT ![q] = status]
    /\ ttl' = [ttl EXCEPT ![q] = ticks]

\* failSoft: a command takes effect, or its failure is logged and forgotten; a
\* command that timed out may still be on its way.
SetJson(q, status, ticks) ==
    \/ Store(q, status, ticks) /\ UNCHANGED late
    \/ /\ Outages
       /\ \/ UNCHANGED late
          \/ late = NoSet /\ late' = [quote |-> q, status |-> status, ttl |-> ticks]
       /\ UNCHANGED <<copy, ttl>>

\* Meanwhile another API process may have set or dropped the copy.
LateSet ==
    /\ late # NoSet
    /\ late' = NoSet
    /\ \/ Store(late.quote, late.status, late.ttl)
       \/ UNCHANGED <<copy, ttl>>
    /\ UNCHANGED <<row, left, maker, settler, get>>

Del(q) ==
    /\ \/ copy' = [copy EXCEPT ![q] = "none"] /\ ttl' = [ttl EXCEPT ![q] = 0]
       \/ Outages /\ UNCHANGED <<copy, ttl>>
    /\ UNCHANGED late

\* What getJson may return.
GetJson(q) ==
    {IF copy[q] = "unparsable" THEN "none" ELSE copy[q]}
    \cup (IF Outages THEN {"none"} ELSE {})

\* Redis restarts without its data, or evicts the copy.
Evict(q) ==
    /\ copy[q] # "none"
    /\ copy' = [copy EXCEPT ![q] = "none"]
    /\ ttl' = [ttl EXCEPT ![q] = 0]
    /\ UNCHANGED <<row, left, late, maker, settler, get>>

\* What is stored is not what was written, or was written by other code.
Corrupt(q) ==
    /\ copy[q] # "none"
    /\ \E c \in Corruptions : copy' = [copy EXCEPT ![q] = c]
    /\ UNCHANGED <<row, left, ttl, late, maker, settler, get>>

-----------------------------------------------------------------------------
(* createQuote.                                                            *)

\* The price is known and expiresAt computed.
Price(q) ==
    /\ maker[q] = "idle"
    /\ maker' = [maker EXCEPT ![q] = "insert"]
    /\ left' = [left EXCEPT ![q] = Lifetime]
    /\ UNCHANGED <<row, copy, ttl, late, settler, get>>

\* The id is drawn at random: it is none that is being asked for.
Insert(q) ==
    /\ maker[q] = "insert"
    /\ \A g \in Gets : get[g].pc \notin {"idle", "done"} => get[g].quote # q
    /\ row' = [row EXCEPT ![q] = "ACTIVE"]
    /\ maker' = [maker EXCEPT ![q] = "fill"]
    /\ UNCHANGED <<left, copy, ttl, late, settler, get>>

\* Only with this answer does anybody learn the id.
FillNew(q) ==
    /\ maker[q] = "fill"
    /\ SetJson(q, "ACTIVE", Lifetime)
    /\ maker' = [maker EXCEPT ![q] = "done"]
    /\ UNCHANGED <<row, left, settler, get>>

-----------------------------------------------------------------------------
(* executeTrade.                                                           *)

\* Bug: the copy is marked with the row's lock instead of after the commit.
HoldAndMark(q) ==
    /\ maker[q] = "done" /\ settler[q] = "idle"
    /\ row[q] = "ACTIVE" /\ left[q] > 0
    /\ settler' = [settler EXCEPT ![q] = "held"]
    /\ SetJson(q, "EXECUTED", left[q])
    /\ UNCHANGED <<row, left, maker, get>>

\* The quote is locked and found ACTIVE and in time.
Hold(q) ==
    /\ maker[q] = "done" /\ settler[q] = "idle"
    /\ row[q] = "ACTIVE" /\ left[q] > 0
    /\ settler' = [settler EXCEPT ![q] = "held"]
    /\ UNCHANGED <<row, left, copy, ttl, late, maker, get>>

Release(q) ==
    /\ settler[q] = "held"
    /\ settler' = [settler EXCEPT ![q] = "idle"]
    /\ UNCHANGED <<row, left, copy, ttl, late, maker, get>>

Settle(q) ==
    /\ settler[q] = "held"
    /\ row' = [row EXCEPT ![q] = "EXECUTED"]
    /\ settler' = [settler EXCEPT ![q] = "settled"]
    /\ UNCHANGED <<left, copy, ttl, late, maker, get>>

Invalidate(q) ==
    /\ settler[q] = "settled"
    /\ Del(q)
    /\ settler' = [settler EXCEPT ![q] = "done"]
    /\ UNCHANGED <<row, left, maker, get>>

\* The answer to COMMIT is lost or the process dies before the DEL; a retry
\* replays the trade and does not invalidate.
Forget(q) ==
    /\ settler[q] = "settled"
    /\ settler' = [settler EXCEPT ![q] = "lost"]
    /\ UNCHANGED <<row, left, copy, ttl, late, maker, get>>

-----------------------------------------------------------------------------
(* getQuoteById.                                                           *)

Goto(g, label) == get' = [get EXCEPT ![g].pc = label]

Reply(g, what) ==
    get' = [get EXCEPT ![g].pc = "done", ![g].reply = what,
                       ![g].seen = "ABSENT", ![g].ttl = 0]

\* Bug: a stored row is shown as it was stored.
DisplayedAsStored(q, status) == status

\* toQuoteResponse: EXPIRED is what an ACTIVE quote is called late.
Displayed(q, status) ==
    IF status = "ACTIVE" /\ left[q] = 0 THEN "EXPIRED" ELSE status

\* assertOwnedByClient, then the response.
Answer(g) ==
    IF get[g].client = Owner[get[g].quote]
    THEN Reply(g, Displayed(get[g].quote, get[g].seen))
    ELSE Reply(g, "404")

\* The id of a quote that createQuote has answered with, or one that names no
\* quote.
Ask(g, client, q) ==
    /\ get[g].pc \in {"idle", "done"}
    /\ maker[q] # "fill"
    /\ get' = [get EXCEPT ![g] = [pc |-> "cache", client |-> client,
                                  quote |-> q, seen |-> "ABSENT", ttl |-> 0,
                                  reply |-> "none"]]
    /\ UNCHANGED <<row, left, copy, ttl, late, maker, settler>>

\* Bug: a hit renews the copy.
ReadCacheSliding(g) ==
    /\ get[g].pc = "cache"
    /\ \E hit \in GetJson(get[g].quote) :
          CASE hit = "none" -> Goto(g, "db")
            [] hit = "misshapen" -> Reply(g, "500")
            [] OTHER -> get' = [get EXCEPT ![g].pc = "fill", ![g].seen = hit,
                                           ![g].ttl = Lifetime]
    /\ UNCHANGED <<row, left, copy, ttl, late, maker, settler>>

\* deserializeQuote is outside failSoft: a copy that parses but lacks a
\* field makes it throw.
ReadCache(g) ==
    /\ get[g].pc = "cache"
    /\ \E hit \in GetJson(get[g].quote) :
          CASE hit = "none" -> Goto(g, "db")
            [] hit = "misshapen" -> Reply(g, "500")
            [] OTHER -> get' = [get EXCEPT ![g].pc = "answer", ![g].seen = hit]
    /\ UNCHANGED <<row, left, copy, ttl, late, maker, settler>>

\* Bug: a row is cached whatever remains of it.
ReadRowLate(g) ==
    LET q == get[g].quote IN
    /\ get[g].pc = "db"
    /\ IF row[q] = "ABSENT" THEN Reply(g, "404")
       ELSE get' = [get EXCEPT ![g].pc = "fill",
                               ![g].seen = row[q], ![g].ttl = left[q]]
    /\ UNCHANGED <<row, left, copy, ttl, late, maker, settler>>

\* The row, and how long a copy of it may be kept.
ReadRow(g) ==
    LET q == get[g].quote IN
    /\ get[g].pc = "db"
    /\ IF row[q] = "ABSENT" THEN Reply(g, "404")
       ELSE get' = [get EXCEPT ![g].pc = IF left[q] > 0 THEN "fill"
                                                        ELSE "answer",
                               ![g].seen = row[q], ![g].ttl = left[q]]
    /\ UNCHANGED <<row, left, copy, ttl, late, maker, settler>>

Fill(g) ==
    /\ get[g].pc = "fill"
    /\ SetJson(get[g].quote, get[g].seen, get[g].ttl)
    /\ Goto(g, "answer")
    /\ UNCHANGED <<row, left, maker, settler>>

Respond(g) ==
    /\ get[g].pc = "answer"
    /\ Answer(g)
    /\ UNCHANGED <<row, left, copy, ttl, late, maker, settler>>

DbError(g) ==
    /\ get[g].pc = "db"
    /\ Reply(g, "500")
    /\ UNCHANGED <<row, left, copy, ttl, late, maker, settler>>

-----------------------------------------------------------------------------
Tick ==
    /\ \E q \in Quotes : left[q] > 0 \/ ttl[q] > 0
    /\ left' = [q \in Quotes |-> IF left[q] > 0 THEN left[q] - 1 ELSE 0]
    /\ ttl' = [q \in Quotes |-> IF ttl[q] > 0 THEN ttl[q] - 1 ELSE 0]
    /\ copy' = [q \in Quotes |-> IF ttl[q] > 1 THEN copy[q] ELSE "none"]
    /\ UNCHANGED <<row, late, maker, settler, get>>

Serve(g) == ReadCache(g) \/ ReadRow(g) \/ Fill(g) \/ Respond(g)

Next ==
    \/ Tick \/ LateSet
    \/ \E q \in Quotes :
          \/ Evict(q) \/ Corrupt(q)
          \/ Price(q) \/ Insert(q) \/ FillNew(q)
          \/ Hold(q) \/ Release(q) \/ Settle(q) \/ Invalidate(q) \/ Forget(q)
    \/ \E g \in Gets, client \in Clients, q \in Quotes : Ask(g, client, q)
    \/ \E g \in Gets : Serve(g) \/ DbError(g)

Spec == Init /\ [][Next]_vars

\* Time passes, a command that is under way arrives or is lost, and a request
\* that was received is worked on: a Redis or a Postgres command answers or
\* times out.
Fairness ==
    WF_vars(Tick) /\ WF_vars(LateSet) /\ \A g \in Gets : WF_vars(Serve(g))

FairSpec == Spec /\ Fairness

-----------------------------------------------------------------------------
\* Every variable keeps its shape, and a copy exists as long as its ttl runs.
TypeOK ==
    /\ row \in [Quotes -> Statuses]
    /\ left \in [Quotes -> Ticks]
    /\ copy \in [Quotes -> Copies]
    /\ ttl \in [Quotes -> Ticks]
    /\ late \in Sets \cup {NoSet}
    /\ maker \in [Quotes -> {"idle", "insert", "fill", "done"}]
    /\ settler \in [Quotes -> {"idle", "held", "settled", "done", "lost"}]
    /\ get \in [Gets -> GetStates \cup {NoGet}]
    /\ \A q \in Quotes : (copy[q] = "none") <=> (ttl[q] = 0)

\* Nobody is told that a quote was executed before the trade has committed,
\* and no copy in Redis, on its way there or in a request says so.
ExecutedIsNeverPremature ==
    /\ \A q \in Quotes : (copy[q] = "EXECUTED") => (row[q] = "EXECUTED")
    /\ (late.status = "EXECUTED") => (row[late.quote] = "EXECUTED")
    /\ \A g \in Gets :
          get[g] # NoGet /\ "EXECUTED" \in {get[g].seen, get[g].reply}
            => row[get[g].quote] = "EXECUTED"

\* The copies are late but the clock is not: whatever copy it is made from,
\* no answer given after expires_at calls the quote ACTIVE.
LapsedIsNeverShownActive ==
    [][\A g \in Gets :
         get'[g] # get[g] /\ get'[g] # NoGet /\ get'[g].reply = "ACTIVE"
           => left[get'[g].quote] > 0]_vars

\* A copy that an execution made stale goes away and does not come back,
\* whichever requests, failures, late writes and forgotten invalidations
\* caused it.
StaleCopyHeals ==
    \A q \in Quotes : row[q] = "EXECUTED" ~> [](copy[q] # "ACTIVE")

\* After executeTrade has dropped it, no ACTIVE copy of an EXECUTED quote is
\* left to be shown.
NoActiveCopyOutlivesExecution ==
    \A q \in Quotes : settler[q] = "done" => copy[q] # "ACTIVE"
=============================================================================
