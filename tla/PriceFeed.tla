------------------------------ MODULE PriceFeed -----------------------------
(***************************************************************************)
(* PricingService over BinanceClient and RedisService, in real time: how   *)
(* old may the price be that GET /v1/prices shows and that createQuote     *)
(* freezes, and how long may they take.  One symbol; its price is known    *)
(* by its age, the ticks since Binance sampled it.                         *)
(*                                                                         *)
(* A lookup reads the cache, on a miss asks Binance, and fills the cache.  *)
(* createQuote runs two, for the price and for the symbol, and fails with  *)
(* the first that fails; then it inserts the quote, caches it, and only    *)
(* then answers.  Timers are punctual: a tick waits for whatever is due.   *)
(* The INSERT has no timer of its own; Postgres is taken to answer it, or  *)
(* its connection to fail, within InsertTime.  A SET that timed out at the *)
(* caller may reach Redis up to Stall ticks later, when its connection     *)
(* recovers; other processes of the API are served meanwhile.  At most one *)
(* SET is late at a time.                                                  *)
(***************************************************************************)
EXTENDS Integers, FiniteSets

CONSTANTS
    Calls,          \* concurrent requests
    Quotes,         \* those that are POST /v1/quotes; the others GET /v1/prices
    PriceTtl,       \* PRICE_CACHE_TTL_MS
    SymbolTtl,      \* SYMBOL_BREAKDOWN_CACHE_TTL_MS
    FetchTimeout,   \* REQUEST_TIMEOUT_MS
    CommandTimeout, \* COMMAND_TIMEOUT_MS
    InsertTime,     \* how long Postgres may take over the INSERT of a quote
    Stall

ASSUME QuotesAssumption == Quotes \subseteq Calls
ASSUME TimesAssumption ==
    /\ PriceTtl \in Nat \ {0} /\ SymbolTtl \in Nat \ {0}
    /\ FetchTimeout \in Nat \ {0} /\ CommandTimeout \in Nat \ {0}
    /\ InsertTime \in Nat \ {0} /\ Stall \in Nat

VARIABLES
    cached,         \* per kind of lookup, what Redis holds
    late,           \* SETs still on their way after their timeout
    look,           \* per call and kind, the lookup
    making,         \* per call of createQuote, what it still does with its price
    answer          \* per call, its reply and the time it has taken

vars == <<cached, late, look, making, answer>>

Kinds == {"price", "symbol"}

\* Bug: the lifetimes of the two caches are mixed up.
TtlSwapped(kind) == IF kind = "price" THEN SymbolTtl ELSE PriceTtl
Ttl(kind) == IF kind = "price" THEN PriceTtl ELSE SymbolTtl

Lookups(call) == IF call \in Quotes THEN Kinds ELSE {"price"}

\* The worst cases: of a cached price, of a lookup, and of a call.
OldestCached == FetchTimeout + CommandTimeout + Stall + PriceTtl
LongestLookup == CommandTimeout + FetchTimeout + CommandTimeout
LongestCall(call) ==
    IF call \in Quotes THEN LongestLookup + InsertTime + CommandTimeout
    ELSE LongestLookup

Absent == [age |-> 0, ttl |-> 0]
Idle == [pc |-> "idle", timer |-> 0, age |-> 0]
NoLookups == [k \in Kinds |-> Idle]
Nothing == [pc |-> "none", timer |-> 0]
NoAnswer == [code |-> 0, age |-> 0, took |-> 0]

Init ==
    /\ cached = [k \in Kinds |-> Absent]
    /\ late = {}
    /\ look = [c \in Calls |-> NoLookups]
    /\ making = [c \in Calls |-> Nothing]
    /\ answer = [c \in Calls |-> NoAnswer]

-----------------------------------------------------------------------------
Running(c, k) == look[c][k].pc \in {"cache", "hit", "fetch", "reply", "fill"}
Looking(c) == look[c]["price"].pc # "idle" /\ answer[c].code = 0
Making(c) == making[c].pc # "none"
Waiting(c) == Looking(c) \/ Making(c)

\* A timer starts with each command and each request.
Enter(c, k, label, age) ==
    look' = [look EXCEPT ![c][k] = [pc |-> label, timer |-> 0, age |-> age]]

\* The answer of a command or a request that is still timed.
Continue(c, k, label, age) ==
    look' = [look EXCEPT ![c][k].pc = label, ![c][k].age = age]

\* The next request of a kind takes the place of an answered one.
Receive(c) ==
    /\ ~Waiting(c)
    /\ \A k \in Kinds : ~Running(c, k)
    /\ look' = [look EXCEPT ![c] = [k \in Kinds |->
                  IF k \in Lookups(c) THEN [Idle EXCEPT !.pc = "cache"] ELSE Idle]]
    /\ answer' = [answer EXCEPT ![c] = NoAnswer]
    /\ UNCHANGED <<cached, late, making>>

\* getJson finds a value; it is on its way back.
ReadHit(c, k) ==
    /\ look[c][k].pc = "cache" /\ cached[k].ttl > 0
    /\ Continue(c, k, "hit", cached[k].age)
    /\ UNCHANGED <<cached, late, making, answer>>

Hit(c, k) ==
    /\ look[c][k].pc = "hit"
    /\ Enter(c, k, "done", look[c][k].age)
    /\ UNCHANGED <<cached, late, making, answer>>

\* No value, or none that can be parsed, or a read that fails or times out.
Miss(c, k) ==
    /\ look[c][k].pc \in {"cache", "hit"}
    /\ Enter(c, k, "fetch", 0)
    /\ UNCHANGED <<cached, late, making, answer>>

\* Binance makes its response; its headers and its body are on their way.
Sample(c, k) ==
    /\ look[c][k].pc = "fetch"
    /\ Continue(c, k, "reply", 0)
    /\ UNCHANGED <<cached, late, making, answer>>

Fetched(c, k) ==
    /\ look[c][k].pc = "reply"
    /\ Enter(c, k, "fill", look[c][k].age)
    /\ UNCHANGED <<cached, late, making, answer>>

\* mapBinanceErrors: 400 for a rejected symbol, 502 for what is not a valid
\* response, 504 for the abort.  A failure is not cached.
Refused(c, k, code) ==
    /\ \/ code = 400 /\ look[c][k].pc = "reply"
       \/ code = 502 /\ look[c][k].pc \in {"fetch", "reply"}
       \/ code = 504 /\ look[c][k].pc \in {"fetch", "reply"}
                     /\ look[c][k].timer = FetchTimeout
    /\ Enter(c, k, "failed", 0)
    /\ answer' = IF answer[c].code = 0
                 THEN [answer EXCEPT ![c].code = code] ELSE answer
    /\ UNCHANGED <<cached, late, making>>

\* Bug: SET without PX.
StoreForGood(k, age) ==
    cached' = [cached EXCEPT ![k] = [age |-> age, ttl |-> OldestCached + Ttl(k)]]

Store(k, age) == cached' = [cached EXCEPT ![k] = [age |-> age, ttl |-> Ttl(k)]]

\* setJson: applied, failed, or given up and still on its way.
Fill(c, k) ==
    /\ look[c][k].pc = "fill"
    /\ Enter(c, k, "done", look[c][k].age)
    /\ \/ Store(k, look[c][k].age) /\ UNCHANGED late
       \/ UNCHANGED <<cached, late>>
       \/ /\ look[c][k].timer = CommandTimeout /\ late = {}
          /\ late' = {[kind |-> k, age |-> look[c][k].age, stalled |-> 0]}
          /\ UNCHANGED cached
    /\ UNCHANGED <<making, answer>>

LateFill(s) ==
    /\ s \in late
    /\ late' = late \ {s}
    /\ Store(s.kind, s.age)
    /\ UNCHANGED <<look, making, answer>>

LookupsDone(c) == Looking(c) /\ \A k \in Lookups(c) : look[c][k].pc = "done"

\* GET /v1/prices shows the price.
Show(c) ==
    /\ c \notin Quotes /\ LookupsDone(c)
    /\ answer' = [answer EXCEPT ![c].code = 200, ![c].age = look[c]["price"].age]
    /\ look' = [look EXCEPT ![c] = NoLookups]
    /\ UNCHANGED <<cached, late, making>>

\* createQuote freezes the price and sends the INSERT, or finds the amount too
\* small.
Freeze(c) ==
    /\ c \in Quotes /\ LookupsDone(c)
    /\ look' = [look EXCEPT ![c] = NoLookups]
    /\ \/ /\ answer' = [answer EXCEPT ![c].age = look[c]["price"].age]
          /\ making' = [making EXCEPT ![c] = [pc |-> "insert", timer |-> 0]]
       \/ answer' = [answer EXCEPT ![c].code = 400] /\ UNCHANGED making
    /\ UNCHANGED <<cached, late>>

\* The row is inserted; the quote is to be cached.
Insert(c) ==
    /\ making[c].pc = "insert"
    /\ making' = [making EXCEPT ![c] = [pc |-> "cache", timer |-> 0]]
    /\ UNCHANGED <<cached, late, look, answer>>

\* The INSERT fails, or the SET is applied, fails or is given up: createQuote
\* answers.
Finish(c, code) ==
    /\ \/ code = 500 /\ making[c].pc = "insert"
       \/ code = 201 /\ making[c].pc = "cache"
    /\ making' = [making EXCEPT ![c] = Nothing]
    /\ answer' = [answer EXCEPT ![c].code = code]
    /\ UNCHANGED <<cached, late, look>>

-----------------------------------------------------------------------------
\* Bug: the abort timer is cleared when the headers have arrived.
DeadlineOfHeaders(pc) ==
    CASE pc = "fetch" -> FetchTimeout
      [] pc = "reply" -> FetchTimeout + CommandTimeout
      [] pc = "insert" -> InsertTime
      [] OTHER -> CommandTimeout

Deadline(pc) ==
    CASE pc \in {"fetch", "reply"} -> FetchTimeout
      [] pc = "insert" -> InsertTime
      [] OTHER -> CommandTimeout

\* Nothing is due: no timer has run out, no promise waits to be resumed.
Quiet ==
    /\ \A c \in Calls, k \in Kinds :
          Running(c, k) => look[c][k].timer < Deadline(look[c][k].pc)
    /\ \A c \in Calls : Making(c) => making[c].timer < Deadline(making[c].pc)
    /\ \A s \in late : s.stalled < Stall
    /\ \A c \in Calls : ~LookupsDone(c)

Tick ==
    /\ Quiet
    /\ cached' = [k \in Kinds |->
         IF cached[k].ttl <= 1 THEN Absent
         ELSE [age |-> IF k = "price" THEN cached[k].age + 1 ELSE 0,
               ttl |-> cached[k].ttl - 1]]
    /\ late' = {[s EXCEPT !.age = IF s.kind = "price" THEN @ + 1 ELSE 0,
                          !.stalled = @ + 1] : s \in late}
    /\ look' = [c \in Calls |-> [k \in Kinds |->
         LET l == look[c][k] IN
         [l EXCEPT !.timer = IF Running(c, k) THEN @ + 1 ELSE 0,
                   !.age = IF k = "price" /\ (Waiting(c) \/ Running(c, k))
                              /\ l.pc \in {"hit", "reply", "fill", "done"}
                           THEN @ + 1 ELSE @]]]
    /\ making' = [c \in Calls |->
         [making[c] EXCEPT !.timer = IF Making(c) THEN @ + 1 ELSE 0]]
    /\ answer' = [c \in Calls |->
         [answer[c] EXCEPT !.took = IF Waiting(c) THEN @ + 1 ELSE @]]

Next ==
    \/ Tick
    \/ \E c \in Calls :
          \/ Receive(c) \/ Show(c) \/ Freeze(c) \/ Insert(c)
          \/ \E code \in {201, 500} : Finish(c, code)
    \/ \E c \in Calls, k \in Kinds :
          \/ ReadHit(c, k) \/ Hit(c, k) \/ Miss(c, k)
          \/ Sample(c, k) \/ Fetched(c, k) \/ Fill(c, k)
          \/ \E code \in {400, 502, 504} : Refused(c, k, code)
    \/ \E s \in late : LateFill(s)

Spec == Init /\ [][Next]_vars

-----------------------------------------------------------------------------
\* Every variable keeps its shape.
TypeOK ==
    /\ \A k \in Kinds : cached[k].age \in Nat
    /\ cached["price"].ttl \in 0 .. PriceTtl
    /\ cached["symbol"].ttl \in 0 .. SymbolTtl
    /\ Cardinality(late) <= 1
    /\ \A s \in late : s.kind \in Kinds /\ s.age \in Nat /\ s.stalled \in 0 .. Stall
    /\ \A c \in Calls, k \in Kinds :
          /\ look[c][k].pc \in {"idle", "cache", "hit", "fetch", "reply", "fill",
                                "done", "failed"}
          /\ look[c][k].timer \in Nat /\ look[c][k].age \in Nat
    /\ \A c \in Calls :
          /\ making[c].pc \in {"none", "insert", "cache"} /\ making[c].timer \in Nat
          /\ answer[c].code \in {0, 200, 201, 400, 500, 502, 504}

\* A price that is shown, or frozen into the quote that a call answers with, is
\* not older than the worst of a slow fetch, a stalled fill, a full life in the
\* cache and the slow lookups around it.
PriceAgeIsBounded ==
    \A c \in Calls :
        /\ answer[c].code = 200 => answer[c].age < OldestCached + CommandTimeout
        /\ answer[c].code = 201 => answer[c].age < OldestCached + LongestLookup

\* Whatever Redis and Binance do, a price is answered within the timeouts of one
\* read, one request and one write, the parallel lookups of createQuote do not
\* add up, and a quote takes no more than that, its INSERT and one more write.
AnswersInTime == \A c \in Calls : answer[c].took <= LongestCall(c)
=============================================================================
