-------------------------- MODULE QuoteCacheProofs --------------------------
(***************************************************************************)
(* The safety of QuoteCache, for any clients, quotes, requests and         *)
(* lifetime.                                                               *)
(***************************************************************************)
EXTENDS QuoteCache, TLAPS

\* The row, its handlers, and what they know of it.
RowsOK ==
    /\ row \in [Quotes -> Statuses]
    /\ left \in [Quotes -> Ticks]
    /\ maker \in [Quotes -> {"idle", "insert", "fill", "done"}]
    /\ settler \in [Quotes -> {"idle", "held", "settled", "done", "lost"}]
    /\ \A q \in Quotes :
          /\ maker[q] \in {"idle", "insert"} <=> row[q] = "ABSENT"
          /\ settler[q] = "held" => row[q] = "ACTIVE"

\* What may be written to Redis: a status the row has or had, for a while.
GoodSet(s) ==
    /\ s \in Sets
    /\ s.ttl > 0
    /\ s.status = "EXECUTED" => row[s.quote] = "EXECUTED"

CacheOK ==
    /\ copy \in [Quotes -> Copies]
    /\ ttl \in [Quotes -> Ticks]
    /\ \A q \in Quotes : /\ (copy[q] = "none") <=> (ttl[q] = 0)
                         /\ copy[q] = "EXECUTED" => row[q] = "EXECUTED"
    /\ late = NoSet \/ GoodSet(late)

\* What a request has seen was true, and it answers last.
RequestOK(r) ==
    /\ r \in GetStates
    /\ r.pc # "done" => r.reply = "none"
    /\ r.pc \in {"fill", "answer"} => r.seen \in {"ACTIVE", "EXECUTED"}
    /\ r.pc = "fill" => r.ttl > 0
    /\ "EXECUTED" \in {r.seen, r.reply} => row[r.quote] = "EXECUTED"

GetsOK ==
    /\ get \in [Gets -> GetStates \cup {NoGet}]
    /\ \A g \in Gets : get[g] # NoGet => RequestOK(get[g])

IInv == RowsOK /\ CacheOK /\ GetsOK

\* EXECUTED is for good.
Monotone == \A q \in Quotes : row[q] = "EXECUTED" => row'[q] = "EXECUTED"

-----------------------------------------------------------------------------
LEMMA Initially == Init => IInv
BY LifetimeAssumption
   DEF Init, IInv, RowsOK, CacheOK, GetsOK, Statuses, Ticks, Copies, NoGet

(* What a step leaves alone stays as good as it was. *)

LEMMA RowsFrame ==
    ASSUME RowsOK, UNCHANGED <<row, left, maker, settler>> PROVE RowsOK'
BY DEF RowsOK

LEMMA CacheFrame ==
    ASSUME CacheOK, Monotone, UNCHANGED <<copy, ttl, late>> PROVE CacheOK'
BY DEF CacheOK, Monotone, GoodSet, Sets

LEMMA GetsFrame ==
    ASSUME GetsOK, Monotone, UNCHANGED get PROVE GetsOK'
<1>1. ASSUME NEW g \in Gets, get[g] # NoGet PROVE RequestOK(get[g])'
  <2>1. RequestOK(get[g])
    BY <1>1 DEF GetsOK
  <2>2. get[g].quote \in Quotes
    BY <2>1 DEF RequestOK, GetStates
  <2> QED
    BY <2>1, <2>2 DEF RequestOK, Monotone
<1> QED
  BY <1>1 DEF GetsOK

LEMMA RequestStep ==
    ASSUME GetsOK, UNCHANGED row, NEW g \in Gets, NEW r, RequestOK(r),
           get' = [get EXCEPT ![g] = r]
    PROVE  GetsOK'
<1>1. r \in GetStates
  BY DEF RequestOK
<1>2. ASSUME NEW h \in Gets, get'[h] # NoGet PROVE RequestOK(get[h])'
  <2>1. RequestOK(get'[h])
    BY <1>2 DEF GetsOK
  <2> QED
    BY <2>1 DEF RequestOK
<1> QED
  BY <1>1, <1>2 DEF GetsOK

\* A request at a place other than "idle" is one.
LEMMA UnderWay ==
    ASSUME GetsOK, NEW g \in Gets, get[g].pc # "idle"
    PROVE  RequestOK(get[g]) /\ get[g] \in GetStates /\ get[g].quote \in Quotes
<1>1. get[g] # NoGet
  BY DEF NoGet
<1>2. RequestOK(get[g])
  BY <1>1 DEF GetsOK
<1> QED
  BY <1>2 DEF RequestOK, GetStates

LEMMA StoreStep ==
    ASSUME CacheOK, UNCHANGED row, NEW s, GoodSet(s),
           Store(s.quote, s.status, s.ttl), late' \in {late, NoSet}
    PROVE  CacheOK'
<1>1. s.quote \in Quotes /\ s.status \in {"ACTIVE", "EXECUTED"} /\ s.ttl \in Ticks
  BY DEF GoodSet, Sets
<1>2. GoodSet(late)' <=> (GoodSet(late'))
  BY DEF GoodSet
<1> QED
  BY <1>1, <1>2 DEF CacheOK, Store, GoodSet, Copies

LEMMA SetJsonStep ==
    ASSUME CacheOK, UNCHANGED row, NEW q, NEW status, NEW ticks,
           GoodSet([quote |-> q, status |-> status, ttl |-> ticks]),
           SetJson(q, status, ticks)
    PROVE  CacheOK'
<1> DEFINE s == [quote |-> q, status |-> status, ttl |-> ticks]
<1>1. CASE Store(q, status, ticks) /\ UNCHANGED late
  <2>1. Store(s.quote, s.status, s.ttl)
    BY <1>1
  <2> HIDE DEF s
  <2> QED
    BY <1>1, <2>1, StoreStep DEF s
<1>2. CASE UNCHANGED <<copy, ttl>> /\ late' \in {late, s}
  BY <1>2 DEF CacheOK, GoodSet
<1> QED
  BY <1>1, <1>2 DEF SetJson

-----------------------------------------------------------------------------
(* The steps that leave the requests alone.                                *)

LEMMA RedisStep ==
    ASSUME IInv, LateSet \/ \E q \in Quotes : Evict(q) \/ Corrupt(q)
    PROVE  IInv'
<1> USE DEF IInv
<1>1. UNCHANGED <<row, left, maker, settler, get>>
  BY DEF LateSet, Evict, Corrupt
<1>2. Monotone
  BY <1>1 DEF Monotone
<1>3. RowsOK' /\ GetsOK'
  BY <1>1, <1>2, RowsFrame, GetsFrame
<1>4. ASSUME LateSet PROVE CacheOK'
  <2>1. GoodSet(late) /\ late' = NoSet
    BY <1>4 DEF LateSet, CacheOK
  <2>2. CASE Store(late.quote, late.status, late.ttl)
    BY <1>1, <2>1, <2>2, StoreStep
  <2>3. CASE UNCHANGED <<copy, ttl>>
    BY <1>1, <2>1, <2>3 DEF CacheOK
  <2> QED
    BY <1>4, <2>2, <2>3 DEF LateSet
<1>5. ASSUME NEW q \in Quotes, Evict(q) PROVE CacheOK'
  BY <1>1, <1>5, LifetimeAssumption DEF Evict, CacheOK, Copies, Ticks, GoodSet
<1>6. ASSUME NEW q \in Quotes, Corrupt(q) PROVE CacheOK'
  BY <1>1, <1>6, CorruptionsAssumption DEF Corrupt, CacheOK, Copies, GoodSet
<1> QED
  BY <1>3, <1>4, <1>5, <1>6

LEMMA TickStep == IInv /\ Tick => IInv'
<1> SUFFICES ASSUME IInv, Tick PROVE IInv'
  OBVIOUS
<1> USE DEF IInv
<1>1. UNCHANGED <<row, late, maker, settler, get>> /\ Monotone
  BY DEF Tick, Monotone
<1>2. \A n \in Ticks : n > 0 => n - 1 \in Ticks
  BY LifetimeAssumption DEF Ticks
<1>3. 0 \in Ticks
  BY LifetimeAssumption DEF Ticks
<1>4. RowsOK'
  BY <1>1, <1>2, <1>3 DEF RowsOK, Tick
<1>5. CacheOK'
  <2>1. copy' \in [Quotes -> Copies] /\ ttl' \in [Quotes -> Ticks]
    BY <1>2, <1>3 DEF CacheOK, Tick, Copies
  <2>2. ASSUME NEW q \in Quotes
        PROVE  /\ (copy'[q] = "none") <=> (ttl'[q] = 0)
               /\ copy'[q] = "EXECUTED" => row'[q] = "EXECUTED"
    <3>1. ttl[q] \in Nat
      BY LifetimeAssumption DEF CacheOK, Ticks
    <3>2. /\ ttl'[q] = IF ttl[q] > 0 THEN ttl[q] - 1 ELSE 0
          /\ copy'[q] = IF ttl[q] > 1 THEN copy[q] ELSE "none"
      BY DEF Tick
    <3> QED
      BY <1>1, <3>1, <3>2 DEF CacheOK
  <2>3. late' = NoSet \/ GoodSet(late)'
    BY <1>1 DEF CacheOK, GoodSet
  <2> QED
    BY <2>1, <2>2, <2>3 DEF CacheOK
<1> QED
  BY <1>1, <1>4, <1>5, GetsFrame

LEMMA MakerStep ==
    ASSUME IInv, NEW q \in Quotes, Price(q) \/ Insert(q) \/ FillNew(q)
    PROVE  IInv'
<1> USE DEF IInv
<1>1. Lifetime \in Ticks /\ Lifetime > 0
  BY LifetimeAssumption DEF Ticks
<1>2. CASE Price(q)
  <2>1. Monotone
    BY <1>2 DEF Price, Monotone
  <2>2. RowsOK'
    BY <1>1, <1>2 DEF Price, RowsOK
  <2> QED
    BY <1>2, <2>1, <2>2, CacheFrame, GetsFrame DEF Price
<1>3. CASE Insert(q)
  <2>1. Monotone
    BY <1>3 DEF Insert, RowsOK, Monotone
  <2>2. RowsOK'
    BY <1>3 DEF Insert, RowsOK, Statuses
  <2> QED
    BY <1>3, <2>1, <2>2, CacheFrame, GetsFrame DEF Insert
<1>4. CASE FillNew(q)
  <2>1. Monotone
    BY <1>4 DEF FillNew, Monotone
  <2>2. RowsOK'
    BY <1>4 DEF FillNew, RowsOK
  <2>3. GoodSet([quote |-> q, status |-> "ACTIVE", ttl |-> Lifetime])
    BY <1>1 DEF GoodSet, Sets
  <2>4. CacheOK'
    BY <1>4, <2>3, SetJsonStep DEF FillNew
  <2> QED
    BY <1>4, <2>1, <2>2, <2>4, GetsFrame DEF FillNew
<1> QED
  BY <1>2, <1>3, <1>4

LEMMA SettlerStep ==
    ASSUME IInv, NEW q \in Quotes,
           Hold(q) \/ Release(q) \/ Settle(q) \/ Invalidate(q) \/ Forget(q)
    PROVE  IInv'
<1> USE DEF IInv
<1>1. Monotone
  BY DEF Hold, Release, Settle, Invalidate, Forget, Monotone, RowsOK
<1>2. RowsOK'
  BY DEF Hold, Release, Settle, Invalidate, Forget, RowsOK, Statuses
<1>3. GetsOK'
  BY <1>1, GetsFrame DEF Hold, Release, Settle, Invalidate, Forget
<1>4. CASE UNCHANGED <<copy, ttl, late>>
  BY <1>1, <1>2, <1>3, <1>4, CacheFrame
<1>5. CASE Invalidate(q)
  <2>1. 0 \in Ticks
    BY LifetimeAssumption DEF Ticks
  <2> QED
    BY <1>2, <1>3, <1>5, <2>1
    DEF Invalidate, Del, CacheOK, Copies, GoodSet
<1> QED
  BY <1>2, <1>3, <1>4, <1>5 DEF Hold, Release, Settle, Forget

-----------------------------------------------------------------------------
(* getQuoteById.                                                           *)

LEMMA AskStep ==
    ASSUME IInv, NEW g \in Gets, NEW client \in Clients, NEW q \in Quotes,
           Ask(g, client, q)
    PROVE  IInv'
<1> DEFINE r == [pc |-> "cache", client |-> client, quote |-> q,
                 seen |-> "ABSENT", ttl |-> 0, reply |-> "none"]
<1>1. UNCHANGED <<row, left, copy, ttl, late, maker, settler>> /\ Monotone
  BY DEF Ask, Monotone
<1>2. RequestOK(r)
  BY LifetimeAssumption DEF RequestOK, GetStates, Statuses, Ticks, Shown
<1>3. get' = [get EXCEPT ![g] = r]
  BY DEF Ask
<1> HIDE DEF r
<1> QED
  BY <1>1, <1>2, <1>3, RowsFrame, CacheFrame, RequestStep DEF IInv

\* The steps that only read: what they make of the request is sound.
LEMMA ReadStep ==
    ASSUME IInv, NEW g \in Gets, NEW r, RequestOK(r),
           get' = [get EXCEPT ![g] = r],
           UNCHANGED <<row, left, copy, ttl, late, maker, settler>>
    PROVE  IInv'
<1>1. Monotone
  BY DEF Monotone
<1> QED
  BY <1>1, RowsFrame, CacheFrame, RequestStep DEF IInv

LEMMA GotoStep ==
    ASSUME IInv, NEW g \in Gets, get[g].pc # "idle", get[g].reply = "none",
           Goto(g, "db"),
           UNCHANGED <<row, left, copy, ttl, late, maker, settler>>
    PROVE  IInv'
<1> DEFINE r == [get[g] EXCEPT !.pc = "db"]
<1>1. RequestOK(get[g]) /\ get[g] \in GetStates
  BY UnderWay DEF IInv
<1>2. RequestOK(r)
  BY <1>1 DEF RequestOK, GetStates
<1>3. get' = [get EXCEPT ![g] = r]
  BY DEF Goto, IInv, GetsOK
<1> HIDE DEF r
<1> QED
  BY <1>2, <1>3, ReadStep

LEMMA ReplyStep ==
    ASSUME IInv, NEW g \in Gets, get[g].pc # "idle",
           NEW what \in Shown \cup {"404", "500"}, Reply(g, what),
           what = "EXECUTED" => row[get[g].quote] = "EXECUTED",
           UNCHANGED <<row, left, copy, ttl, late, maker, settler>>
    PROVE  IInv'
<1> DEFINE r == [get[g] EXCEPT !.pc = "done", !.reply = what,
                               !.seen = "ABSENT", !.ttl = 0]
<1>1. RequestOK(get[g]) /\ get[g] \in GetStates
  BY UnderWay DEF IInv
<1>2. 0 \in Ticks
  BY LifetimeAssumption DEF Ticks
<1>3. r \in GetStates
  BY <1>1, <1>2 DEF GetStates, Statuses
<1>4. /\ r.pc = "done" /\ r.reply = what /\ r.seen = "ABSENT"
      /\ r.quote = get[g].quote /\ r.client = get[g].client
  BY <1>1 DEF GetStates
<1>5. RequestOK(r)
  BY <1>3, <1>4 DEF RequestOK
<1>6. get' = [get EXCEPT ![g] = r]
  BY <1>1 DEF Reply, IInv, GetsOK, GetStates
<1> HIDE DEF r
<1> QED
  BY <1>5, <1>6, ReadStep

LEMMA ReadCacheStep ==
    ASSUME IInv, NEW g \in Gets, ReadCache(g) PROVE IInv'
<1>1. /\ RequestOK(get[g]) /\ get[g] \in GetStates /\ get[g].quote \in Quotes
      /\ get[g].pc = "cache" /\ get[g].reply = "none"
  BY UnderWay DEF IInv, ReadCache, RequestOK
<1>2. UNCHANGED <<row, left, copy, ttl, late, maker, settler>>
  BY DEF ReadCache
<1>3. PICK hit \in GetJson(get[g].quote) :
         CASE hit = "none" -> Goto(g, "db")
           [] hit = "misshapen" -> Reply(g, "500")
           [] OTHER -> get' = [get EXCEPT ![g].pc = "answer", ![g].seen = hit]
  BY DEF ReadCache
<1>4. CASE hit = "none"
  BY <1>1, <1>2, <1>3, <1>4, GotoStep
<1>5. CASE hit = "misshapen"
  BY <1>1, <1>2, <1>3, <1>5, ReplyStep
<1>6. CASE hit \notin {"none", "misshapen"}
  <2> DEFINE r == [get[g] EXCEPT !.pc = "answer", !.seen = hit]
  <2>1. hit \in {"ACTIVE", "EXECUTED"} /\ copy[get[g].quote] = hit
    BY <1>1, <1>3, <1>6 DEF GetJson, IInv, CacheOK, Copies
  <2>2. hit = "EXECUTED" => row[get[g].quote] = "EXECUTED"
    BY <1>1, <2>1 DEF IInv, CacheOK
  <2>3. r \in GetStates
    BY <1>1, <2>1 DEF GetStates, Statuses
  <2>4. RequestOK(r)
    BY <1>1, <2>1, <2>2, <2>3 DEF RequestOK, GetStates
  <2>5. get' = [get EXCEPT ![g] = r]
    BY <1>1, <1>3, <1>6 DEF IInv, GetsOK, GetStates
  <2> HIDE DEF r
  <2> QED
    BY <1>2, <2>4, <2>5, ReadStep
<1> QED
  BY <1>4, <1>5, <1>6

LEMMA ReadRowStep ==
    ASSUME IInv, NEW g \in Gets, ReadRow(g) PROVE IInv'
<1> DEFINE q == get[g].quote
<1>1. /\ RequestOK(get[g]) /\ get[g] \in GetStates /\ q \in Quotes
      /\ get[g].pc = "db" /\ get[g].reply = "none"
  BY UnderWay DEF IInv, ReadRow, RequestOK
<1>2. UNCHANGED <<row, left, copy, ttl, late, maker, settler>>
  BY DEF ReadRow
<1>3. CASE row[q] = "ABSENT"
  BY <1>1, <1>2, <1>3, ReplyStep DEF ReadRow
<1>4. CASE row[q] # "ABSENT"
  <2> DEFINE r == [get[g] EXCEPT !.pc = IF left[q] > 0 THEN "fill" ELSE "answer",
                                 !.seen = row[q], !.ttl = left[q]]
  <2>1. row[q] \in {"ACTIVE", "EXECUTED"} /\ left[q] \in Ticks
    BY <1>1, <1>4 DEF IInv, RowsOK, Statuses
  <2>2. r \in GetStates
    BY <1>1, <2>1 DEF GetStates, Statuses
  <2>3. RequestOK(r)
    BY <1>1, <2>1, <2>2 DEF RequestOK, GetStates
  <2>4. get' = [get EXCEPT ![g] = r]
    BY <1>1, <1>4 DEF ReadRow, IInv, GetsOK, GetStates
  <2> HIDE DEF r
  <2> QED
    BY <1>2, <2>3, <2>4, ReadStep
<1> QED
  BY <1>3, <1>4

LEMMA FillStep ==
    ASSUME IInv, NEW g \in Gets, Fill(g) PROVE IInv'
<1> DEFINE r == [get[g] EXCEPT !.pc = "answer"]
<1>1. /\ RequestOK(get[g]) /\ get[g] \in GetStates /\ get[g].quote \in Quotes
      /\ get[g].pc = "fill" /\ UNCHANGED <<row, left, maker, settler>>
  BY UnderWay DEF IInv, Fill
<1>2. GoodSet([quote |-> get[g].quote, status |-> get[g].seen, ttl |-> get[g].ttl])
  BY <1>1 DEF GoodSet, Sets, RequestOK, GetStates
<1>3. CacheOK'
  BY <1>1, <1>2, SetJsonStep DEF Fill, IInv
<1>4. RequestOK(r)
  BY <1>1 DEF RequestOK, GetStates
<1>5. get' = [get EXCEPT ![g] = r]
  BY <1>1 DEF Fill, Goto, IInv, GetsOK
<1> HIDE DEF r
<1>6. GetsOK'
  BY <1>1, <1>4, <1>5, RequestStep DEF IInv
<1> QED
  BY <1>1, <1>3, <1>6, RowsFrame DEF IInv

LEMMA RespondStep ==
    ASSUME IInv, NEW g \in Gets, Respond(g) \/ DbError(g) PROVE IInv'
<1>1. /\ RequestOK(get[g]) /\ get[g].pc # "idle"
      /\ UNCHANGED <<row, left, copy, ttl, late, maker, settler>>
  BY UnderWay DEF IInv, Respond, DbError
<1>2. CASE DbError(g)
  BY <1>1, <1>2, ReplyStep DEF DbError
<1>3. CASE Respond(g)
  <2> DEFINE what == Displayed(get[g].quote, get[g].seen)
  <2>1. get[g].pc = "answer" /\ Answer(g)
    BY <1>3 DEF Respond
  <2>2. what \in Shown /\ (what = "EXECUTED" => get[g].seen = "EXECUTED")
    BY <1>1, <2>1 DEF RequestOK, Displayed, Shown
  <2>3. CASE get[g].client = Owner[get[g].quote]
    <3>1. Reply(g, what)
      BY <2>1, <2>3 DEF Answer
    <3>2. what = "EXECUTED" => row[get[g].quote] = "EXECUTED"
      BY <1>1, <2>2 DEF RequestOK
    <3> HIDE DEF what
    <3> QED
      BY <1>1, <2>2, <2>3, <3>1, <3>2, ReplyStep
  <2>4. CASE get[g].client # Owner[get[g].quote]
    BY <1>1, <2>1, <2>4, ReplyStep DEF Answer
  <2> QED
    BY <2>3, <2>4
<1> QED
  BY <1>2, <1>3

-----------------------------------------------------------------------------
LEMMA IInvStep == IInv /\ [Next]_vars => IInv'
<1> SUFFICES ASSUME IInv, [Next]_vars PROVE IInv'
  OBVIOUS
<1>1. CASE UNCHANGED vars
  <2>1. Monotone
    BY <1>1 DEF vars, Monotone
  <2> QED
    BY <1>1, <2>1, RowsFrame, CacheFrame, GetsFrame DEF vars, IInv
<1>2. ASSUME NEW q \in Quotes, Price(q) \/ Insert(q) \/ FillNew(q) PROVE IInv'
  BY <1>2, MakerStep
<1>3. ASSUME NEW q \in Quotes,
             Hold(q) \/ Release(q) \/ Settle(q) \/ Invalidate(q) \/ Forget(q)
      PROVE  IInv'
  BY <1>3, SettlerStep
<1>4. ASSUME NEW g \in Gets, Serve(g) \/ DbError(g) PROVE IInv'
  BY <1>4, ReadCacheStep, ReadRowStep, FillStep, RespondStep DEF Serve
<1> QED
  BY <1>1, <1>2, <1>3, <1>4, TickStep, RedisStep, AskStep DEF Next

\* The inductive invariant of the quote cache holds in every reachable state.
THEOREM Invariance == Spec => []IInv
<1> QED
  BY Initially, IInvStep, PTL DEF Spec

\* Every variable of QuoteCache keeps its shape.
THEOREM Typing == Spec => []TypeOK
<1>1. IInv => TypeOK
  BY DEF IInv, TypeOK, RowsOK, CacheOK, GoodSet, GetsOK
<1> QED
  BY <1>1, Invariance, PTL

\* Neither getQuoteById nor any copy says EXECUTED before the trade commits.
THEOREM NotPremature == Spec => []ExecutedIsNeverPremature
<1>1. ASSUME IInv PROVE ExecutedIsNeverPremature
  <2>1. \A q \in Quotes : copy[q] = "EXECUTED" => row[q] = "EXECUTED"
    BY <1>1 DEF IInv, CacheOK
  <2>2. late.status = "EXECUTED" => row[late.quote] = "EXECUTED"
    BY <1>1 DEF IInv, CacheOK, GoodSet, NoSet
  <2>3. \A g \in Gets :
           get[g] # NoGet /\ "EXECUTED" \in {get[g].seen, get[g].reply}
             => row[get[g].quote] = "EXECUTED"
    BY <1>1 DEF IInv, GetsOK, RequestOK
  <2> QED
    BY <2>1, <2>2, <2>3 DEF ExecutedIsNeverPremature
<1> QED
  BY <1>1, Invariance, PTL

-----------------------------------------------------------------------------
(* The clock.                                                              *)

InTime == \A g \in Gets :
    get'[g] # get[g] /\ get'[g] # NoGet /\ get'[g].reply = "ACTIVE"
      => left[get'[g].quote] > 0

LEMMA NewRecord ==
    ASSUME IInv, NEW g \in Gets, NEW r, get' = [get EXCEPT ![g] = r],
           r.reply = "ACTIVE" => left[r.quote] > 0
    PROVE  InTime
BY DEF IInv, GetsOK, InTime

LEMMA ReplyInTime ==
    ASSUME IInv, NEW g \in Gets, get[g].pc # "idle", NEW what, Reply(g, what),
           what = "ACTIVE" => left[get[g].quote] > 0
    PROVE  InTime
<1> DEFINE r == [get[g] EXCEPT !.pc = "done", !.reply = what,
                               !.seen = "ABSENT", !.ttl = 0]
<1>1. get[g] \in GetStates
  BY UnderWay DEF IInv
<1>2. r.reply = what /\ r.quote = get[g].quote
  BY <1>1 DEF GetStates
<1>3. get' = [get EXCEPT ![g] = r]
  BY <1>1 DEF Reply, IInv, GetsOK, GetStates
<1> HIDE DEF r
<1> QED
  BY <1>2, <1>3, NewRecord

LEMMA RespondInTime ==
    ASSUME IInv, NEW g \in Gets, Respond(g) PROVE InTime
<1> DEFINE what == Displayed(get[g].quote, get[g].seen)
<1>1. get[g].pc = "answer" /\ Answer(g) /\ get[g].quote \in Quotes
  BY UnderWay DEF IInv, Respond
<1>2. what = "ACTIVE" => left[get[g].quote] > 0
  BY <1>1, LifetimeAssumption DEF Displayed, IInv, RowsOK, Ticks
<1>3. Reply(g, what) \/ Reply(g, "404")
  BY <1>1 DEF Answer
<1> HIDE DEF what
<1> QED
  BY <1>1, <1>2, <1>3, ReplyInTime

\* Every other step of a request leaves it without an answer, or fails.
LEMMA ServeInTime ==
    ASSUME IInv, NEW g \in Gets, ReadCache(g) \/ ReadRow(g) \/ Fill(g) \/ DbError(g)
    PROVE  InTime
<1>1. /\ get[g] \in GetStates /\ get[g].pc # "idle" /\ get[g].reply = "none"
  BY UnderWay DEF IInv, RequestOK, ReadCache, ReadRow, Fill, DbError
<1>2. ASSUME NEW label, Goto(g, label) PROVE InTime
  <2>1. get' = [get EXCEPT ![g] = [get[g] EXCEPT !.pc = label]]
    BY <1>2 DEF Goto, IInv, GetsOK
  <2>2. [get[g] EXCEPT !.pc = label].reply = "none"
    BY <1>1 DEF GetStates
  <2> QED
    BY <2>1, <2>2, NewRecord
<1>3. ASSUME NEW what \in {"404", "500"}, Reply(g, what) PROVE InTime
  BY <1>1, <1>3, ReplyInTime
<1>4. ASSUME ReadRow(g), row[get[g].quote] # "ABSENT" PROVE InTime
  <2> DEFINE r == [get[g] EXCEPT !.pc = IF left[get[g].quote] > 0 THEN "fill"
                                                                  ELSE "answer",
                                 !.seen = row[get[g].quote],
                                 !.ttl = left[get[g].quote]]
  <2>1. get' = [get EXCEPT ![g] = r]
    BY <1>1, <1>4 DEF ReadRow, IInv, GetsOK, GetStates
  <2>2. r.reply = "none"
    BY <1>1 DEF GetStates
  <2> HIDE DEF r
  <2> QED
    BY <2>1, <2>2, NewRecord
<1>5. ASSUME NEW hit, get' = [get EXCEPT ![g].pc = "answer", ![g].seen = hit]
      PROVE  InTime
  <2> DEFINE r == [get[g] EXCEPT !.pc = "answer", !.seen = hit]
  <2>1. get' = [get EXCEPT ![g] = r]
    BY <1>1, <1>5 DEF IInv, GetsOK, GetStates
  <2>2. r.reply = "none"
    BY <1>1 DEF GetStates
  <2> HIDE DEF r
  <2> QED
    BY <2>1, <2>2, NewRecord
<1>6. CASE ReadCache(g)
  BY <1>2, <1>3, <1>5, <1>6 DEF ReadCache
<1>7. CASE ReadRow(g)
  BY <1>3, <1>4, <1>7 DEF ReadRow
<1> QED
  BY <1>2, <1>3, <1>6, <1>7 DEF Fill, DbError

\* Whatever copy an answer of getQuoteById is made from, it is not ACTIVE once
\* expires_at has passed.
THEOREM Punctuality == Spec => LapsedIsNeverShownActive
<1>1. IInv /\ [Next]_vars => [InTime]_vars
  <2> SUFFICES ASSUME IInv, Next PROVE InTime
    BY DEF vars
  <2>1. CASE UNCHANGED get
    BY <2>1 DEF InTime
  <2>2. ASSUME NEW g \in Gets, NEW client \in Clients, NEW q \in Quotes,
               Ask(g, client, q)
        PROVE  InTime
    <3> DEFINE r == [pc |-> "cache", client |-> client, quote |-> q,
                     seen |-> "ABSENT", ttl |-> 0, reply |-> "none"]
    <3>1. get' = [get EXCEPT ![g] = r] /\ r.reply = "none"
      BY <2>2 DEF Ask
    <3> HIDE DEF r
    <3> QED
      BY <3>1, NewRecord
  <2>3. ASSUME NEW g \in Gets, Serve(g) \/ DbError(g) PROVE InTime
    BY <2>3, RespondInTime, ServeInTime DEF Serve
  <2> QED
    BY <2>1, <2>2, <2>3 DEF Next, Tick, LateSet, Evict, Corrupt, Price, Insert,
       FillNew, Hold, Release, Settle, Invalidate, Forget
<1> QED
  BY <1>1, Invariance, PTL DEF Spec, LapsedIsNeverShownActive, InTime
=============================================================================
