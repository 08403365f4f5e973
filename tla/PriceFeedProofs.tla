--------------------------- MODULE PriceFeedProofs --------------------------
(***************************************************************************)
(* How old a price may be and how long a call may take, whatever the       *)
(* timeouts, the lifetimes in the cache and the calls are.                 *)
(***************************************************************************)
EXTENDS PriceFeed, FiniteSetTheorems, TLAPS

-----------------------------------------------------------------------------
(* The inductive invariant: a budget of ticks for each stage.              *)

Timed == {"cache", "hit", "fetch", "reply", "fill"}
Stages == {"idle", "done", "failed"} \cup Timed
Steps == {"none", "insert", "cache"}
Codes == {0, 200, 201, 400, 500, 502, 504}

Shape ==
    /\ cached \in [Kinds -> [age: Nat, ttl: Nat]]
    /\ late \subseteq [kind: Kinds, age: Nat, stalled: Nat]
    /\ look \in [Calls -> [Kinds -> [pc: Stages, timer: Nat, age: Nat]]]
    /\ making \in [Calls -> [pc: Steps, timer: Nat]]
    /\ answer \in [Calls -> [code: Codes, age: Nat, took: Nat]]

\* The older a price is, the less it has left to live.
EntryOK(k, e) ==
    /\ e.ttl <= Ttl(k)
    /\ k = "price" /\ e.ttl # 0 => e.age + e.ttl <= OldestCached

\* A SET that is late left with the price a slow fetch had brought.
LateOK(s) ==
    /\ s.stalled <= Stall
    /\ s.kind = "price" => s.age <= FetchTimeout + CommandTimeout + s.stalled

\* The price has aged no longer than it is on its way.
LookupOK(k, l) ==
    /\ l.pc \in Timed => l.timer <= Deadline(l.pc)
    /\ k = "price" /\ l.pc = "hit" => l.age < OldestCached + l.timer
    /\ k = "price" /\ l.pc = "reply" => l.age <= l.timer
    /\ k = "price" /\ l.pc = "fill" => l.age <= FetchTimeout + l.timer

\* What a call that waits for a lookup has spent; a price that is there first
\* ages with the call.
SpentOK(c, k, l, took) ==
    /\ l.pc \in Timed \cup {"done"} /\ took <= LongestLookup
    /\ l.pc \in {"cache", "hit"} => took = l.timer
    /\ l.pc \in {"fetch", "reply"} => took <= CommandTimeout + l.timer
    /\ l.pc = "fill" => took <= CommandTimeout + FetchTimeout + l.timer
    /\ k = "price" /\ l.pc = "done" /\ c \in Quotes => l.age < OldestCached + took
    /\ k = "price" /\ l.pc = "done" /\ c \notin Quotes => l.age < OldestCached + CommandTimeout

\* A call whose price is frozen has answered nobody yet, and what it has spent
\* is the time of its lookups and of the steps since.
MadeOK(c, m, a) ==
    m.pc # "none" =>
        /\ c \in Quotes /\ a.code = 0 /\ m.timer <= Deadline(m.pc)
        /\ a.age < OldestCached + LongestLookup
        /\ m.pc = "insert" => a.took <= LongestLookup + m.timer
        /\ m.pc = "cache" => a.took <= LongestLookup + InsertTime + m.timer

AnswerOK(c, a) ==
    /\ a.took <= LongestCall(c)
    /\ a.code = 200 => a.age < OldestCached + CommandTimeout
    /\ a.code = 201 => a.age < OldestCached + LongestLookup

CacheOK == \A k \in Kinds : EntryOK(k, cached[k])
LatesOK == (\A s \in late : LateOK(s)) /\ (\A s, t \in late : s = t)
LookupsOK == \A c \in Calls, k \in Kinds : LookupOK(k, look[c][k])
CallsOK == \A c \in Calls : Looking(c) =>
              \A k \in Lookups(c) : SpentOK(c, k, look[c][k], answer[c].took)
MakingsOK == \A c \in Calls :
    /\ MadeOK(c, making[c], answer[c])
    /\ Making(c) => \A k \in Kinds : look[c][k].pc = "idle"
AnswersOK == \A c \in Calls : AnswerOK(c, answer[c])

IInv == Shape /\ CacheOK /\ LatesOK /\ LookupsOK /\ CallsOK /\ MakingsOK /\ AnswersOK

-----------------------------------------------------------------------------
LEMMA Times ==
    /\ PriceTtl \in Nat \ {0} /\ SymbolTtl \in Nat \ {0}
    /\ FetchTimeout \in Nat \ {0} /\ CommandTimeout \in Nat \ {0} /\ Stall \in Nat
    /\ InsertTime \in Nat \ {0} /\ OldestCached \in Nat
    /\ LongestLookup = CommandTimeout + FetchTimeout + CommandTimeout
    /\ \A c : /\ LongestCall(c) \in Nat /\ LongestLookup <= LongestCall(c)
              /\ c \in Quotes =>
                    LongestCall(c) = LongestLookup + InsertTime + CommandTimeout
    /\ FetchTimeout + CommandTimeout < OldestCached
    /\ \A k \in Kinds : Ttl(k) \in Nat \ {0}
BY TimesAssumption DEF OldestCached, LongestLookup, LongestCall, Ttl

LEMMA Initially == Init => IInv
<1> SUFFICES ASSUME Init PROVE IInv
  OBVIOUS
<1> USE DEF Init, Absent, NoLookups, Idle, Nothing, NoAnswer
<1>1. Shape
  BY DEF Shape, Stages, Steps, Codes
<1>2. CacheOK
  BY Times DEF CacheOK, EntryOK
<1>3. LatesOK
  BY DEF LatesOK
<1>4. \A c \in Calls, k \in Kinds : look[c][k].pc = "idle"
  OBVIOUS
<1>5. LookupsOK
  BY <1>4 DEF LookupsOK, LookupOK, Timed
<1>6. CallsOK
  BY <1>4 DEF CallsOK, Looking, Kinds
<1>8. MakingsOK
  BY DEF MakingsOK, MadeOK, Making
<1>7. AnswersOK
  BY Times DEF AnswersOK, AnswerOK
<1> QED
  BY <1>1, <1>2, <1>3, <1>5, <1>6, <1>7, <1>8 DEF IInv

LEMMA Shapes ==
    ASSUME Shape
    PROVE  /\ \A k \in Kinds : cached[k].age \in Nat /\ cached[k].ttl \in Nat
           /\ \A s \in late : s.kind \in Kinds /\ s.age \in Nat /\ s.stalled \in Nat
           /\ \A c \in Calls, k \in Kinds :
                 /\ look[c][k] \in [pc: Stages, timer: Nat, age: Nat]
                 /\ look[c][k].pc \in Stages
                 /\ look[c][k].timer \in Nat /\ look[c][k].age \in Nat
           /\ \A c \in Calls : /\ making[c].pc \in Steps /\ making[c].timer \in Nat
                               /\ answer[c].code \in Codes
                               /\ answer[c].age \in Nat /\ answer[c].took \in Nat
BY DEF Shape

\* A step of one lookup.
Moves(c, k, l) ==
    /\ look' \in [Calls -> [Kinds -> [pc: Stages, timer: Nat, age: Nat]]]
    /\ look'[c][k] = l
    /\ \A d \in Calls, j \in Kinds : d # c \/ j # k => look'[d][j] = look[d][j]

LEMMA Entered ==
    ASSUME Shape, NEW c \in Calls, NEW k \in Kinds, NEW label \in Stages, NEW age \in Nat,
           Enter(c, k, label, age)
    PROVE  Moves(c, k, [pc |-> label, timer |-> 0, age |-> age])
BY DEF Shape, Enter, Moves

LEMMA Continued ==
    ASSUME Shape, NEW c \in Calls, NEW k \in Kinds, NEW label \in Stages, NEW age \in Nat,
           Continue(c, k, label, age)
    PROVE  Moves(c, k, [pc |-> label, timer |-> look[c][k].timer, age |-> age])
<1> DEFINE Looks == [Calls -> [Kinds -> [pc: Stages, timer: Nat, age: Nat]]]
           half == [look EXCEPT ![c][k].pc = label]
           l == [pc |-> label, timer |-> look[c][k].timer, age |-> age]
<1>1. look \in Looks
  BY DEF Shape
<1>2. /\ half \in Looks
      /\ half[c][k].pc = label /\ half[c][k].timer = look[c][k].timer
      /\ \A d \in Calls, j \in Kinds : d # c \/ j # k => half[d][j] = look[d][j]
  BY <1>1
<1>3. look' = [half EXCEPT ![c][k].age = age]
  BY DEF Continue
<1> HIDE DEF half
<1>4. /\ look' \in Looks
      /\ look'[c][k].pc = half[c][k].pc /\ look'[c][k].timer = half[c][k].timer
      /\ look'[c][k].age = age
      /\ \A d \in Calls, j \in Kinds : d # c \/ j # k => look'[d][j] = half[d][j]
  BY <1>2, <1>3
<1>5. look'[c][k] = l
  <2>1. look'[c][k] \in [pc: Stages, timer: Nat, age: Nat]
    BY <1>4
  <2>2. /\ look'[c][k].pc = label /\ look'[c][k].timer = look[c][k].timer
        /\ look'[c][k].age = age
    BY <1>2, <1>4
  <2> QED
    BY <2>1, <2>2
<1> QED
  BY <1>2, <1>4, <1>5 DEF Moves

LEMMA MoveStep ==
    ASSUME IInv, NEW c \in Calls, NEW k \in Kinds, NEW l, Moves(c, k, l), UNCHANGED <<making, answer>>,
           look[c][k].pc # "idle", l.pc # "idle",
           LookupOK(k, l),
           Looking(c) /\ k \in Lookups(c) => SpentOK(c, k, l, answer[c].took)
    PROVE  LookupsOK' /\ CallsOK' /\ MakingsOK' /\ AnswersOK'
<1>1. \A d \in Calls, j \in Kinds : look'[d][j] = IF d = c /\ j = k THEN l ELSE look[d][j]
  BY DEF Moves
<1>2. LookupsOK'
  BY <1>1 DEF IInv, LookupsOK
<1>3. \A d \in Calls : Looking(d)' <=> Looking(d)
  BY <1>1 DEF Looking, Kinds
<1>4. CallsOK'
  <2> SUFFICES ASSUME NEW d \in Calls, Looking(d)', NEW j \in Lookups(d)
               PROVE  SpentOK(d, j, look'[d][j], answer[d].took)
    BY DEF CallsOK
  <2>1. j \in Kinds
    BY DEF Lookups, Kinds
  <2>2. Looking(d)
    BY <1>3
  <2> QED
    BY <1>1, <2>1, <2>2 DEF IInv, CallsOK
<1>5. AnswersOK'
  BY DEF IInv, AnswersOK
<1>6. MakingsOK'
  BY <1>1 DEF IInv, MakingsOK, Making
<1> QED
  BY <1>2, <1>4, <1>5, <1>6

\* Each stage of a lookup leaves enough for those after it.
LEMMA LookupStep ==
    ASSUME IInv, NEW c \in Calls, NEW k \in Kinds,
           \/ ReadHit(c, k) \/ Hit(c, k) \/ Miss(c, k)
           \/ Sample(c, k) \/ Fetched(c, k) \/ Fill(c, k)
    PROVE  /\ LookupsOK' /\ CallsOK' /\ MakingsOK' /\ AnswersOK'
           /\ UNCHANGED <<making, answer>>
           /\ look' \in [Calls -> [Kinds -> [pc: Stages, timer: Nat, age: Nat]]]
<1> DEFINE old == look[c][k]
           took == answer[c].took
           Waits == Looking(c) /\ k \in Lookups(c)
           Fine(l) == /\ Moves(c, k, l) /\ old.pc # "idle" /\ l.pc # "idle"
                      /\ LookupOK(k, l)
                      /\ Waits => SpentOK(c, k, l, took)
<1>1. /\ old.pc \in Stages /\ old.timer \in Nat /\ old.age \in Nat
      /\ cached[k].age \in Nat /\ cached[k].ttl \in Nat /\ took \in Nat
  BY Shapes DEF IInv
<1>2. LookupOK(k, old) /\ (Waits => SpentOK(c, k, old, took)) /\ EntryOK(k, cached[k])
  BY DEF IInv, LookupsOK, CallsOK, CacheOK
<1>3. Shape
  BY DEF IInv
<1>4. UNCHANGED <<making, answer>>
  BY DEF ReadHit, Hit, Miss, Sample, Fetched, Fill
<1>5. ASSUME NEW l, Fine(l)
      PROVE  /\ LookupsOK' /\ CallsOK' /\ MakingsOK' /\ AnswersOK'
             /\ look' \in [Calls -> [Kinds -> [pc: Stages, timer: Nat, age: Nat]]]
  BY <1>4, <1>5, MoveStep DEF Moves
<1>6. CASE ReadHit(c, k)
  <2> DEFINE l == [pc |-> "hit", timer |-> old.timer, age |-> cached[k].age]
  <2>1. old.pc = "cache" /\ cached[k].ttl > 0 /\ Moves(c, k, l)
    BY <1>1, <1>3, <1>6, Continued DEF ReadHit, Stages, Timed
  <2>2. LookupOK(k, l)
    BY <1>1, <1>2, <2>1, Times DEF LookupOK, EntryOK, Timed, Deadline
  <2>3. Waits => SpentOK(c, k, l, took)
    BY <1>2, <2>1 DEF SpentOK, Timed
  <2>4. Fine(l)
    BY <2>1, <2>2, <2>3
  <2> QED
    BY <1>4, <1>5, <2>4
<1>7. CASE Hit(c, k)
  <2> DEFINE l == [pc |-> "done", timer |-> 0, age |-> old.age]
  <2>1. old.pc = "hit" /\ Moves(c, k, l)
    BY <1>1, <1>3, <1>7, Entered DEF Hit, Stages
  <2>2. LookupOK(k, l)
    BY DEF LookupOK, Timed
  <2>3. Waits => SpentOK(c, k, l, took)
    BY <1>1, <1>2, <2>1, Times DEF SpentOK, LookupOK, Timed, Deadline
  <2>4. Fine(l)
    BY <2>1, <2>2, <2>3
  <2> QED
    BY <1>4, <1>5, <2>4
<1>8. CASE Miss(c, k)
  <2> DEFINE l == [pc |-> "fetch", timer |-> 0, age |-> 0]
  <2>1. old.pc \in {"cache", "hit"} /\ Moves(c, k, l)
    BY <1>3, <1>8, Entered DEF Miss, Stages, Timed
  <2>2. LookupOK(k, l)
    BY Times DEF LookupOK, Timed, Deadline
  <2>3. Waits => SpentOK(c, k, l, took)
    BY <1>1, <1>2, <2>1, Times DEF SpentOK, LookupOK, Timed, Deadline
  <2>4. Fine(l)
    BY <2>1, <2>2, <2>3
  <2> QED
    BY <1>4, <1>5, <2>4
<1>9. CASE Sample(c, k)
  <2> DEFINE l == [pc |-> "reply", timer |-> old.timer, age |-> 0]
  <2>1. old.pc = "fetch" /\ Moves(c, k, l)
    BY <1>3, <1>9, Continued DEF Sample, Stages, Timed
  <2>2. LookupOK(k, l)
    BY <1>1, <1>2, <2>1 DEF LookupOK, Timed, Deadline
  <2>3. Waits => SpentOK(c, k, l, took)
    BY <1>2, <2>1 DEF SpentOK, Timed
  <2>4. Fine(l)
    BY <2>1, <2>2, <2>3
  <2> QED
    BY <1>4, <1>5, <2>4
<1>10. CASE Fetched(c, k)
  <2> DEFINE l == [pc |-> "fill", timer |-> 0, age |-> old.age]
  <2>1. old.pc = "reply" /\ Moves(c, k, l)
    BY <1>1, <1>3, <1>10, Entered DEF Fetched, Stages, Timed
  <2>2. LookupOK(k, l)
    BY <1>1, <1>2, <2>1, Times DEF LookupOK, Timed, Deadline
  <2>3. Waits => SpentOK(c, k, l, took)
    BY <1>1, <1>2, <2>1, Times DEF SpentOK, LookupOK, Timed, Deadline
  <2>4. Fine(l)
    BY <2>1, <2>2, <2>3
  <2> QED
    BY <1>4, <1>5, <2>4
<1>11. CASE Fill(c, k)
  <2> DEFINE l == [pc |-> "done", timer |-> 0, age |-> old.age]
  <2>1. old.pc = "fill" /\ Moves(c, k, l)
    BY <1>1, <1>3, <1>11, Entered DEF Fill, Stages
  <2>2. LookupOK(k, l)
    BY DEF LookupOK, Timed
  <2>3. Waits => SpentOK(c, k, l, took)
    BY <1>1, <1>2, <2>1, Times DEF SpentOK, LookupOK, Timed, Deadline
  <2>4. Fine(l)
    BY <2>1, <2>2, <2>3
  <2> QED
    BY <1>4, <1>5, <2>4
<1> QED
  BY <1>6, <1>7, <1>8, <1>9, <1>10, <1>11

\* What is stored is no older than a SET that is late can be.
LEMMA StoreStep ==
    ASSUME IInv, NEW k \in Kinds, NEW age \in Nat, Store(k, age),
           k = "price" => age <= FetchTimeout + CommandTimeout + Stall
    PROVE  CacheOK' /\ cached' \in [Kinds -> [age: Nat, ttl: Nat]]
<1> DEFINE e == [age |-> age, ttl |-> Ttl(k)]
<1>1. cached \in [Kinds -> [age: Nat, ttl: Nat]] /\ cached' = [cached EXCEPT ![k] = e]
  BY DEF IInv, Shape, Store
<1>2. e \in [age: Nat, ttl: Nat] /\ EntryOK(k, e)
  BY Times DEF EntryOK, OldestCached, Ttl
<1> HIDE DEF e
<1>3. \A j \in Kinds : cached'[j] = IF j = k THEN e ELSE cached[j]
  BY <1>1
<1> QED
  BY <1>1, <1>2, <1>3 DEF IInv, CacheOK

LEMMA FillStep ==
    ASSUME IInv, NEW c \in Calls, NEW k \in Kinds, Fill(c, k)
    PROVE  /\ CacheOK' /\ LatesOK' /\ cached' \in [Kinds -> [age: Nat, ttl: Nat]]
           /\ late' \subseteq [kind: Kinds, age: Nat, stalled: Nat]
<1> DEFINE old == look[c][k]
<1>1. /\ old.pc = "fill" /\ old.timer \in Nat /\ old.age \in Nat
  BY Shapes DEF IInv, Fill
<1>2. k = "price" => old.age <= FetchTimeout + CommandTimeout
  BY <1>1, Times DEF IInv, LookupsOK, LookupOK, Timed, Deadline
<1>3. /\ CacheOK /\ LatesOK /\ cached \in [Kinds -> [age: Nat, ttl: Nat]]
      /\ late \subseteq [kind: Kinds, age: Nat, stalled: Nat]
  BY DEF IInv, Shape
<1>4. CASE Store(k, old.age) /\ UNCHANGED late
  <2>1. k = "price" => old.age <= FetchTimeout + CommandTimeout + Stall
    BY <1>1, <1>2, Times
  <2>2. CacheOK' /\ cached' \in [Kinds -> [age: Nat, ttl: Nat]]
    BY <1>1, <1>4, <2>1, StoreStep
  <2> QED
    BY <1>3, <1>4, <2>2 DEF LatesOK
<1>5. CASE UNCHANGED <<cached, late>>
  BY <1>3, <1>5 DEF CacheOK, LatesOK
<1>6. CASE UNCHANGED cached /\ late' = {[kind |-> k, age |-> old.age, stalled |-> 0]}
  <2> DEFINE s == [kind |-> k, age |-> old.age, stalled |-> 0]
  <2>1. s \in [kind: Kinds, age: Nat, stalled: Nat] /\ LateOK(s)
    BY <1>1, <1>2, Times DEF LateOK
  <2> HIDE DEF s
  <2>2. late' = {s}
    BY <1>6 DEF s
  <2> QED
    BY <1>3, <1>6, <2>1, <2>2 DEF CacheOK, LatesOK
<1> QED
  BY <1>4, <1>5, <1>6 DEF Fill

LEMMA LateFillStep == ASSUME IInv, NEW s \in late, LateFill(s) PROVE IInv'
<1>1. s.kind \in Kinds /\ s.age \in Nat /\ s.stalled \in Nat
  BY Shapes DEF IInv
<1>2. s.kind = "price" => s.age <= FetchTimeout + CommandTimeout + Stall
  BY <1>1, Times DEF IInv, LatesOK, LateOK
<1>3. CacheOK' /\ cached' \in [Kinds -> [age: Nat, ttl: Nat]]
  BY <1>1, <1>2, StoreStep DEF LateFill
<1>4. Shape' /\ LatesOK'
  BY <1>3 DEF LateFill, IInv, Shape, LatesOK
<1>5. LookupsOK' /\ CallsOK' /\ MakingsOK' /\ AnswersOK'
  BY DEF LateFill, IInv, LookupsOK, CallsOK, Looking, MakingsOK, Making, AnswersOK
<1> QED
  BY <1>3, <1>4, <1>5 DEF IInv

\* A call that is answered waits for nothing more.
LEMMA RefusedStep ==
    ASSUME IInv, NEW c \in Calls, NEW k \in Kinds, NEW code \in {400, 502, 504},
           Refused(c, k, code)
    PROVE  IInv'
<1> DEFINE l == [pc |-> "failed", timer |-> 0, age |-> 0]
<1>1. look[c][k].pc # "idle" /\ Moves(c, k, l)
  BY Entered DEF IInv, Refused, Stages
<1>2. \A d \in Calls, j \in Kinds : look'[d][j] = IF d = c /\ j = k THEN l ELSE look[d][j]
  BY <1>1 DEF Moves
<1>3. /\ answer \in [Calls -> [code: Codes, age: Nat, took: Nat]]
      /\ UNCHANGED <<cached, late, making>>
      /\ answer' = IF answer[c].code = 0
                   THEN [answer EXCEPT ![c].code = code] ELSE answer
  BY DEF IInv, Shape, Refused
<1>4. /\ answer' \in [Calls -> [code: Codes, age: Nat, took: Nat]]
      /\ answer'[c].code # 0 /\ answer'[c].took = answer[c].took
      /\ answer'[c].code \in {400, 502, 504} \/ answer'[c] = answer[c]
      /\ \A d \in Calls : d # c => answer'[d] = answer[d]
  BY <1>3 DEF Codes
<1> HIDE DEF l
<1>5. Shape' /\ CacheOK' /\ LatesOK'
  BY <1>1, <1>3, <1>4 DEF IInv, Shape, Moves, CacheOK, LatesOK
<1>6. LookupsOK'
  <2>1. LookupOK(k, l)
    BY DEF LookupOK, Timed, l
  <2> QED
    BY <1>2, <2>1 DEF IInv, LookupsOK
<1>7. CallsOK'
  <2> SUFFICES ASSUME NEW d \in Calls, Looking(d)', NEW j \in Lookups(d)
               PROVE  SpentOK(d, j, look'[d][j], answer'[d].took)
    BY DEF CallsOK
  <2>1. d # c
    BY <1>4 DEF Looking
  <2>2. answer'[d] = answer[d] /\ \A i \in Kinds : look'[d][i] = look[d][i]
    BY <1>2, <1>4, <2>1
  <2>3. Looking(d) /\ j \in Kinds
    BY <2>2 DEF Looking, Kinds, Lookups
  <2> QED
    BY <2>2, <2>3 DEF IInv, CallsOK
<1>8. AnswersOK'
  BY <1>4 DEF IInv, AnswersOK, AnswerOK
<1>9. MakingsOK'
  <2>1. ~Making(c)
    BY <1>1 DEF IInv, MakingsOK
  <2> QED
    BY <1>2, <1>3, <1>4, <2>1 DEF IInv, MakingsOK, Making, MadeOK
<1> QED
  BY <1>5, <1>6, <1>7, <1>8, <1>9 DEF IInv

LEMMA ReceiveStep == ASSUME IInv, NEW c \in Calls, Receive(c) PROVE IInv'
<1> DEFINE all == [k \in Kinds |->
                     IF k \in Lookups(c) THEN [Idle EXCEPT !.pc = "cache"] ELSE Idle]
           first == [pc |-> "cache", timer |-> 0, age |-> 0]
<1>1. /\ look' = [look EXCEPT ![c] = all] /\ answer' = [answer EXCEPT ![c] = NoAnswer]
      /\ UNCHANGED <<cached, late, making>> /\ ~Making(c)
      /\ look \in [Calls -> [Kinds -> [pc: Stages, timer: Nat, age: Nat]]]
      /\ answer \in [Calls -> [code: Codes, age: Nat, took: Nat]]
  BY DEF Receive, IInv, Shape, Waiting
<1>2. /\ all \in [Kinds -> [pc: Stages, timer: Nat, age: Nat]]
      /\ \A k \in Kinds : all[k] = IF k \in Lookups(c) THEN first ELSE Idle
  BY DEF Idle, Stages, Timed
<1> HIDE DEF all
<1>3. /\ \A k \in Kinds : look'[c][k] = IF k \in Lookups(c) THEN first ELSE Idle
      /\ \A d \in Calls : d # c => look'[d] = look[d] /\ answer'[d] = answer[d]
      /\ answer'[c] = NoAnswer
  BY <1>1, <1>2
<1>4. Shape' /\ CacheOK' /\ LatesOK'
  <2>1. NoAnswer \in [code: Codes, age: Nat, took: Nat]
    BY DEF NoAnswer, Codes
  <2> QED
    BY <1>1, <1>2, <2>1 DEF IInv, Shape, CacheOK, LatesOK
<1>5. \A k \in Kinds : LookupOK(k, first) /\ LookupOK(k, Idle)
  BY Times DEF LookupOK, Timed, Deadline, Idle
<1>6. \A k \in Kinds : SpentOK(c, k, first, 0)
  BY Times DEF SpentOK, Timed
<1> HIDE DEF first
<1>7. LookupsOK'
  BY <1>3, <1>5 DEF IInv, LookupsOK
<1>8. CallsOK'
  <2> SUFFICES ASSUME NEW d \in Calls, Looking(d)', NEW j \in Lookups(d)
               PROVE  SpentOK(d, j, look'[d][j], answer'[d].took)
    BY DEF CallsOK
  <2>1. j \in Kinds
    BY DEF Lookups, Kinds
  <2>2. CASE d = c
    BY <1>3, <1>6, <2>1, <2>2 DEF NoAnswer
  <2>3. CASE d # c
    BY <1>3, <2>3 DEF IInv, CallsOK, Looking
  <2> QED
    BY <2>2, <2>3
<1>9. AnswersOK'
  <2>1. AnswerOK(c, NoAnswer)
    BY Times DEF AnswerOK, NoAnswer
  <2> QED
    BY <1>3, <2>1 DEF IInv, AnswersOK
<1>10. MakingsOK'
  BY <1>1, <1>3 DEF IInv, MakingsOK, Making, MadeOK
<1> QED
  BY <1>4, <1>7, <1>8, <1>9, <1>10 DEF IInv

\* What the price of a call whose lookups are done may be used for.
LEMMA DoneLookups ==
    ASSUME IInv, NEW c \in Calls, LookupsDone(c)
    PROVE  /\ look[c]["price"].age \in Nat /\ answer[c].took \in Nat
           /\ answer[c].took <= LongestLookup /\ answer[c].code = 0
           /\ c \notin Quotes => look[c]["price"].age < OldestCached + CommandTimeout
           /\ c \in Quotes => look[c]["price"].age < OldestCached + LongestLookup
           /\ ~Making(c)
<1>1. "price" \in Kinds /\ "price" \in Lookups(c)
  BY DEF Kinds, Lookups
<1>2. /\ look[c]["price"].age \in Nat /\ answer[c].took \in Nat
      /\ look[c]["price"].pc = "done" /\ answer[c].code = 0
  BY <1>1, Shapes DEF IInv, LookupsDone, Looking
<1>3. SpentOK(c, "price", look[c]["price"], answer[c].took)
  BY <1>1 DEF IInv, CallsOK, LookupsDone
<1>4. ~Making(c)
  BY <1>1, <1>2 DEF IInv, MakingsOK
<1> QED
  BY <1>2, <1>3, <1>4, Times DEF SpentOK

\* The lookups of a call are put away.
LEMMA PutAway ==
    ASSUME IInv, NEW c \in Calls, look' = [look EXCEPT ![c] = NoLookups],
           UNCHANGED <<cached, late>>,
           \A d \in Calls : d # c => answer'[d] = answer[d]
    PROVE  /\ look' \in [Calls -> [Kinds -> [pc: Stages, timer: Nat, age: Nat]]]
           /\ \A k \in Kinds : look'[c][k].pc = "idle"
           /\ \A d \in Calls : d # c => look'[d] = look[d]
           /\ CacheOK' /\ LatesOK' /\ LookupsOK' /\ CallsOK'
<1>1. look \in [Calls -> [Kinds -> [pc: Stages, timer: Nat, age: Nat]]]
  BY DEF IInv, Shape
<1>2. NoLookups \in [Kinds -> [pc: Stages, timer: Nat, age: Nat]]
  BY DEF NoLookups, Idle, Stages
<1>3. /\ look' \in [Calls -> [Kinds -> [pc: Stages, timer: Nat, age: Nat]]]
      /\ \A k \in Kinds : look'[c][k] = Idle
      /\ \A d \in Calls : d # c => look'[d] = look[d]
  BY <1>1, <1>2 DEF NoLookups
<1>4. LookupsOK'
  <2>1. \A k \in Kinds : LookupOK(k, Idle)
    BY DEF LookupOK, Timed, Idle
  <2> QED
    BY <1>3, <2>1 DEF IInv, LookupsOK
<1>5. CallsOK'
  <2> SUFFICES ASSUME NEW d \in Calls, Looking(d)', NEW j \in Lookups(d)
               PROVE  SpentOK(d, j, look'[d][j], answer'[d].took)
    BY DEF CallsOK
  <2>1. d # c
    BY <1>3 DEF Looking, Idle, Kinds
  <2> QED
    BY <1>3, <2>1 DEF IInv, CallsOK, Looking
<1>6. CacheOK' /\ LatesOK'
  BY DEF IInv, CacheOK, LatesOK
<1> QED
  BY <1>3, <1>4, <1>5, <1>6 DEF Idle

LEMMA ShowStep == ASSUME IInv, NEW c \in Calls, Show(c) PROVE IInv'
<1> DEFINE age == look[c]["price"].age
           half == [answer EXCEPT ![c].code = 200]
<1>1. /\ answer \in [Calls -> [code: Codes, age: Nat, took: Nat]]
      /\ age \in Nat /\ answer[c].took \in Nat /\ answer[c].took <= LongestCall(c)
      /\ age < OldestCached + CommandTimeout /\ ~Making(c)
  BY DoneLookups, Times DEF Show, IInv, Shape, AnswersOK, AnswerOK
<1>2. /\ half \in [Calls -> [code: Codes, age: Nat, took: Nat]]
      /\ half[c].code = 200 /\ half[c].took = answer[c].took
      /\ \A d \in Calls : d # c => half[d] = answer[d]
  BY <1>1 DEF Codes
<1>3. answer' = [half EXCEPT ![c].age = age]
  BY DEF Show
<1> HIDE DEF half, age
<1>4. /\ answer' \in [Calls -> [code: Codes, age: Nat, took: Nat]]
      /\ answer'[c].code = 200 /\ answer'[c].age = age
      /\ answer'[c].took = answer[c].took
      /\ \A d \in Calls : d # c => answer'[d] = answer[d]
  BY <1>1, <1>2, <1>3
<1>5. UNCHANGED making
  BY DEF Show
<1>10. look' = [look EXCEPT ![c] = NoLookups] /\ UNCHANGED <<cached, late>>
  BY DEF Show
<1>11. \A d \in Calls : d # c => answer'[d] = answer[d]
  BY <1>4
<1>6. /\ look' \in [Calls -> [Kinds -> [pc: Stages, timer: Nat, age: Nat]]]
      /\ \A k \in Kinds : look'[c][k].pc = "idle"
      /\ \A d \in Calls : d # c => look'[d] = look[d]
      /\ CacheOK' /\ LatesOK' /\ LookupsOK' /\ CallsOK'
  BY <1>10, <1>11, PutAway
<1>7. Shape'
  BY <1>4, <1>5, <1>6, <1>10 DEF IInv, Shape
<1>8. AnswersOK'
  BY <1>1, <1>4 DEF IInv, AnswersOK, AnswerOK
<1>9. MakingsOK'
  BY <1>1, <1>4, <1>5, <1>6 DEF IInv, MakingsOK, Making, MadeOK
<1> QED
  BY <1>6, <1>7, <1>8, <1>9 DEF IInv

\* The price a quote freezes is within what its lookups were given.
LEMMA FreezeStep == ASSUME IInv, NEW c \in Calls, Freeze(c) PROVE IInv'
<1> DEFINE age == look[c]["price"].age
           m == [pc |-> "insert", timer |-> 0]
<1>1. /\ answer \in [Calls -> [code: Codes, age: Nat, took: Nat]]
      /\ making \in [Calls -> [pc: Steps, timer: Nat]]
      /\ c \in Quotes /\ age \in Nat /\ answer[c].took \in Nat
      /\ answer[c].took <= LongestLookup /\ answer[c].took <= LongestCall(c)
      /\ answer[c].code = 0 /\ age < OldestCached + LongestLookup /\ ~Making(c)
  BY DoneLookups DEF Freeze, IInv, Shape, AnswersOK, AnswerOK
<1>2. /\ look' = [look EXCEPT ![c] = NoLookups] /\ UNCHANGED <<cached, late>>
      /\ \/ /\ answer' = [answer EXCEPT ![c].age = age]
            /\ making' = [making EXCEPT ![c] = m]
         \/ answer' = [answer EXCEPT ![c].code = 400] /\ UNCHANGED making
  BY DEF Freeze
<1> HIDE DEF age
<1>3. /\ answer' \in [Calls -> [code: Codes, age: Nat, took: Nat]]
      /\ answer'[c].took = answer[c].took
      /\ \A d \in Calls : d # c => answer'[d] = answer[d]
  BY <1>1, <1>2 DEF Codes
<1>4. /\ making' \in [Calls -> [pc: Steps, timer: Nat]]
      /\ \A d \in Calls : d # c => making'[d] = making[d]
  BY <1>1, <1>2 DEF Steps
<1>5. \/ making'[c] = m /\ answer'[c].code = 0 /\ answer'[c].age = age
      \/ making'[c].pc = "none" /\ answer'[c].code = 400
  BY <1>1, <1>2 DEF Making
<1>6. /\ look' \in [Calls -> [Kinds -> [pc: Stages, timer: Nat, age: Nat]]]
      /\ \A k \in Kinds : look'[c][k].pc = "idle"
      /\ \A d \in Calls : d # c => look'[d] = look[d]
      /\ CacheOK' /\ LatesOK' /\ LookupsOK' /\ CallsOK'
  BY <1>2, <1>3, PutAway
<1>7. Shape'
  BY <1>2, <1>3, <1>4, <1>6 DEF IInv, Shape
<1>8. AnswersOK'
  BY <1>1, <1>3, <1>5 DEF IInv, AnswersOK, AnswerOK
<1>9. MakingsOK'
  <2>1. MadeOK(c, making'[c], answer'[c])
    BY <1>1, <1>3, <1>5, Times DEF MadeOK, Deadline
  <2>2. ASSUME NEW d \in Calls, d # c
        PROVE  /\ MadeOK(d, making'[d], answer'[d])
               /\ Making(d)' => \A k \in Kinds : look'[d][k].pc = "idle"
    <3>1. /\ MadeOK(d, making[d], answer[d])
          /\ making[d].pc # "none" => \A k \in Kinds : look[d][k].pc = "idle"
      BY DEF IInv, MakingsOK, Making
    <3>2. making'[d] = making[d] /\ answer'[d] = answer[d] /\ look'[d] = look[d]
      BY <1>3, <1>4, <1>6, <2>2
    <3> QED
      BY <3>1, <3>2 DEF Making
  <2> QED
    BY <1>6, <2>1, <2>2 DEF MakingsOK
<1> QED
  BY <1>6, <1>7, <1>8, <1>9 DEF IInv

LEMMA InsertStep == ASSUME IInv, NEW c \in Calls, Insert(c) PROVE IInv'
<1> DEFINE m == [pc |-> "cache", timer |-> 0]
<1>1. /\ making \in [Calls -> [pc: Steps, timer: Nat]]
      /\ making' = [making EXCEPT ![c] = m] /\ making[c].pc = "insert"
      /\ UNCHANGED <<cached, late, look, answer>>
      /\ MadeOK(c, making[c], answer[c]) /\ Making(c)
      /\ making[c].timer \in Nat /\ answer[c].took \in Nat
  BY Shapes DEF Insert, IInv, Shape, MakingsOK, Making
<1>2. /\ making' \in [Calls -> [pc: Steps, timer: Nat]] /\ making'[c] = m
      /\ \A d \in Calls : d # c => making'[d] = making[d]
  BY <1>1 DEF Steps
<1>3. MadeOK(c, m, answer[c])
  BY <1>1, Times DEF MadeOK, Deadline
<1> HIDE DEF m
<1>4. MakingsOK'
  BY <1>1, <1>2, <1>3 DEF IInv, MakingsOK, Making
<1> QED
  BY <1>1, <1>2, <1>4
  DEF IInv, Shape, CacheOK, LatesOK, LookupsOK, CallsOK, Looking, AnswersOK

LEMMA FinishStep ==
    ASSUME IInv, NEW c \in Calls, NEW code \in {201, 500}, Finish(c, code)
    PROVE  IInv'
<1>1. /\ making \in [Calls -> [pc: Steps, timer: Nat]]
      /\ answer \in [Calls -> [code: Codes, age: Nat, took: Nat]]
      /\ making' = [making EXCEPT ![c] = Nothing]
      /\ answer' = [answer EXCEPT ![c].code = code]
      /\ UNCHANGED <<cached, late, look>>
      /\ MadeOK(c, making[c], answer[c]) /\ Making(c)
      /\ AnswerOK(c, answer[c])
  BY DEF Finish, IInv, Shape, MakingsOK, Making, AnswersOK
<1>2. /\ making' \in [Calls -> [pc: Steps, timer: Nat]] /\ making'[c].pc = "none"
      /\ \A d \in Calls : d # c => making'[d] = making[d]
  BY <1>1 DEF Steps, Nothing
<1>3. /\ answer' \in [Calls -> [code: Codes, age: Nat, took: Nat]]
      /\ answer'[c].code = code /\ answer'[c].age = answer[c].age
      /\ answer'[c].took = answer[c].took
      /\ \A d \in Calls : d # c => answer'[d] = answer[d]
  BY <1>1 DEF Codes
<1>4. MakingsOK'
  BY <1>1, <1>2, <1>3 DEF IInv, MakingsOK, Making, MadeOK
<1>5. AnswersOK'
  <2>1. AnswerOK(c, answer'[c])
    BY <1>1, <1>3 DEF AnswerOK, MadeOK, Making
  <2> QED
    BY <1>3, <2>1 DEF IInv, AnswersOK
<1>6. CallsOK'
  BY <1>1, <1>3 DEF IInv, CallsOK, Looking
<1> QED
  BY <1>1, <1>2, <1>3, <1>4, <1>5, <1>6 DEF IInv, Shape, CacheOK, LatesOK, LookupsOK

\* A tick finds every timer before its deadline.
LEMMA TickStep == ASSUME IInv, Tick PROVE IInv'
<1> DEFINE Ages(c, k) == /\ k = "price" /\ (Waiting(c) \/ Running(c, k))
                         /\ look[c][k].pc \in {"hit", "reply", "fill", "done"}
           Aged(s) == [s EXCEPT !.age = IF s.kind = "price" THEN @ + 1 ELSE 0,
                                !.stalled = @ + 1]
           Later(c, k) == [look[c][k] EXCEPT !.timer = IF Running(c, k) THEN @ + 1 ELSE 0,
                                             !.age = IF Ages(c, k) THEN @ + 1 ELSE @]
           Next1(c, k) == [pc |-> look[c][k].pc,
                           timer |-> IF Running(c, k) THEN look[c][k].timer + 1 ELSE 0,
                           age |-> IF Ages(c, k) THEN look[c][k].age + 1 ELSE look[c][k].age]
<1>1. /\ \A k \in Kinds : cached[k].age \in Nat /\ cached[k].ttl \in Nat
      /\ \A s \in late : s.kind \in Kinds /\ s.age \in Nat /\ s.stalled \in Nat
      /\ \A c \in Calls, k \in Kinds :
            /\ look[c][k].pc \in Stages
            /\ look[c][k].timer \in Nat /\ look[c][k].age \in Nat
      /\ \A c \in Calls : /\ making[c].pc \in Steps /\ making[c].timer \in Nat
                          /\ answer[c].code \in Codes
                          /\ answer[c].age \in Nat /\ answer[c].took \in Nat
  BY Shapes DEF IInv
<1>2. /\ look \in [Calls -> [Kinds -> [pc: Stages, timer: Nat, age: Nat]]]
      /\ answer \in [Calls -> [code: Codes, age: Nat, took: Nat]]
      /\ making \in [Calls -> [pc: Steps, timer: Nat]]
      /\ late \subseteq [kind: Kinds, age: Nat, stalled: Nat]
  BY DEF IInv, Shape
<1>0. /\ cached' = [k \in Kinds |->
           IF cached[k].ttl <= 1 THEN Absent
           ELSE [age |-> IF k = "price" THEN cached[k].age + 1 ELSE 0,
                 ttl |-> cached[k].ttl - 1]]
      /\ late' = {Aged(s) : s \in late}
      /\ look' = [c \in Calls |-> [k \in Kinds |-> Later(c, k)]]
      /\ making' = [c \in Calls |->
           [making[c] EXCEPT !.timer = IF Making(c) THEN @ + 1 ELSE 0]]
      /\ answer' = [c \in Calls |->
           [answer[c] EXCEPT !.took = IF Waiting(c) THEN @ + 1 ELSE @]]
  BY DEF Tick
<1>3. CacheOK' /\ cached' \in [Kinds -> [age: Nat, ttl: Nat]]
  <2>1. ASSUME NEW k \in Kinds
        PROVE  EntryOK(k, cached'[k]) /\ cached'[k] \in [age: Nat, ttl: Nat]
    <3>1. EntryOK(k, cached[k]) /\ cached[k].age \in Nat /\ cached[k].ttl \in Nat
      BY <1>1 DEF IInv, CacheOK
    <3> DEFINE e == [age |-> IF k = "price" THEN cached[k].age + 1 ELSE 0,
                     ttl |-> cached[k].ttl - 1]
    <3>0. cached'[k] = IF cached[k].ttl <= 1 THEN Absent ELSE e
      BY <1>0
    <3>2. CASE cached[k].ttl <= 1
      <4>1. Absent \in [age: Nat, ttl: Nat] /\ EntryOK(k, Absent)
        BY Times DEF Absent, EntryOK
      <4> QED
        BY <3>0, <3>2, <4>1
    <3>3. CASE cached[k].ttl > 1
      <4>1. cached'[k] = e
        BY <3>0, <3>1, <3>3
      <4>2. EntryOK(k, e) /\ e \in [age: Nat, ttl: Nat]
        BY <3>1, <3>3, Times DEF EntryOK
      <4> QED
        BY <4>1, <4>2
    <3> QED
      BY <3>1, <3>2, <3>3
  <2> QED
    BY <1>0, <2>1 DEF CacheOK
<1>4. LatesOK' /\ late' \subseteq [kind: Kinds, age: Nat, stalled: Nat]
  <2>1. ASSUME NEW s \in late
        PROVE  Aged(s) \in [kind: Kinds, age: Nat, stalled: Nat] /\ LateOK(Aged(s))
    <3> DEFINE age == IF s.kind = "price" THEN s.age + 1 ELSE 0
               half == [s EXCEPT !.age = age]
    <3>1. s \in [kind: Kinds, age: Nat, stalled: Nat] /\ age \in Nat
      BY <1>2
    <3>2. /\ half \in [kind: Kinds, age: Nat, stalled: Nat]
          /\ half.kind = s.kind /\ half.age = age /\ half.stalled = s.stalled
      BY <3>1
    <3>3. Aged(s) = [half EXCEPT !.stalled = half.stalled + 1]
      OBVIOUS
    <3> HIDE DEF half, Aged, age
    <3>4. /\ Aged(s) \in [kind: Kinds, age: Nat, stalled: Nat]
          /\ Aged(s).kind = s.kind /\ Aged(s).age = age /\ Aged(s).stalled = s.stalled + 1
      BY <3>1, <3>2, <3>3
    <3>5. LateOK(s) /\ s.stalled < Stall
      BY DEF IInv, LatesOK, Tick, Quiet
    <3>6. s.age \in Nat /\ s.stalled \in Nat
      BY <3>1
    <3>7. LateOK(Aged(s))
      BY <3>4, <3>5, <3>6, Times DEF LateOK, age
    <3> QED
      BY <3>4, <3>7
  <2>2. \A s, t \in late : s = t
    BY DEF IInv, LatesOK
  <2> HIDE DEF Aged
  <2>3. \A t \in late' : \E s \in late : t = Aged(s)
    BY <1>0
  <2>4. \A t, u \in late' : t = u
    BY <2>2, <2>3
  <2> QED
    BY <2>1, <2>3, <2>4 DEF LatesOK
<1>5. ASSUME NEW c \in Calls, NEW k \in Kinds
      PROVE  Later(c, k) = Next1(c, k) /\ Next1(c, k) \in [pc: Stages, timer: Nat, age: Nat]
  <2> DEFINE timer == IF Running(c, k) THEN look[c][k].timer + 1 ELSE 0
             age == IF Ages(c, k) THEN look[c][k].age + 1 ELSE look[c][k].age
             half == [look[c][k] EXCEPT !.timer = timer]
  <2>1. look[c][k] \in [pc: Stages, timer: Nat, age: Nat] /\ timer \in Nat /\ age \in Nat
    BY <1>1, <1>2
  <2>2. /\ half \in [pc: Stages, timer: Nat, age: Nat]
        /\ half.pc = look[c][k].pc /\ half.timer = timer /\ half.age = look[c][k].age
    BY <2>1
  <2>3. Later(c, k) = [half EXCEPT !.age = IF Ages(c, k) THEN half.age + 1 ELSE half.age]
    OBVIOUS
  <2>4. age = IF Ages(c, k) THEN half.age + 1 ELSE half.age
    BY <2>2
  <2>5. Next1(c, k) = [pc |-> look[c][k].pc, timer |-> timer, age |-> age]
    OBVIOUS
  <2> HIDE DEF half, timer, age, Later, Next1, Ages
  <2>6. Later(c, k) = [half EXCEPT !.age = age]
    BY <2>3, <2>4
  <2>7. /\ Later(c, k) \in [pc: Stages, timer: Nat, age: Nat]
        /\ Later(c, k).pc = look[c][k].pc /\ Later(c, k).timer = timer
        /\ Later(c, k).age = age
    BY <2>1, <2>2, <2>6
  <2> QED
    BY <2>5, <2>7
<1> HIDE DEF Later, Next1
<1>6. /\ look' \in [Calls -> [Kinds -> [pc: Stages, timer: Nat, age: Nat]]]
      /\ \A c \in Calls, k \in Kinds : look'[c][k] = Next1(c, k)
  BY <1>0, <1>5
<1>7. \A c \in Calls :
         /\ answer'[c] \in [code: Codes, age: Nat, took: Nat]
         /\ answer'[c].code = answer[c].code /\ answer'[c].age = answer[c].age
         /\ answer'[c].took = IF Waiting(c) THEN answer[c].took + 1 ELSE answer[c].took
  <2> SUFFICES ASSUME NEW c \in Calls
               PROVE  /\ answer'[c] \in [code: Codes, age: Nat, took: Nat]
                      /\ answer'[c].code = answer[c].code /\ answer'[c].age = answer[c].age
                      /\ answer'[c].took = IF Waiting(c) THEN answer[c].took + 1 ELSE answer[c].took
    OBVIOUS
  <2>1. answer'[c] = [answer[c] EXCEPT !.took = IF Waiting(c) THEN @ + 1 ELSE @]
    BY <1>0
  <2>2. answer[c] \in [code: Codes, age: Nat, took: Nat]
    BY <1>2
  <2> QED
    BY <2>1, <2>2
<1>16. \A c \in Calls :
         /\ making'[c] \in [pc: Steps, timer: Nat] /\ making'[c].pc = making[c].pc
         /\ making'[c].timer = IF Making(c) THEN making[c].timer + 1 ELSE 0
  <2> SUFFICES ASSUME NEW c \in Calls
               PROVE  /\ making'[c] \in [pc: Steps, timer: Nat]
                      /\ making'[c].pc = making[c].pc
                      /\ making'[c].timer = IF Making(c) THEN making[c].timer + 1 ELSE 0
    OBVIOUS
  <2>1. making'[c] = [making[c] EXCEPT !.timer = IF Making(c) THEN @ + 1 ELSE 0]
    BY <1>0
  <2>2. making[c] \in [pc: Steps, timer: Nat] /\ making[c].timer \in Nat
    BY <1>1, <1>2
  <2> QED
    BY <2>1, <2>2
<1>8. Shape'
  <2>1. answer' \in [Calls -> [code: Codes, age: Nat, took: Nat]]
    <3>1. answer' = [c \in Calls |-> answer'[c]]
      BY <1>0
    <3>2. \A c \in Calls : answer'[c] \in [code: Codes,
                                          age: Nat, took: Nat]
      BY <1>7
    <3> QED
      BY <3>1, <3>2
  <2>2. making' \in [Calls -> [pc: Steps, timer: Nat]]
    <3>1. making' = [c \in Calls |-> making'[c]]
      BY <1>0
    <3>2. \A c \in Calls : making'[c] \in [pc: Steps, timer: Nat]
      BY <1>16
    <3> QED
      BY <3>1, <3>2
  <2> QED
    BY <1>3, <1>4, <1>6, <2>1, <2>2 DEF Shape
<1>9. \A c \in Calls, k \in Kinds :
         /\ look'[c][k].pc = look[c][k].pc
         /\ look'[c][k].timer = IF Running(c, k) THEN look[c][k].timer + 1 ELSE 0
         /\ look'[c][k].age = IF Ages(c, k) THEN look[c][k].age + 1 ELSE look[c][k].age
  <2> HIDE DEF Ages
  <2> SUFFICES ASSUME NEW c \in Calls, NEW k \in Kinds
               PROVE  /\ look'[c][k].pc = look[c][k].pc
                      /\ look'[c][k].timer = IF Running(c, k) THEN look[c][k].timer + 1 ELSE 0
                      /\ look'[c][k].age = IF Ages(c, k) THEN look[c][k].age + 1 ELSE look[c][k].age
    OBVIOUS
  <2>1. look'[c][k] = Next1(c, k)
    BY <1>6
  <2> QED
    BY <2>1 DEF Next1
<1>10. \A c \in Calls, k \in Kinds :
          look[c][k].pc \in Timed => Running(c, k) /\ look[c][k].timer < Deadline(look[c][k].pc)
  BY DEF Tick, Quiet, Running, Timed
<1>11. LookupsOK'
  <2> SUFFICES ASSUME NEW c \in Calls, NEW k \in Kinds PROVE LookupOK(k, look'[c][k])
    BY DEF LookupsOK
  <2>1. LookupOK(k, look[c][k])
    BY DEF IInv, LookupsOK
  <2>2. /\ look[c][k].timer \in Nat /\ look[c][k].age \in Nat
        /\ Deadline(look[c][k].pc) \in Nat
    BY <1>1, Times DEF Deadline
  <2>3. CASE look[c][k].pc \in Timed
    <3>1. /\ look'[c][k].timer = look[c][k].timer + 1 /\ look'[c][k].pc = look[c][k].pc
          /\ look'[c][k].age \in {look[c][k].age, look[c][k].age + 1}
      BY <1>9, <1>10, <2>3
    <3>2. look[c][k].timer + 1 <= Deadline(look[c][k].pc)
      BY <1>10, <2>2, <2>3
    <3> QED
      BY <2>1, <2>2, <2>3, <3>1, <3>2, Times DEF LookupOK
  <2>4. CASE look[c][k].pc \notin Timed
    BY <1>9, <2>4 DEF LookupOK, Timed
  <2> QED
    BY <2>3, <2>4
<1>12. \A c \in Calls : Looking(c)' <=> Looking(c)
  BY <1>7, <1>9 DEF Looking, Kinds
<1>13. ASSUME NEW c \in Calls, Looking(c)
       PROVE  /\ \A k \in Lookups(c) : k \in Kinds /\ SpentOK(c, k, look[c][k], answer[c].took)
              /\ answer[c].took < LongestLookup
  <2>1. \A k \in Lookups(c) : k \in Kinds /\ SpentOK(c, k, look[c][k], answer[c].took)
    BY <1>13 DEF IInv, CallsOK, Lookups, Kinds
  <2>2. PICK k \in Lookups(c) : look[c][k].pc # "done"
    BY <1>13 DEF Tick, Quiet, LookupsDone
  <2>3. look[c][k].pc \in Timed /\ look[c][k].timer < Deadline(look[c][k].pc)
    BY <1>10, <2>1, <2>2 DEF SpentOK
  <2> QED
    BY <1>1, <2>1, <2>2, <2>3, Times DEF SpentOK, Timed, Deadline
<1>14. CallsOK'
  <2> SUFFICES ASSUME NEW c \in Calls, Looking(c), NEW k \in Lookups(c)
               PROVE  SpentOK(c, k, look'[c][k], answer'[c].took)
    BY <1>12 DEF CallsOK
  <2>1. k \in Kinds /\ SpentOK(c, k, look[c][k], answer[c].took)
    BY <1>13
  <2>2. /\ look[c][k].timer \in Nat /\ look[c][k].age \in Nat /\ answer[c].took \in Nat
        /\ answer'[c].took = answer[c].took + 1
        /\ look'[c][k].pc = look[c][k].pc
        /\ look'[c][k].age \in {look[c][k].age, look[c][k].age + 1}
    BY <1>1, <1>7, <1>9, <2>1 DEF Waiting
  <2>5. answer[c].took + 1 <= LongestLookup
    BY <1>1, <1>13, Times
  <2>3. CASE look[c][k].pc \in Timed
    <3>1. look'[c][k].timer = look[c][k].timer + 1 /\ look[c][k].pc # "done"
      BY <1>9, <1>10, <2>1, <2>3 DEF Timed
    <3> QED
      BY <2>1, <2>2, <2>5, <3>1, Times DEF SpentOK
  <2>4. CASE look[c][k].pc = "done"
    <3>1. c \in Quotes \/ k # "price"
      <4>1. ASSUME c \notin Quotes PROVE FALSE
        <5>1. Lookups(c) = {"price"}
          BY <4>1 DEF Lookups
        <5>2. PICK j \in Lookups(c) : look[c][j].pc # "done"
          BY DEF Tick, Quiet, LookupsDone
        <5> QED
          BY <2>4, <5>1, <5>2
      <4> QED
        BY <4>1
    <3> QED
      BY <2>1, <2>2, <2>4, <2>5, <3>1, Times DEF SpentOK, Timed
  <2> QED
    BY <2>1, <2>3, <2>4 DEF SpentOK
<1>17. ASSUME NEW c \in Calls, Making(c)
       PROVE  /\ MadeOK(c, making[c], answer[c]) /\ making[c].timer < Deadline(making[c].pc)
              /\ answer[c].took < LongestCall(c)
  <2>1. MadeOK(c, making[c], answer[c]) /\ making[c].timer < Deadline(making[c].pc)
    BY <1>17 DEF IInv, MakingsOK, Tick, Quiet
  <2> QED
    BY <1>1, <1>17, <2>1, Times DEF MadeOK, Making, Steps, Deadline
<1>18. MakingsOK'
  <2> SUFFICES ASSUME NEW c \in Calls
               PROVE  /\ MadeOK(c, making'[c], answer'[c])
                      /\ Making(c)' => \A k \in Kinds : look'[c][k].pc = "idle"
    BY DEF MakingsOK
  <2>1. Making(c)' <=> Making(c)
    BY <1>16 DEF Making
  <2>2. CASE Making(c)
    <3>1. \A k \in Kinds : look'[c][k].pc = "idle"
      BY <1>9, <2>2 DEF IInv, MakingsOK
    <3>2. /\ making'[c].pc = making[c].pc /\ making'[c].timer = making[c].timer + 1
          /\ answer'[c].took = answer[c].took + 1
          /\ answer'[c].code = answer[c].code /\ answer'[c].age = answer[c].age
      BY <1>7, <1>16, <2>2 DEF Waiting
    <3>3. making[c].timer \in Nat /\ answer[c].took \in Nat /\ Deadline(making[c].pc) \in Nat
      BY <1>1, Times DEF Deadline
    <3>4. MadeOK(c, making'[c], answer'[c])
      BY <1>17, <2>2, <3>2, <3>3, Times DEF MadeOK, Making
    <3> QED
      BY <3>1, <3>4
  <2>3. CASE ~Making(c)
    BY <2>1, <2>3 DEF Making, MadeOK
  <2> QED
    BY <2>2, <2>3
<1>15. AnswersOK'
  <2> SUFFICES ASSUME NEW c \in Calls PROVE AnswerOK(c, answer'[c])
    BY DEF AnswersOK
  <2>1. AnswerOK(c, answer[c]) /\ answer[c].took \in Nat
    BY <1>1 DEF IInv, AnswersOK
  <2>2. Waiting(c) => answer[c].took < LongestCall(c)
    BY <1>13, <1>17, <2>1, Times DEF Waiting
  <2>3. answer'[c].took <= LongestCall(c)
    BY <1>7, <2>1, <2>2, Times DEF AnswerOK
  <2> QED
    BY <1>7, <2>1, <2>3 DEF AnswerOK
<1> QED
  BY <1>3, <1>4, <1>8, <1>11, <1>14, <1>15, <1>18 DEF IInv

-----------------------------------------------------------------------------
LEMMA Inductive == ASSUME IInv, [Next]_vars PROVE IInv'
<1>1. CASE Tick
  BY <1>1, TickStep
<1>2. ASSUME NEW c \in Calls,
             \/ Receive(c) \/ Show(c) \/ Freeze(c) \/ Insert(c)
             \/ \E code \in {201, 500} : Finish(c, code)
      PROVE  IInv'
  BY <1>2, ReceiveStep, ShowStep, FreezeStep, InsertStep, FinishStep
<1>3. ASSUME NEW c \in Calls, NEW k \in Kinds,
             \/ ReadHit(c, k) \/ Hit(c, k) \/ Miss(c, k)
             \/ Sample(c, k) \/ Fetched(c, k) \/ Fill(c, k)
      PROVE  IInv'
  <2>1. /\ LookupsOK' /\ CallsOK' /\ MakingsOK' /\ AnswersOK'
        /\ UNCHANGED <<making, answer>>
        /\ look' \in [Calls -> [Kinds -> [pc: Stages, timer: Nat, age: Nat]]]
    BY <1>3, LookupStep
  <2>2. CASE Fill(c, k)
    BY <2>1, <2>2, FillStep DEF IInv, Shape
  <2>3. CASE \/ ReadHit(c, k) \/ Hit(c, k) \/ Miss(c, k) \/ Sample(c, k) \/ Fetched(c, k)
    <3>1. UNCHANGED <<cached, late>>
      BY <2>3 DEF ReadHit, Hit, Miss, Sample, Fetched
    <3> QED
      BY <2>1, <3>1 DEF IInv, Shape, CacheOK, LatesOK
  <2> QED
    BY <1>3, <2>2, <2>3
<1>4. ASSUME NEW c \in Calls, NEW k \in Kinds, NEW code \in {400, 502, 504}, Refused(c, k, code)
      PROVE  IInv'
  BY <1>4, RefusedStep
<1>5. ASSUME NEW s \in late, LateFill(s) PROVE IInv'
  BY <1>5, LateFillStep
<1>6. CASE UNCHANGED vars
  BY <1>6 DEF vars, IInv, Shape, CacheOK, LatesOK, LookupsOK, CallsOK, Looking,
              MakingsOK, Making, AnswersOK
<1> QED
  BY <1>1, <1>2, <1>3, <1>4, <1>5, <1>6 DEF Next

LEMMA Invariant == Spec => []IInv
<1>1. IInv /\ [Next]_vars => IInv'
  BY Inductive
<1> QED
  BY Initially, <1>1, PTL DEF Spec

\* Every variable keeps its shape, at most one SET is late, and what is cached
\* lives no longer than its kind does.
THEOREM TypesOK == Spec => []TypeOK
<1>1. IInv => TypeOK
  <2> SUFFICES ASSUME IInv PROVE TypeOK
    OBVIOUS
  <2>1. Cardinality(late) <= 1
    <3>1. CASE late = {}
      BY <3>1, FS_EmptySet
    <3>2. CASE late # {}
      <4>1. PICK s : late = {s}
        BY <3>2 DEF IInv, LatesOK
      <4>2. Cardinality({s}) = 1
        BY FS_Singleton
      <4>3. Cardinality(late) = 1
        BY <4>1, <4>2, Zenon
      <4> QED
        BY <4>3
    <3> QED
      BY <3>1, <3>2
  <2>2. /\ \A k \in Kinds : cached[k].age \in Nat /\ cached[k].ttl \in 0 .. Ttl(k)
        /\ \A s \in late : s.kind \in Kinds /\ s.age \in Nat /\ s.stalled \in 0 .. Stall
    BY Shapes, Times DEF IInv, CacheOK, EntryOK, LatesOK, LateOK
  <2>3. cached["price"].ttl \in 0 .. PriceTtl /\ cached["symbol"].ttl \in 0 .. SymbolTtl
    BY <2>2 DEF Kinds, Ttl
  <2> QED
    BY <2>1, <2>2, <2>3, Shapes DEF IInv, TypeOK, Stages, Timed, Steps, Codes
<1> QED
  BY Invariant, <1>1, PTL

\* GET /v1/prices shows, and a quote is answered with, no price that is older
\* than a slow fetch, a stalled fill, a life in the cache and the lookups around.
THEOREM PricesAreRecent == Spec => []PriceAgeIsBounded
<1>1. IInv => PriceAgeIsBounded
  BY DEF IInv, AnswersOK, AnswerOK, PriceAgeIsBounded
<1> QED
  BY Invariant, <1>1, PTL

\* A price is answered within one read, one request and one write; a quote
\* within that, its INSERT and the write of its copy.
THEOREM CallsEndInTime == Spec => []AnswersInTime
<1>1. IInv => AnswersInTime
  BY DEF IInv, AnswersOK, AnswerOK, AnswersInTime
<1> QED
  BY Invariant, <1>1, PTL

=============================================================================
