------------------------- MODULE TradeHistoryProofs -------------------------
(***************************************************************************)
(* Keyset pagination over any trades of any clients, while others commit.  *)
(***************************************************************************)
EXTENDS TradeHistory, FiniteSetTheorems, FunctionTheorems, SequenceTheorems, TLAPS

-----------------------------------------------------------------------------
(* ORDER BY and LIMIT.                                                     *)

\* The order of the rows is total, for ids are not used twice.
Sortable(rows) ==
    /\ IsFiniteSet(rows)
    /\ \A t \in rows : t.id \in Nat /\ t.at \in Nat
    /\ \A t, u \in rows : t.id = u.id => t = u

LEMMA OlderIsAnOrder ==
    ASSUME NEW rows, Sortable(rows)
    PROVE  /\ \A t \in rows : ~Older(t, t)
           /\ \A t, u, v \in rows : Older(t, u) /\ Older(u, v) => Older(t, v)
           /\ \A t, u \in rows : t # u => Older(t, u) \/ Older(u, t)
BY DEF Sortable, Older, Before

\* A row is numbered by how many are newer.
Newer(rows, t) == {u \in rows : Older(u, t)}

LEMMA Ranks ==
    ASSUME NEW rows, Sortable(rows)
    PROVE  /\ Cardinality(rows) \in Nat
           /\ \A t \in rows : Cardinality(Newer(rows, t)) \in 0 .. Cardinality(rows) - 1
           /\ \A t, u \in rows :
                 Cardinality(Newer(rows, t)) < Cardinality(Newer(rows, u)) => Older(t, u)
           /\ \A t, u \in rows :
                 Cardinality(Newer(rows, t)) = Cardinality(Newer(rows, u)) => t = u
           /\ \A i \in 1 .. Cardinality(rows) :
                 \E t \in rows : Cardinality(Newer(rows, t)) = i - 1
<1> DEFINE n == Cardinality(rows)
           rank(t) == Cardinality(Newer(rows, t))
<1>1. IsFiniteSet(rows) /\ n \in Nat
  BY FS_CardinalityType DEF Sortable
<1>2. \A t \in rows : Newer(rows, t) \subseteq rows /\ t \notin Newer(rows, t)
  BY OlderIsAnOrder DEF Newer
<1>3. ASSUME NEW t \in rows PROVE rank(t) \in 0 .. n - 1 /\ IsFiniteSet(Newer(rows, t))
  <2>1. /\ IsFiniteSet(Newer(rows, t)) /\ rank(t) \in Nat /\ rank(t) <= n
        /\ n = rank(t) => rows = Newer(rows, t)
    BY <1>1, <1>2, FS_Subset, FS_CardinalityType
  <2>2. n # rank(t)
    BY <1>2, <2>1
  <2> QED
    BY <1>1, <2>1, <2>2
<1>4. ASSUME NEW t \in rows, NEW u \in rows, Older(t, u) PROVE rank(t) < rank(u)
  <2>1. Newer(rows, t) \subseteq Newer(rows, u) /\ t \in Newer(rows, u)
    BY <1>4, OlderIsAnOrder DEF Newer
  <2>2. Newer(rows, t) # Newer(rows, u)
    BY <1>2, <2>1
  <2>3. rank(t) <= rank(u) /\ rank(t) # rank(u)
    BY <1>3, <2>1, <2>2, FS_Subset
  <2> QED
    BY <1>1, <1>3, <2>3
<1> HIDE DEF rank
<1>5. \A t, u \in rows : /\ rank(t) < rank(u) => Older(t, u)
                         /\ rank(t) = rank(u) => t = u
  <2> SUFFICES ASSUME NEW t \in rows, NEW u \in rows
               PROVE  /\ rank(t) < rank(u) => Older(t, u)
                      /\ rank(t) = rank(u) => t = u
    OBVIOUS
  <2>1. t = u \/ Older(t, u) \/ Older(u, t)
    BY OlderIsAnOrder
  <2>2. rank(t) \in Int /\ rank(u) \in Int
    BY <1>1, <1>3
  <2> QED
    BY <1>4, <2>1, <2>2
<1>6. ASSUME NEW i \in 1 .. n PROVE \E t \in rows : rank(t) = i - 1
  <2> DEFINE f == [t \in rows |-> rank(t) + 1]
  <2>1. f \in [rows -> 1 .. n]
    BY <1>1, <1>3
  <2>2. \A t, u \in rows : f[t] = f[u] => t = u
    BY <1>1, <1>3, <1>5
  <2> HIDE DEF f
  <2>3. f \in Injection(rows, 1 .. n)
    BY <2>1, <2>2, Fun_IsInj
  <2>4. IsFiniteSet(1 .. n) /\ Cardinality(1 .. n) = n
    BY <1>1, FS_Interval
  <2>5. f \in Surjection(rows, 1 .. n)
    BY <2>3, <2>4, FS_Injection
  <2>6. PICK t \in rows : f[t] = i
    BY <2>5 DEF Surjection
  <2>7. rank(t) \in Int /\ rank(t) + 1 = i
    BY <1>1, <1>3, <2>6 DEF f
  <2> QED
    BY <2>7
<1> QED
  BY <1>1, <1>3, <1>5, <1>6 DEF rank

\* What ORDER BY and LIMIT return, and what they leave.
LEMMA NewestIs ==
    ASSUME NEW rows, Sortable(rows), NEW n \in Nat
    PROVE  /\ Newest(n, rows) \in Seq(rows)
           /\ Cardinality(rows) \in Nat
           /\ Len(Newest(n, rows)) = IF Cardinality(rows) < n THEN Cardinality(rows) ELSE n
           /\ \A i, j \in 1 .. Len(Newest(n, rows)) :
                 i < j => Older(Newest(n, rows)[i], Newest(n, rows)[j])
           /\ \A t \in rows :
                 \/ \E i \in 1 .. Len(Newest(n, rows)) : Newest(n, rows)[i] = t
                 \/ /\ n < Cardinality(rows)
                    /\ \A i \in 1 .. Len(Newest(n, rows)) : Older(Newest(n, rows)[i], t)
<1> DEFINE s == Newest(n, rows)
           c == Cardinality(rows)
           k == IF c < n THEN c ELSE n
           rank(t) == Cardinality(Newer(rows, t))
<1>1. /\ c \in Nat /\ k \in Nat /\ k <= c
      /\ \A t \in rows : rank(t) \in 0 .. c - 1
      /\ \A t, u \in rows : /\ rank(t) < rank(u) => Older(t, u)
                            /\ rank(t) = rank(u) => t = u
      /\ \A i \in 1 .. c : \E t \in rows : rank(t) = i - 1
  BY Ranks
<1>2. s = [i \in 1 .. k |-> CHOOSE t \in rows : rank(t) = i - 1]
  BY DEF Newest, Newer
<1> HIDE DEF s, rank, k, c
<1>3. \A i \in 1 .. k : s[i] \in rows /\ rank(s[i]) = i - 1
  <2> SUFFICES ASSUME NEW i \in 1 .. k PROVE s[i] \in rows /\ rank(s[i]) = i - 1
    OBVIOUS
  <2>1. i \in 1 .. c
    BY <1>1
  <2>2. s[i] = CHOOSE t \in rows : rank(t) = i - 1
    BY <1>2
  <2> QED
    BY <1>1, <2>1, <2>2
<1>4. s \in [1 .. k -> rows]
  BY <1>2, <1>3
<1>5. s \in Seq(rows) /\ Len(s) = k
  BY <1>1, <1>4
<1>6. \A i, j \in 1 .. k : i < j => Older(s[i], s[j])
  BY <1>1, <1>3
<1>7. ASSUME NEW t \in rows
      PROVE  \/ \E i \in 1 .. k : s[i] = t
             \/ n < c /\ \A i \in 1 .. k : Older(s[i], t)
  <2>1. rank(t) \in 0 .. c - 1
    BY <1>1
  <2>2. CASE rank(t) < k
    <3>1. rank(t) + 1 \in 1 .. k
      BY <1>1, <2>1, <2>2
    <3>2. s[rank(t) + 1] \in rows /\ rank(s[rank(t) + 1]) = rank(t)
      BY <1>3, <2>1, <3>1
    <3>3. s[rank(t) + 1] = t
      BY <1>1, <3>2
    <3> QED
      BY <3>1, <3>3
  <2>3. CASE k <= rank(t)
    <3>1. n < c
      BY <1>1, <2>1, <2>3 DEF k
    <3>2. \A i \in 1 .. k : rank(s[i]) < rank(t) /\ s[i] \in rows
      BY <1>1, <1>3, <2>1, <2>3
    <3>3. \A i \in 1 .. k : Older(s[i], t)
      BY <1>1, <3>2
    <3> QED
      BY <3>1, <3>3
  <2> QED
    BY <1>1, <2>1, <2>2, <2>3
<1>8. k = IF c < n THEN c ELSE n
  BY DEF k
<1> QED
  BY <1>1, <1>5, <1>6, <1>7, <1>8 DEF s, c

-----------------------------------------------------------------------------
(* The cursor.                                                             *)

\* A cursor names the start of the millisecond of its row.
LEMMA TruncatedIs ==
    ASSUME NEW at \in Nat
    PROVE  /\ Truncated(at) \in Nat /\ Truncated(at) <= at
           /\ \A x \in Nat : Truncated(at) <= x /\ x <= at => x \div Micros = at \div Micros
<1> DEFINE m == Micros
           q == at \div m
<1>1. m \in Nat /\ m > 0
  BY MicrosAssumption
<1> HIDE DEF m
<1>2. q \in Nat /\ q * m <= at /\ at < q * m + m
  BY <1>1
<1>3. q * m \in Nat
  BY <1>1, <1>2
<1>4. ASSUME NEW x \in Nat, q * m <= x, x <= at PROVE x \div m = q
  <2> DEFINE r == x \div m
  <2>1. r \in Nat /\ r * m <= x /\ x < r * m + m
    BY <1>1
  <2> HIDE DEF r
  <2>2. \A a, b \in Nat : a < b => a * m + m <= b * m
    BY <1>1
  <2>3. r * m \in Nat
    BY <1>1, <2>1
  <2> HIDE DEF q
  <2>4. ~(r < q) /\ ~(q < r)
    BY <1>1, <1>2, <1>3, <1>4, <2>1, <2>2, <2>3
  <2>5. r = q
    BY <1>2, <2>1, <2>4
  <2> QED
    BY <2>5 DEF r
<1> QED
  BY <1>2, <1>3, <1>4 DEF Truncated, m


\* The rows a page shows, and those it leaves to the pages after it.
LEMMA PageIs ==
    ASSUME NEW client, NEW limit \in Nat \ {0}, NEW cursor,
           Sortable(Matching(client, cursor))
    PROVE  LET rows == Page(client, limit, cursor).rows
               next == Page(client, limit, cursor).next
               all == Matching(client, cursor)
           IN  /\ rows \in Seq(all)
               /\ \A i, j \in 1 .. Len(rows) : i < j => Older(rows[i], rows[j])
               /\ next = NoCursor =>
                     \A t \in all : \E i \in 1 .. Len(rows) : rows[i] = t
               /\ next # NoCursor =>
                     /\ Len(rows) \in Nat /\ Len(rows) > 0
                     /\ next = Encode(rows[Len(rows)])
                     /\ Last(rows) = rows[Len(rows)]
                     /\ \A t \in all : \/ \E i \in 1 .. Len(rows) : rows[i] = t
                                       \/ Older(rows[Len(rows)], t)
<1> DEFINE all == Matching(client, cursor)
           s == Newest(limit + 1, all)
           c == Cardinality(all)
           p == IF Len(s) > limit THEN SubSeq(s, 1, limit) ELSE s
           nx == IF Len(s) > limit THEN Encode(Last(p)) ELSE NoCursor
<1>1. /\ Page(client, limit, cursor).rows = p
      /\ Page(client, limit, cursor).next = nx
  BY DEF Page
<1>0. limit + 1 \in Nat /\ Sortable(all)
  OBVIOUS
<1>2. /\ s \in Seq(all) /\ c \in Nat
      /\ Len(s) = IF c < limit + 1 THEN c ELSE limit + 1
      /\ \A i, j \in 1 .. Len(s) : i < j => Older(s[i], s[j])
      /\ \A t \in all : \/ \E i \in 1 .. Len(s) : s[i] = t
                        \/ limit + 1 < c /\ \A i \in 1 .. Len(s) : Older(s[i], t)
  <2> HIDE DEF all
  <2> QED
    BY <1>0, NewestIs
<1>3. \A t \in all : t.at \in Nat /\ t.id \in Nat
  BY DEF Sortable
<1> HIDE DEF s, c, all
<1>4. CASE Len(s) > limit
  <2>1. p = SubSeq(s, 1, limit) /\ Len(s) = limit + 1 /\ limit + 1 <= c
    BY <1>2, <1>4
  <2> HIDE DEF p
  <2>2. /\ p \in Seq(all) /\ Len(p) = limit
        /\ \A i \in 1 .. limit : p[i] = s[i]
    BY <1>2, <2>1, SubSeqProperties
  <2>3. Last(p) = p[limit] /\ p[limit] \in all
    BY <2>2 DEF Last
  <2>4. nx = Encode(p[limit]) /\ nx # NoCursor
    <3>1. nx = Encode(p[limit])
      BY <1>4, <2>3
    <3>2. Truncated(p[limit].at) \in Nat
      BY <1>3, <2>3, TruncatedIs
    <3> QED
      BY <3>1, <3>2 DEF Encode, NoCursor
  <2>5. \A i, j \in 1 .. Len(p) : i < j => Older(p[i], p[j])
    BY <1>2, <2>1, <2>2
  <2>6. \A t \in all : \/ \E i \in 1 .. Len(p) : p[i] = t
                       \/ Older(p[Len(p)], t)
    <3> SUFFICES ASSUME NEW t \in all, ~ \E i \in 1 .. Len(p) : p[i] = t
                 PROVE  Older(p[limit], t)
      BY <2>2
    <3>1. limit \in 1 .. Len(s) /\ limit + 1 \in 1 .. Len(s) /\ limit < limit + 1
      BY <2>1
    <3>2. p[limit] = s[limit]
      BY <2>2
    <3>3. CASE \E i \in 1 .. Len(s) : s[i] = t
      <4>1. PICK i \in 1 .. Len(s) : s[i] = t
        BY <3>3
      <4>2. i = limit + 1
        BY <2>1, <2>2, <4>1
      <4> QED
        BY <1>2, <3>1, <3>2, <4>1, <4>2
    <3>4. CASE \A i \in 1 .. Len(s) : Older(s[i], t)
      BY <3>1, <3>2, <3>4
    <3> QED
      BY <1>2, <3>3, <3>4
  <2> QED
    BY <1>1, <2>2, <2>3, <2>4, <2>5, <2>6 DEF all
<1>5. CASE ~(Len(s) > limit)
  <2>1. p = s /\ nx = NoCursor /\ Len(s) = c
    BY <1>2, <1>5
  <2>2. c < limit + 1
    BY <1>2, <1>5
  <2> QED
    BY <1>1, <1>2, <2>1, <2>2 DEF all
<1> QED
  BY <1>4, <1>5

-----------------------------------------------------------------------------
(* The inductive invariant.                                                *)

Traversals ==
    [limit: Limits \cup {0}, cursor: Cursors, known: SUBSET Rows,
     ends: SUBSET Rows, shown: Seq(Rows), done: BOOLEAN]

\* The table: an id is one row's, and the rows are finitely many.
RowsOK ==
    /\ now \in Instants
    /\ open \subseteq Rows
    /\ trades \subseteq Rows
    /\ IsFiniteSet(trades)
    /\ \A t, u \in open \cup trades : t.id = u.id => t = u

\* What has been shown is the client's, from the newest to the oldest.
ShownOK(c, shown) ==
    /\ \A i \in 1 .. Len(shown) : shown[i].client = c
    /\ \A i, j \in 1 .. Len(shown) : i < j => Older(shown[i], shown[j])

\* A cursor, when there is one, is that of the last row shown.
CursorOK(p) ==
    p.cursor # NoCursor =>
        /\ p.limit \in Limits
        /\ Len(p.shown) > 0
        /\ p.cursor = Encode(p.shown[Len(p.shown)])

\* t shares the millisecond of the end of a page and is older.
Missed(t, e) == t # e /\ t.at \div Micros = e.at \div Micros /\ Older(e, t)

\* A row there from the start was shown, was missed, or is past the cursor.
Settled(t, shown, ends) ==
    \/ \E i \in 1 .. Len(shown) : shown[i] = t
    \/ \E e \in ends : Missed(t, e)

KnownOK(c, p) ==
    \A t \in p.known :
        /\ t \in trades /\ t.client = c
        /\ Settled(t, p.shown, p.ends) \/ (p.cursor # NoCursor /\ PastCursor(t, p.cursor))

\* A traversal is done once there is no next page.
DoneOK(p) == p.done => p.cursor = NoCursor

TraversalOK(c, p) ==
    /\ ShownOK(c, p.shown)
    /\ CursorOK(p)
    /\ KnownOK(c, p)
    /\ DoneOK(p)

IInv ==
    /\ RowsOK
    /\ paging \in [Clients -> Traversals]
    /\ \A c \in Clients : TraversalOK(c, paging[c])


LEMMA Types ==
    ASSUME IInv
    PROVE  /\ \A t \in open \cup trades :
                 t \in Rows /\ t.id \in Nat /\ t.at \in Nat /\ t.at \in Instants
           /\ \A c \in Clients : \A cursor : Sortable(Matching(c, cursor))
<1>1. \A t \in open \cup trades :
         t \in Rows /\ t.id \in Nat /\ t.at \in Nat /\ t.at \in Instants
  BY IdsAssumption, InstantsAssumption DEF IInv, RowsOK, Rows
<1>2. ASSUME NEW c \in Clients, NEW cursor PROVE Sortable(Matching(c, cursor))
  <2>1. Matching(c, cursor) \subseteq trades
    BY DEF Matching
  <2>2. IsFiniteSet(Matching(c, cursor))
    BY <2>1, FS_Subset DEF IInv, RowsOK
  <2> QED
    BY <1>1, <2>1, <2>2 DEF Sortable, IInv, RowsOK
<1> QED
  BY <1>1, <1>2

\* A traversal that may go on: nothing is shown yet, or the cursor is that of
\* the last row, and what is not shown and not missed is past the cursor.
Resumable(c, p) ==
    /\ p.limit \in Limits
    /\ p.shown \in Seq(Rows)
    /\ ShownOK(c, p.shown)
    /\ p.cursor = NoCursor => Len(p.shown) = 0
    /\ p.cursor # NoCursor => Len(p.shown) > 0 /\ p.cursor = Encode(p.shown[Len(p.shown)])
    /\ \A t \in p.known :
          /\ t \in trades /\ t.client = c
          /\ Settled(t, p.shown, p.ends) \/ PastCursor(t, p.cursor)

\* A page added to what a traversal has shown.
LEMMA ShowStep ==
    ASSUME IInv, NEW c \in Clients, NEW p, Resumable(c, p)
    PROVE  LET rows == Page(c, p.limit, p.cursor).rows
               next == Page(c, p.limit, p.cursor).next
           IN  /\ p.shown \o rows \in Seq(Rows)
               /\ next \in Cursors
               /\ next # NoCursor => Last(rows) \in Rows
               /\ ShownOK(c, p.shown \o rows)
               /\ next # NoCursor =>
                     /\ Len(p.shown \o rows) > 0
                     /\ next = Encode((p.shown \o rows)[Len(p.shown \o rows)])
               /\ \A t \in p.known :
                     \/ Settled(t, p.shown \o rows,
                                IF next = NoCursor THEN p.ends ELSE p.ends \cup {Last(rows)})
                     \/ next # NoCursor /\ PastCursor(t, next)
<1> DEFINE limit == p.limit
           cursor == p.cursor
           shown == p.shown
           ends == p.ends
           known == p.known
           rows == Page(c, limit, cursor).rows
           next == Page(c, limit, cursor).next
<1>0. /\ limit \in Limits /\ shown \in Seq(Rows) /\ ShownOK(c, shown)
      /\ cursor = NoCursor => Len(shown) = 0
      /\ cursor # NoCursor => Len(shown) > 0 /\ cursor = Encode(shown[Len(shown)])
      /\ \A t \in known :
            /\ t \in trades /\ t.client = c
            /\ Settled(t, shown, ends) \/ PastCursor(t, cursor)
      /\ rows = Page(c, limit, cursor).rows /\ next = Page(c, limit, cursor).next
  BY DEF Resumable
<1> HIDE DEF limit, cursor, shown, ends, known, rows, next
<1> DEFINE all == Matching(c, cursor)
           s == shown \o rows
           ends2 == IF next = NoCursor THEN ends ELSE ends \cup {Last(rows)}
<1>1. limit \in Nat \ {0}
  BY <1>0, LimitsAssumption
<1>2. Sortable(all)
  BY Types
<1>3. /\ rows \in Seq(all)
      /\ \A i, j \in 1 .. Len(rows) : i < j => Older(rows[i], rows[j])
      /\ next = NoCursor => \A t \in all : \E i \in 1 .. Len(rows) : rows[i] = t
      /\ next # NoCursor =>
            /\ Len(rows) \in Nat /\ Len(rows) > 0
            /\ next = Encode(rows[Len(rows)])
            /\ Last(rows) = rows[Len(rows)]
            /\ \A t \in all : \/ \E i \in 1 .. Len(rows) : rows[i] = t
                              \/ Older(rows[Len(rows)], t)
  <2> DEFINE r == Page(c, limit, cursor).rows
             n == Page(c, limit, cursor).next
  <2>1. /\ r \in Seq(all)
        /\ \A i, j \in 1 .. Len(r) : i < j => Older(r[i], r[j])
        /\ n = NoCursor => \A t \in all : \E i \in 1 .. Len(r) : r[i] = t
        /\ n # NoCursor =>
              /\ Len(r) \in Nat /\ Len(r) > 0
              /\ n = Encode(r[Len(r)])
              /\ Last(r) = r[Len(r)]
              /\ \A t \in all : \/ \E i \in 1 .. Len(r) : r[i] = t
                                \/ Older(r[Len(r)], t)
    BY <1>1, <1>2, PageIs
  <2>2. rows = r /\ next = n
    BY <1>0
  <2> HIDE DEF r, n, all
  <2> QED
    BY <2>1, <2>2
<1>4. /\ all \subseteq trades
      /\ \A t \in all : t \in Rows /\ t.client = c /\ PastCursor(t, cursor)
  BY Types DEF Matching
<1>5. \A t \in Rows : t.id \in Nat /\ t.at \in Nat /\ t.id \in Ids
  BY IdsAssumption, InstantsAssumption DEF Rows
<1> HIDE DEF all
<1>6. rows \in Seq(Rows)
  <2>1. rows \in [1 .. Len(rows) -> all] /\ Len(rows) \in Nat
    BY <1>3
  <2>2. rows \in [1 .. Len(rows) -> Rows]
    BY <1>4, <2>1
  <2> QED
    BY <2>1, <2>2
<1>7. /\ s \in Seq(Rows) /\ Len(s) = Len(shown) + Len(rows)
      /\ Len(shown) \in Nat /\ Len(rows) \in Nat
      /\ \A i \in 1 .. Len(shown) : s[i] = shown[i] /\ shown[i] \in Rows
      /\ \A i \in 1 .. Len(rows) : rows[i] \in all /\ s[Len(shown) + i] = rows[i]
      /\ \A i \in 1 .. Len(s) : \/ i \in 1 .. Len(shown)
                                \/ i - Len(shown) \in 1 .. Len(rows) /\ s[i] = rows[i - Len(shown)]
  <2>1. /\ s \in Seq(Rows) /\ Len(s) = Len(shown) + Len(rows)
        /\ Len(shown) \in Nat /\ Len(rows) \in Nat
        /\ \A i \in 1 .. Len(s) :
              s[i] = IF i <= Len(shown) THEN shown[i] ELSE rows[i - Len(shown)]
    BY <1>0, <1>6, ConcatProperties
  <2>2. \A i \in 1 .. Len(rows) : rows[i] \in all
    BY <1>3
  <2>3. \A i \in 1 .. Len(shown) : shown[i] \in Rows
    BY <1>0
  <2> HIDE DEF s
  <2>4. ASSUME NEW i \in 1 .. Len(shown) PROVE s[i] = shown[i]
    BY <2>1
  <2>5. ASSUME NEW i \in 1 .. Len(rows) PROVE s[Len(shown) + i] = rows[i]
    <3>1. /\ Len(shown) + i \in 1 .. Len(s) /\ ~(Len(shown) + i <= Len(shown))
          /\ (Len(shown) + i) - Len(shown) = i
      BY <2>1
    <3> QED
      BY <2>1, <3>1
  <2>6. ASSUME NEW i \in 1 .. Len(s)
        PROVE  \/ i \in 1 .. Len(shown)
               \/ i - Len(shown) \in 1 .. Len(rows) /\ s[i] = rows[i - Len(shown)]
    BY <2>1
  <2> QED
    BY <2>1, <2>2, <2>3, <2>4, <2>5, <2>6
<1> HIDE DEF s
<1>8. next \in Cursors
  <2>1. CASE next # NoCursor
    <3>1. rows[Len(rows)] \in Rows
      BY <1>3, <1>4, <1>7, <2>1
    <3> DEFINE e == rows[Len(rows)]
    <3>2. next = [at |-> Truncated(e.at), id |-> e.id] /\ e \in Rows
      BY <1>3, <2>1, <3>1 DEF Encode
    <3> HIDE DEF e
    <3>3. e.id \in Ids /\ Truncated(e.at) \in Nat
      BY <1>5, <3>2, TruncatedIs
    <3> QED
      BY <3>2, <3>3 DEF Cursors
  <2> QED
    BY <2>1 DEF Cursors
<1>9. ASSUME NEW i \in 1 .. Len(shown), NEW t \in all PROVE Older(shown[i], t)
  <2> DEFINE e == shown[Len(shown)]
  <2>1. /\ cursor # NoCursor /\ cursor = Encode(e)
        /\ Len(shown) \in 1 .. Len(shown) /\ e \in Rows
    BY <1>0, <1>7
  <2>2. t \in Rows /\ PastCursor(t, cursor)
    BY <1>4
  <2>3. Truncated(e.at) \in Nat /\ Truncated(e.at) <= e.at
    BY <1>5, <2>1, TruncatedIs
  <2>4. Older(e, t)
    BY <1>5, <2>1, <2>2, <2>3 DEF PastCursor, Before, Encode, Older
  <2>5. i = Len(shown) \/ Older(shown[i], e)
    BY <1>0, <1>7, <2>1 DEF ShownOK
  <2> QED
    BY <1>5, <1>7, <2>1, <2>2, <2>4, <2>5 DEF Older, Before
<1>10. ShownOK(c, s)
  <2>1. \A i \in 1 .. Len(s) : s[i].client = c
    BY <1>0, <1>4, <1>7 DEF ShownOK
  <2>2. ASSUME NEW i \in 1 .. Len(s), NEW j \in 1 .. Len(s), i < j
        PROVE  Older(s[i], s[j])
    <3>1. CASE j \in 1 .. Len(shown)
      <4>1. i \in 1 .. Len(shown)
        BY <1>7, <2>2, <3>1
      <4> QED
        BY <1>0, <1>7, <2>2, <3>1, <4>1 DEF ShownOK
    <3>2. CASE i \in 1 .. Len(shown) /\ j \notin 1 .. Len(shown)
      BY <1>7, <1>9, <3>2
    <3>3. CASE i \notin 1 .. Len(shown) /\ j \notin 1 .. Len(shown)
      <4>1. /\ i - Len(shown) \in 1 .. Len(rows) /\ s[i] = rows[i - Len(shown)]
            /\ j - Len(shown) \in 1 .. Len(rows) /\ s[j] = rows[j - Len(shown)]
        BY <1>7, <3>3
      <4>2. i - Len(shown) < j - Len(shown)
        BY <1>7, <2>2
      <4> QED
        BY <1>3, <4>1, <4>2
    <3> QED
      BY <3>1, <3>2, <3>3
  <2> QED
    BY <2>1, <2>2 DEF ShownOK
<1>11. next # NoCursor => Len(s) > 0 /\ next = Encode(s[Len(s)])
  <2> SUFFICES ASSUME next # NoCursor
               PROVE  Len(s) > 0 /\ next = Encode(s[Len(s)])
    OBVIOUS
  <2>1. Len(rows) \in 1 .. Len(rows)
    BY <1>3
  <2>2. s[Len(s)] = rows[Len(rows)]
    BY <1>7, <2>1
  <2> QED
    BY <1>3, <1>7, <2>1, <2>2
<1>12. ASSUME NEW t \in known
       PROVE  Settled(t, s, ends2) \/ (next # NoCursor /\ PastCursor(t, next))
  <2>1. CASE Settled(t, shown, ends)
    <3>1. ASSUME NEW i \in 1 .. Len(shown), shown[i] = t
          PROVE  \E j \in 1 .. Len(s) : s[j] = t
      <4>1. i \in 1 .. Len(s) /\ s[i] = t
        BY <1>7, <3>1
      <4> QED
        BY <4>1
    <3> QED
      BY <2>1, <3>1 DEF Settled
  <2>2. CASE PastCursor(t, cursor)
    <3>1. t \in all /\ t \in Rows
      BY <1>0, <2>2, Types DEF Matching, all
    <3>2. CASE \E i \in 1 .. Len(rows) : rows[i] = t
      <4>1. PICK i \in 1 .. Len(rows) : rows[i] = t
        BY <3>2
      <4>2. Len(shown) + i \in 1 .. Len(s) /\ s[Len(shown) + i] = t
        BY <1>7, <4>1
      <4> QED
        BY <4>2 DEF Settled
    <3>3. CASE next # NoCursor /\ Older(rows[Len(rows)], t)
      <4> DEFINE e == rows[Len(rows)]
      <4>1. Len(rows) \in 1 .. Len(rows) /\ next = Encode(e) /\ e \in ends2
        BY <1>3, <3>3
      <4>2. e \in Rows
        BY <1>4, <1>7, <4>1
      <4>3. Older(e, t)
        BY <3>3
      <4> HIDE DEF e
      <4>4. /\ Truncated(e.at) \in Nat
            /\ \A x \in Nat : Truncated(e.at) <= x /\ x <= e.at => x \div Micros = e.at \div Micros
        BY <1>5, <4>2, TruncatedIs
      <4>5. t # e /\ t.at <= e.at
        BY <1>5, <3>1, <4>2, <4>3 DEF Older, Before
      <4>6. CASE t.at < Truncated(e.at)
        BY <3>3, <4>1, <4>6 DEF PastCursor, Before, Encode
      <4>7. CASE Truncated(e.at) <= t.at
        <5>1. t.at \div Micros = e.at \div Micros
          BY <1>5, <3>1, <4>4, <4>5, <4>7
        <5> QED
          BY <4>1, <4>3, <4>5, <5>1 DEF Settled, Missed
      <4> QED
        BY <1>5, <3>1, <4>4, <4>6, <4>7
    <3> QED
      BY <1>3, <3>1, <3>2, <3>3
  <2> QED
    BY <1>0, <2>1, <2>2
<1>13. next # NoCursor => Last(rows) \in Rows
  <2> SUFFICES ASSUME next # NoCursor PROVE Last(rows) \in Rows
    OBVIOUS
  <2>1. Len(rows) \in 1 .. Len(rows) /\ Last(rows) = rows[Len(rows)]
    BY <1>3
  <2> QED
    BY <1>4, <1>7, <2>1
<1> QED
  BY <1>6, <1>7, <1>8, <1>10, <1>11, <1>12, <1>13 DEF s, ends2, limit, cursor, shown, ends, known, rows, next

\* A traversal of a client goes on by a page.
LEMMA PageStep ==
    ASSUME IInv, NEW c \in Clients, NEW from \in Traversals, Resumable(c, from),
           Show(c, from, Page(c, from.limit, from.cursor)),
           UNCHANGED <<now, open, trades>>
    PROVE  IInv'
<1> DEFINE page == Page(c, from.limit, from.cursor)
           rows == page.rows
           next == page.next
           q == [from EXCEPT !.shown = @ \o rows,
                             !.cursor = next,
                             !.ends = IF next = NoCursor THEN @ ELSE @ \cup {Last(rows)},
                             !.done = next = NoCursor]
           ends2 == IF next = NoCursor THEN from.ends ELSE from.ends \cup {Last(rows)}
<1>1. paging' = [paging EXCEPT ![c] = q]
  BY DEF Show
<1>4. /\ q = [from EXCEPT !.shown = @ \o rows,
                          !.cursor = next,
                          !.ends = IF next = NoCursor THEN @ ELSE @ \cup {Last(rows)},
                          !.done = next = NoCursor]
      /\ rows = Page(c, from.limit, from.cursor).rows
      /\ next = Page(c, from.limit, from.cursor).next
  OBVIOUS
<1> HIDE DEF rows, next, q
<1>3. /\ from.shown \o rows \in Seq(Rows)
      /\ next \in Cursors
      /\ next # NoCursor => Last(rows) \in Rows
      /\ ShownOK(c, from.shown \o rows)
      /\ next # NoCursor =>
            /\ Len(from.shown \o rows) > 0
            /\ next = Encode((from.shown \o rows)[Len(from.shown \o rows)])
      /\ \A t \in from.known :
            \/ Settled(t, from.shown \o rows, ends2)
            \/ next # NoCursor /\ PastCursor(t, next)
  BY <1>4, ShowStep
<1>5. /\ q \in Traversals
      /\ q.shown = from.shown \o rows /\ q.cursor = next
      /\ q.ends = ends2
      /\ q.limit = from.limit /\ q.known = from.known
      /\ q.done => next = NoCursor
  <2> DEFINE s == from.shown \o rows
             e == ends2
             d == next = NoCursor
             g == [from EXCEPT !.shown = s, !.cursor = next]
             h == [g EXCEPT !.ends = e]
  <2>1. s \in Seq(Rows) /\ e \in SUBSET Rows /\ d \in BOOLEAN
    BY <1>3 DEF Traversals
  <2>2. q = [h EXCEPT !.done = d]
    BY <1>4 DEF Traversals
  <2> HIDE DEF s, e, d
  <2>3. /\ g \in Traversals
        /\ g.shown = s /\ g.cursor = next
        /\ g.limit = from.limit /\ g.known = from.known
    BY <1>3, <2>1 DEF Traversals
  <2> HIDE DEF g
  <2>4. /\ h \in Traversals
        /\ h.shown = s /\ h.cursor = next /\ h.ends = e
        /\ h.limit = g.limit /\ h.known = g.known
    BY <2>1, <2>3 DEF Traversals
  <2> HIDE DEF h
  <2>5. /\ q \in Traversals
        /\ q.shown = s /\ q.cursor = next /\ q.ends = e
        /\ q.limit = h.limit /\ q.known = h.known
    BY <2>1, <2>2, <2>4 DEF Traversals
  <2>6. q.done = d
    BY <2>2, <2>4 DEF Traversals
  <2>7. q.done => next = NoCursor
    BY <2>6 DEF d
  <2> QED
    BY <2>3, <2>4, <2>5, <2>7 DEF s, e
<1>6. TraversalOK(c, q)
  <2>1. ShownOK(c, q.shown)
    BY <1>3, <1>5
  <2>2. CursorOK(q)
    BY <1>3, <1>5 DEF CursorOK, Resumable
  <2>3. KnownOK(c, q)
    BY <1>3, <1>5 DEF KnownOK, Resumable
  <2>4. DoneOK(q)
    BY <1>5 DEF DoneOK
  <2> QED
    BY <2>1, <2>2, <2>3, <2>4 DEF TraversalOK
<1>7. /\ paging' \in [Clients -> Traversals]
      /\ paging'[c] = q
      /\ \A d \in Clients \ {c} : paging'[d] = paging[d]
  BY <1>1, <1>5 DEF IInv
<1>8. RowsOK'
  BY DEF IInv, RowsOK
<1>9. trades' = trades
  OBVIOUS
<1>10. ASSUME NEW d \in Clients PROVE TraversalOK(d, paging[d])'
  <2>1. TraversalOK(d, paging'[d])
    BY <1>6, <1>7 DEF IInv
  <2>2. /\ ShownOK(d, paging'[d].shown) /\ CursorOK(paging'[d])
        /\ KnownOK(d, paging'[d]) /\ DoneOK(paging'[d])
    BY <2>1 DEF TraversalOK
  <2> QED
    BY <1>9, <2>2 DEF TraversalOK, KnownOK
<1> QED
  BY <1>7, <1>8, <1>10 DEF IInv

LEMMA NotPagingIs ==
    /\ NotPaging \in Traversals
    /\ NotPaging.shown = <<>> /\ NotPaging.cursor = NoCursor
    /\ NotPaging.known = {} /\ (NotPaging.done => NotPaging.cursor = NoCursor)
<1>1. /\ NoCursor \in Cursors /\ {} \in SUBSET Rows
      /\ <<>> \in Seq(Rows) /\ 0 \in Limits \cup {0}
  BY DEF Cursors
<1> QED
  BY <1>1 DEF NotPaging, Traversals

LEMMA FirstPageStep ==
    ASSUME IInv, NEW c \in Clients, NEW limit \in Limits, FirstPage(c, limit)
    PROVE  IInv'
<1> DEFINE known == {t \in trades : t.client = c}
           asked == [NotPaging EXCEPT !.limit = limit]
           from == [asked EXCEPT !.known = known]
<1>1. /\ Show(c, from, Page(c, limit, NoCursor))
      /\ UNCHANGED <<now, open, trades>>
  BY DEF FirstPage
<1>2. known \in SUBSET Rows
  BY DEF IInv, RowsOK
<1>3. \A t \in known : t \in trades /\ t.client = c
  OBVIOUS
<1> HIDE DEF known
<1>4. /\ asked \in Traversals /\ asked.limit = limit
      /\ asked.cursor = NoCursor /\ asked.shown = <<>>
  BY NotPagingIs DEF Traversals
<1> HIDE DEF asked
<1>5. /\ from \in Traversals /\ from.limit = limit /\ from.known = known
      /\ from.cursor = NoCursor /\ from.shown = <<>>
  BY <1>2, <1>4 DEF Traversals
<1> HIDE DEF from
<1>6. ShownOK(c, from.shown) /\ Len(from.shown) = 0
  BY <1>5 DEF ShownOK
<1>7. \A t \in from.known : /\ t \in trades /\ t.client = c
                            /\ PastCursor(t, from.cursor)
  BY <1>3, <1>5 DEF PastCursor
<1>8. Show(c, from, Page(c, from.limit, from.cursor))
  BY <1>1, <1>5
<1>9. Resumable(c, from)
  BY <1>5, <1>6, <1>7 DEF Resumable, Traversals
<1> QED
  BY <1>1, <1>5, <1>8, <1>9, PageStep

LEMMA LoadMoreStep ==
    ASSUME IInv, NEW c \in Clients, LoadMore(c)
    PROVE  IInv'
<1> DEFINE from == paging[c]
<1>1. /\ from.cursor # NoCursor
      /\ Show(c, from, Page(c, from.limit, from.cursor))
      /\ UNCHANGED <<now, open, trades>>
  BY DEF LoadMore
<1>2. from \in Traversals /\ TraversalOK(c, from)
  BY DEF IInv
<1> HIDE DEF from
<1>3. /\ ShownOK(c, from.shown) /\ from.limit \in Limits
      /\ Len(from.shown) > 0 /\ from.cursor = Encode(from.shown[Len(from.shown)])
      /\ \A t \in from.known :
            /\ t \in trades /\ t.client = c
            /\ Settled(t, from.shown, from.ends) \/ PastCursor(t, from.cursor)
  BY <1>1, <1>2 DEF TraversalOK, CursorOK, KnownOK
<1>4. Resumable(c, from)
  BY <1>1, <1>2, <1>3 DEF Resumable, Traversals
<1> QED
  BY <1>1, <1>2, <1>4, PageStep

\* Nothing done to the table disturbs a traversal as long as rows stay.
LEMMA TableStep ==
    ASSUME IInv, RowsOK', trades \subseteq trades', UNCHANGED paging
    PROVE  IInv'
<1>1. ASSUME NEW c \in Clients PROVE TraversalOK(c, paging[c])'
  <2>1. /\ ShownOK(c, paging[c].shown) /\ CursorOK(paging[c])
        /\ KnownOK(c, paging[c]) /\ DoneOK(paging[c])
    BY DEF IInv, TraversalOK
  <2>2. KnownOK(c, paging[c])'
    BY <2>1 DEF KnownOK
  <2> QED
    BY <2>1, <2>2 DEF TraversalOK
<1> QED
  BY <1>1 DEF IInv

LEMMA NextStep == IInv /\ [Next]_vars => IInv'
<1> SUFFICES ASSUME IInv, [Next]_vars PROVE IInv'
  OBVIOUS
<1>1. RowsOK
  BY DEF IInv
<1>2. ASSUME NEW id \in Ids, NEW c \in Clients, Begin(id, c) PROVE IInv'
  <2> DEFINE row == [id |-> id, client |-> c, at |-> now]
  <2>1. /\ \A t \in open \cup trades : t.id # id
        /\ open' = open \cup {row} /\ now' = now /\ trades' = trades /\ paging' = paging
    BY <1>2 DEF Begin
  <2>2. row \in Rows /\ row.id = id
    BY <1>1 DEF RowsOK, Rows
  <2> HIDE DEF row
  <2>3. RowsOK'
    BY <1>1, <2>1, <2>2 DEF RowsOK
  <2> QED
    BY <2>1, <2>3, TableStep
<1>3. ASSUME NEW t \in open, Commit(t) PROVE IInv'
  <2>1. /\ open' = open \ {t} /\ trades' = trades \cup {t}
        /\ now' = now /\ paging' = paging
    BY <1>3 DEF Commit
  <2>2. IsFiniteSet(trades')
    BY <1>1, <2>1, FS_AddElement DEF RowsOK
  <2>3. RowsOK'
    BY <1>1, <2>1, <2>2 DEF RowsOK
  <2> QED
    BY <2>1, <2>3, TableStep
<1>4. CASE Advance
  <2>1. now' \in Instants /\ open' = open /\ trades' = trades /\ paging' = paging
    BY <1>4 DEF Advance
  <2>2. RowsOK'
    BY <1>1, <2>1 DEF RowsOK
  <2> QED
    BY <2>1, <2>2, TableStep
<1>5. CASE UNCHANGED vars
  <2>1. now' = now /\ open' = open /\ trades' = trades /\ paging' = paging
    BY <1>5 DEF vars
  <2>2. RowsOK'
    BY <1>1, <2>1 DEF RowsOK
  <2> QED
    BY <2>1, <2>2, TableStep
<1> QED
  BY <1>2, <1>3, <1>4, <1>5, FirstPageStep, LoadMoreStep DEF Next, Terminated

LEMMA InitHolds == Init => IInv
<1> SUFFICES ASSUME Init PROVE IInv
  OBVIOUS
<1>1. /\ now \in Instants /\ open = {} /\ trades = {}
      /\ paging = [c \in Clients |-> NotPaging]
  BY DEF Init
<1>2. RowsOK
  BY <1>1, FS_EmptySet DEF RowsOK
<1>3. \A c \in Clients : TraversalOK(c, NotPaging)
  BY NotPagingIs DEF TraversalOK, ShownOK, CursorOK, KnownOK, DoneOK
<1> QED
  BY <1>1, <1>2, <1>3, NotPagingIs DEF IInv

LEMMA Invariance == Spec => []IInv
BY InitHolds, NextStep, PTL DEF Spec

-----------------------------------------------------------------------------
(* What the pages promise.                                                 *)

\* TypeOK: every variable keeps its shape, a cursor among them that of a
\* row of the table or the one that ends a traversal.
THEOREM TypesOK == Spec => []TypeOK
<1>1. IInv => TypeOK
  <2> SUFFICES ASSUME IInv PROVE TypeOK
    OBVIOUS
  <2>1. now \in Instants /\ open \subseteq Rows /\ trades \subseteq Rows
    BY DEF IInv, RowsOK
  <2>2. \A c \in Clients : paging[c] \in Traversals
    BY DEF IInv
  <2> QED
    BY <2>1, <2>2 DEF TypeOK, Traversals
<1> QED
  BY <1>1, Invariance, PTL

\* NewestFirstOnce: getTradeHistory's pages, put one after another, are the
\* client's own trades from the newest to the oldest, each at most once,
\* whatever commits between two pages and whatever limit was asked for.
THEOREM PagesAreInOrder == Spec => []NewestFirstOnce
<1>1. IInv => NewestFirstOnce
  <2> SUFFICES ASSUME IInv, NEW c \in Clients
               PROVE  LET shown == paging[c].shown IN
                      /\ \A i \in DOMAIN shown : shown[i].client = c
                      /\ \A i, j \in DOMAIN shown : i < j => Older(shown[i], shown[j])
    BY DEF NewestFirstOnce
  <2>1. paging[c].shown \in Seq(Rows) /\ ShownOK(c, paging[c].shown)
    BY DEF IInv, TraversalOK, Traversals
  <2>2. DOMAIN paging[c].shown = 1 .. Len(paging[c].shown)
    BY <2>1
  <2> QED
    BY <2>1, <2>2 DEF ShownOK
<1> QED
  BY <1>1, Invariance, PTL

\* MissesAreWithinAMillisecond: encodeCursor drops the microseconds of
\* created_at, and this is all that it costs: a trade that was there when the
\* traversal started and that no page shows was made in the same millisecond
\* as the last row of some page, and is older than that row.
THEOREM MissesAreClose == Spec => []MissesAreWithinAMillisecond
<1>1. IInv => MissesAreWithinAMillisecond
  <2> SUFFICES ASSUME IInv, NEW c \in Clients, paging[c].done, NEW t \in paging[c].known
               PROVE  \/ t \in ToSet(paging[c].shown)
                      \/ \E e \in paging[c].ends : Missed(t, e)
    BY DEF MissesAreWithinAMillisecond, Missed
  <2>1. KnownOK(c, paging[c]) /\ paging[c].shown \in Seq(Rows)
    BY DEF IInv, TraversalOK, Traversals
  <2>2. paging[c].cursor = NoCursor
    BY DEF DoneOK, IInv, TraversalOK
  <2>3. \/ \E i \in 1 .. Len(paging[c].shown) : paging[c].shown[i] = t
        \/ \E e \in paging[c].ends : Missed(t, e)
    BY <2>1, <2>2 DEF KnownOK, Settled
  <2> QED
    BY <2>1, <2>3 DEF ToSet
<1> QED
  BY <1>1, Invariance, PTL

=============================================================================
