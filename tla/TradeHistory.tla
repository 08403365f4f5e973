---------------------------- MODULE TradeHistory ----------------------------
(***************************************************************************)
(* TradesService.getTradeHistory: keyset pagination over the trades of a   *)
(* client while others are being committed.  created_at is now() of the    *)
(* transaction, the time it BEGAN, in microseconds; a cursor carries it as *)
(* a JavaScript Date, in milliseconds.  A traversal is what the trade      *)
(* history page does: the first page, then nextCursor until it is null.    *)
(***************************************************************************)
EXTENDS Integers, FiniteSets, SequencesExt

CONSTANTS
    Clients,
    Ids,            \* trade ids, numbered in the order of uuid comparison
    Micros,         \* microseconds to a millisecond
    Instants,       \* the microseconds in which transactions begin
    Limits          \* values of ?limit=

ASSUME IdsAssumption == Ids \subseteq Nat
ASSUME MicrosAssumption == Micros \in Nat \ {0}
ASSUME InstantsAssumption == Instants \subseteq Nat
ASSUME LimitsAssumption == Limits \subseteq Nat \ {0}

VARIABLES
    now,
    open,           \* rows of transactions that have not committed
    trades,         \* rows of trades
    paging          \* per client, its traversal

vars == <<now, open, trades, paging>>

Rows == [id: Ids, client: Clients, at: Instants]
NoCursor == [at |-> -1, id |-> -1]
Cursors == [at: Nat, id: Ids] \cup {NoCursor}

\* known: the client's trades when the first page was asked for; ends: the
\* rows that the pages so far ended with; shown: the rows, page after page.
NotPaging == [limit |-> 0, cursor |-> NoCursor, known |-> {}, ends |-> {},
              shown |-> <<>>, done |-> FALSE]

Init ==
    /\ now \in Instants
    /\ open = {}
    /\ trades = {}
    /\ paging = [c \in Clients |-> NotPaging]

-----------------------------------------------------------------------------
(* executeTrade, as its rows are seen from here.                           *)

Begin(id, client) ==
    /\ \A t \in open \cup trades : t.id # id
    /\ open' = open \cup {[id |-> id, client |-> client, at |-> now]}
    /\ UNCHANGED <<now, trades, paging>>

Commit(t) ==
    /\ t \in open
    /\ open' = open \ {t}
    /\ trades' = trades \cup {t}
    /\ UNCHANGED <<now, paging>>

Advance ==
    /\ \E i \in Instants :
          /\ i > now /\ now' = i
          /\ \A j \in Instants : j > now => i <= j
    /\ UNCHANGED <<open, trades, paging>>

-----------------------------------------------------------------------------
(* getTradeHistory.                                                        *)

\* Bug: the cursor keeps less than the milliseconds.
TruncatedCoarsely(at) == (at \div (2 * Micros)) * 2 * Micros

\* toISOString() of a Date: the milliseconds, written again as microseconds.
Truncated(at) == (at \div Micros) * Micros

\* Bug: the cursor is the time alone.
EncodeTime(t) == [at |-> Truncated(t.at), id |-> -1]

Encode(t) == [at |-> Truncated(t.at), id |-> t.id]

Before(at, id, cursor) == at < cursor.at \/ (at = cursor.at /\ id < cursor.id)

\* Bug: the comparison admits the row of the cursor.
FromCursor(t, cursor) ==
    \/ cursor = NoCursor
    \/ Before(t.at, t.id, cursor)
    \/ t.at = cursor.at /\ t.id = cursor.id

PastCursor(t, cursor) == cursor = NoCursor \/ Before(t.at, t.id, cursor)

\* ORDER BY created_at DESC, id DESC
Older(t, u) == Before(u.at, u.id, t)

Matching(client, cursor) ==
    {t \in trades : t.client = client /\ PastCursor(t, cursor)}

\* LIMIT n: a row comes after as many as are newer.
Newest(n, rows) ==
    [i \in 1 .. (IF Cardinality(rows) < n THEN Cardinality(rows) ELSE n) |->
        CHOOSE t \in rows : Cardinality({u \in rows : Older(u, t)}) = i - 1]

\* LIMIT limit + 1, and whether the extra row is there.
Page(client, limit, cursor) ==
    LET rows == Newest(limit + 1, Matching(client, cursor))
        hasMore == Len(rows) > limit
        page == IF hasMore THEN SubSeq(rows, 1, limit) ELSE rows
    IN  [rows |-> page,
         next |-> IF hasMore THEN Encode(Last(page)) ELSE NoCursor]

Show(client, from, page) ==
    paging' = [paging EXCEPT ![client] =
                 [from EXCEPT !.shown = @ \o page.rows,
                              !.cursor = page.next,
                              !.ends = IF page.next = NoCursor THEN @
                                       ELSE @ \cup {Last(page.rows)},
                              !.done = page.next = NoCursor]]

FirstPage(client, limit) ==
    /\ paging[client] = NotPaging
    /\ Show(client,
            [NotPaging EXCEPT !.limit = limit,
                              !.known = {t \in trades : t.client = client}],
            Page(client, limit, NoCursor))
    /\ UNCHANGED <<now, open, trades>>

LoadMore(client) ==
    /\ paging[client].cursor # NoCursor
    /\ Show(client, paging[client],
            Page(client, paging[client].limit, paging[client].cursor))
    /\ UNCHANGED <<now, open, trades>>

-----------------------------------------------------------------------------
Terminated ==
    /\ \A c \in Clients : paging[c].done
    /\ UNCHANGED vars

Next ==
    \/ \E id \in Ids, c \in Clients : Begin(id, c)
    \/ \E t \in open : Commit(t)
    \/ Advance
    \/ \E c \in Clients, limit \in Limits : FirstPage(c, limit)
    \/ \E c \in Clients : LoadMore(c)
    \/ Terminated

Spec == Init /\ [][Next]_vars

-----------------------------------------------------------------------------
\* Every variable keeps its shape.
TypeOK ==
    /\ now \in Instants
    /\ open \subseteq Rows /\ trades \subseteq Rows
    /\ \A c \in Clients :
         LET p == paging[c] IN
         /\ p.limit \in Limits \cup {0}
         /\ p.cursor \in Cursors
         /\ p.known \subseteq Rows /\ p.ends \subseteq Rows
         /\ p.shown \in Seq(Rows)
         /\ p.done \in BOOLEAN

\* Across its pages a traversal shows the client's own trades from the
\* newest to the oldest, none of them twice, whatever commits meanwhile.
NewestFirstOnce ==
    \A c \in Clients :
        LET shown == paging[c].shown IN
        /\ \A i \in DOMAIN shown : shown[i].client = c
        /\ \A i, j \in DOMAIN shown : i < j => Older(shown[i], shown[j])

\* A trade that was there when the traversal started can be missed only if
\* it was made within the millisecond of a row that a page ended with, and
\* no later than that row.
MissesAreWithinAMillisecond ==
    \A c \in Clients : paging[c].done =>
        \A t \in paging[c].known :
            \/ t \in ToSet(paging[c].shown)
            \/ \E e \in paging[c].ends :
                 t # e /\ t.at \div Micros = e.at \div Micros /\ Older(e, t)

\* A traversal shows every trade that was there when it started.
NothingIsSkipped ==
    \A c \in Clients : paging[c].done =>
        paging[c].known \subseteq ToSet(paging[c].shown)
=============================================================================
