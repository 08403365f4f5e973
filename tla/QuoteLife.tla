----------------------------- MODULE QuoteLife ------------------------------
(***************************************************************************)
(* The life of a quote, as every part of the system takes it to be: it is  *)
(* issued ACTIVE, it may lapse at any time, and it is EXECUTED at most     *)
(* once, by somebody who took hold of it before it lapsed.  EXPIRED is not *)
(* a status of the row.  TradeExecution implements this, and TradingApi,   *)
(* the API as the web client meets it, is written over it.                 *)
(***************************************************************************)
CONSTANT Quotes

VARIABLES
    status,     \* [Quotes -> {"ABSENT", "ACTIVE", "EXECUTED"}]
    lapsed,     \* the quotes whose expires_at has passed
    held        \* the quotes that an execution has locked and found good

life == <<status, lapsed, held>>

Init ==
    /\ status = [q \in Quotes |-> "ABSENT"]
    /\ lapsed = {}
    /\ held = {}

\* expires_at is computed before the row is inserted and may have passed.
Issue(q) ==
    /\ status[q] = "ABSENT"
    /\ status' = [status EXCEPT ![q] = "ACTIVE"]
    /\ lapsed' \in {lapsed, lapsed \cup {q}}
    /\ UNCHANGED held

Lapse(late) ==
    /\ late # {} /\ \A q \in late : status[q] # "ABSENT" /\ q \notin lapsed
    /\ lapsed' = lapsed \cup late
    /\ UNCHANGED <<status, held>>

Hold(q) ==
    /\ status[q] = "ACTIVE" /\ q \notin lapsed /\ q \notin held
    /\ held' = held \cup {q}
    /\ UNCHANGED <<status, lapsed>>

\* Executions are given up, all at once when the process dies.
Release(gone) ==
    /\ gone # {} /\ gone \subseteq held
    /\ held' = held \ gone
    /\ UNCHANGED <<status, lapsed>>

\* The execution need not end before expires_at.
Settle(q) ==
    /\ q \in held
    /\ status' = [status EXCEPT ![q] = "EXECUTED"]
    /\ held' = held \ {q}
    /\ UNCHANGED lapsed

Next ==
    \/ \E q \in Quotes : Issue(q) \/ Hold(q) \/ Settle(q)
    \/ \E some \in SUBSET Quotes : Lapse(some) \/ Release(some)

Spec == Init /\ [][Next]_life
=============================================================================
