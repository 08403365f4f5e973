---------------------------- MODULE BalancesPage ----------------------------
(***************************************************************************)
(* apps/web BalancesPage: Refresh and Deposit, each disabled while its own *)
(* request is out, but not while the other's is.  POST /v1/deposits has no *)
(* idempotency key: a deposit whose answer was lost is asked for again as  *)
(* a second deposit.                                                       *)
(***************************************************************************)
EXTENDS BalanceLine

VARIABLES
    crediting,  \* whether the deposit the page waits for is yet to commit
    orphans,    \* deposits the API works on though nobody waits for them
    asked       \* bound: how often the form was submitted

balancesPage == <<crediting, orphans, asked>>

\* The POST answers with balances, too.
Posted == 1

BalancesInit == crediting = FALSE /\ orphans = 0 /\ asked = 0

Refresh ==
    /\ line.reads[OnMount] = None
    /\ line' = Asking(line, OnMount)
    /\ UNCHANGED <<api, balancesPage>>

Deposit ==
    /\ line.reads[Posted] = None
    /\ asked < MaxDeposits
    /\ asked' = asked + 1
    /\ crediting' = TRUE
    /\ line' = Asking(line, Posted)
    /\ UNCHANGED <<api, orphans>>

\* createDeposit commits, and then reads the balances of its answer.
Credit ==
    /\ crediting
    /\ crediting' = FALSE
    /\ ApiDeposit
    /\ line' = [line EXCEPT !.reads[Posted] = funds',
                            !.due = IF @ = None THEN None ELSE funds']
    /\ UNCHANGED <<orphans, asked>>

CreditOrphan ==
    /\ orphans > 0
    /\ orphans' = orphans - 1
    /\ ApiDeposit \/ UNCHANGED api
    /\ UNCHANGED <<line, crediting, asked>>

Orphaned == IF crediting THEN orphans + 1 ELSE orphans

\* A deposit is refused, or its answer is lost before or after it was made.
DepositFails ==
    /\ Fail(Posted)
    /\ crediting' = FALSE
    /\ orphans' \in {orphans, Orphaned}
    /\ UNCHANGED <<api, asked>>

BalancesStep(s) ==
    /\ \/ (s = Posted => ~crediting) /\ Arrive(s)
       \/ s = OnMount /\ Fail(s)
    /\ UNCHANGED <<api, balancesPage>>

LeaveBalances ==
    crediting' = FALSE /\ orphans' = Orphaned /\ UNCHANGED asked

\* What can happen while the page is mounted.
OnBalancesPage ==
    \/ Refresh \/ Deposit \/ Credit \/ DepositFails
    \/ \E s \in {OnMount, Posted} : BalancesStep(s)

-----------------------------------------------------------------------------
\* Every variable keeps its shape.
BalancesTypeOK ==
    crediting \in BOOLEAN /\ orphans \in Nat /\ asked \in 0 .. MaxDeposits
=============================================================================
