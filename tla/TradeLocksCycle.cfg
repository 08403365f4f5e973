SPECIFICATION Spec
CONSTANTS
    alice = alice
    bob = bob
    q1 = q1
    q2 = q2
    q3 = q3
    q4 = q4
    k1 = k1
    k2 = k2
    k3 = k3
    r1 = r1
    r2 = r2
    r3 = r3
    NoReq = NoReq
    Clients = {alice}
    Currencies = {1, 2, 3, 4, 5}
    QuoteIds = {q1, q2, q3, q4}
    Keys = {k1, k2, k3}
    Reqs = {r1, r2}
    Terms <- ProgressTerms
    Calls <- RowCalls
    Funding <- ProgressFunding
    MaxMinor = 3
    PoolSize = 2
    ErrorShapes = {"bare", "wrapped"}
INVARIANTS
    NoWaitCycle
