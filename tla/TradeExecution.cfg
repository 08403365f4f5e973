SPECIFICATION Spec
CONSTANTS
    alice = alice
    bob = bob
    q1 = q1
    q2 = q2
    q3 = q3
    q4 = q4
    k1 = k1
    k2 = k2
    k3 = k3
    r1 = r1
    r2 = r2
    r3 = r3
    NoReq = NoReq
    Clients = {alice, bob}
    Currencies = {1, 2}
    QuoteIds = {q1, q2}
    Keys = {k1, k2}
    Reqs = {r1, r2, r3}
    Terms <- MCTerms
    Calls <- MCCalls
    Funding <- MCFunding
    MaxMinor = 3
    PoolSize = 2
    ErrorShapes = {"bare", "wrapped"}
SYMMETRY MCSymmetry
INVARIANTS
    TypeOK
    BalanceIsLedgerSum
    Solvent
    ExecutedOnce
    KeyNamesOneTrade
    TradesAreBooked
    SuccessIsBacked
    RefusalLeavesNoTrace
    CycleMembersAreDoomed
    IInv
PROPERTIES
    ImplementsSettlement
    ImplementsQuoteLife
