SPECIFICATION FairSpec
CONSTANTS
    alice = alice
    bob = bob
    q1 = q1
    g1 = g1
    g2 = g2
    Clients = {alice, bob}
    Quotes = {q1}
    Owner <- MCOwner
    Gets = {g1, g2}
    Lifetime = 2
    Outages = TRUE
    Corruptions = {"unparsable", "misshapen"}
INVARIANTS
    TypeOK
    ExecutedIsNeverPremature
PROPERTIES
    LapsedIsNeverShownActive
    StaleCopyHeals
