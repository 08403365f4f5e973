SPECIFICATION Spec
CONSTANTS
    alice = alice
    bob = bob
    Clients = {alice, bob}
    Ids = {1, 2, 3}
    Micros = 2
    Instants = {4, 5, 6}
    Limits = {1, 2}
INVARIANTS
    TypeOK
    NewestFirstOnce
    MissesAreWithinAMillisecond
