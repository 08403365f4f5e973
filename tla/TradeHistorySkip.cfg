SPECIFICATION Spec
CONSTANTS
    alice = alice
    bob = bob
    Clients = {alice}
    Ids = {1, 2}
    Micros = 2
    Instants = {4, 5}
    Limits = {1}
INVARIANTS
    NothingIsSkipped
