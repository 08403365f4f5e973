SPECIFICATION Spec
CONSTANTS
    r1 = r1
    r2 = r2
    r3 = r3
    r4 = r4
    key1 = key1
    key2 = key2
    nokey = nokey
    Runs = {r1, r2, r3, r4}
    Currencies = {USDT, BTC}
    ApiKeys = {key1, key2}
    NoKey = nokey
    KeyOf <- MCKeyOf
    Requests = {q1}
INVARIANTS
    TypeOK
    OneFundedClient
    ReportsAreTrue
    KeyOpensItsClient
