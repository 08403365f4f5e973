SPECIFICATION Spec
CONSTANTS
    shown = shown
    quoted = quoted
    Calls = {shown, quoted}
    Quotes = {quoted}
    PriceTtl = 1
    SymbolTtl = 2
    FetchTimeout = 2
    CommandTimeout = 1
    InsertTime = 1
    Stall = 1
INVARIANTS
    TypeOK
    PriceAgeIsBounded
    AnswersInTime
