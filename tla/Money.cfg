SPECIFICATION Spec
CONSTANTS
    Precision = 3
    Decimals = 1
    ToExpNeg <- MCToExpNeg
    MaxMinor = 99
    Amounts <- MCAmounts
    Prices <- MCPrices
CHECK_DEADLOCK FALSE
INVARIANTS
    TypeOK
    RoundedForTheHouseWhenItFits
    OffByAtMostOne
    AcceptedAsWritten
    ShownAmountReadsBack
