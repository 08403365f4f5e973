SPECIFICATION Spec
CONSTANTS
    MaxQuotes = 2
    MaxDeposits = 1
INVARIANTS
    TypeOK
    RetriesAreRecognised
    ShownTradeHappened
    HonestUnlessOverlapped
    ShownBalanceIsFresh
