SPECIFICATION Spec
CONSTANTS
    s1 = s1
    s2 = s2
    s3 = s3
    m1 = m1
    m2 = m2
    Signals = {s1, s2}
    Markets = {m1}
    MarketOf <- MCMarketOf
    Sleeves <- MCSleeves
    MaxSize = 2
    UseStop = TRUE
    MaxFaults = 2
    MaxLoopFaults = 0
    MaxCrashes = 1
INVARIANTS TypeOK LedgerBalances DeskOwnsOpenTrades OneTradePerFill
PROPERTIES ExitOrdersPersist ImplementsLedger
