SPECIFICATION FairSpec
CONSTANTS
    s1 = s1
    s2 = s2
    s3 = s3
    m1 = m1
    m2 = m2
    Signals = {s2, s3}
    Markets = {m1, m2}
    MarketOf <- MCMarketOf
    Sleeves <- MCSleeves
    MaxSize = 1
    UseStop = FALSE
    MaxFaults = 1
    MaxLoopFaults = 1
    MaxCrashes = 1
PROPERTIES OpenTradesClose PendingEntriesExecute
