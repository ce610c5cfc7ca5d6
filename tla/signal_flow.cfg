SPECIFICATION Spec
CONSTANTS
    a = a
    b = b
    Markets <- MCMarkets
    Conf = 1
    MaxAge = 0
    Wait = 1
    Cooldown = 1
    Lockout = 2
    Latency = 0
    Retry = 1
    LateOnly = FALSE
    Sweepers <- MCSweepers
    MaxLag = 1
    MaxTime = 2
    MaxBursts <- MCMaxBursts
    BurstSigns <- MCBurstSigns
    MaxEpisodes = 3
    MaxRefusals = 1
    MaxFaults = 1
INVARIANTS TypeOK PendingIsUnconfirmed EpisodesAreDecidedOnce
PROPERTIES LockoutHolds PendingIsRecorded
CHECK_DEADLOCK FALSE
