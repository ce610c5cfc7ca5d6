SPECIFICATION FairSpec
CONSTANTS
    None = None
    MaxAttempts = 2
    MaxHour = 1
    MaxFrames = 2
    MaxExports = 1
    MaxFaults = 1
    MaxCrashes = 1
INVARIANTS TypeOK FramesAreKept VerifiedIsRemote
PROPERTIES RowsOnlyAdvance SegmentsAreArchived
CHECK_DEADLOCK FALSE
