SPECIFICATION Spec
CONSTANTS
    s1 = s1
    s2 = s2
    Signals = {s1, s2}
    MaxTracked = 1
    FlushEvery = 2
    MaxSamples = 4
    MaxQuotes = 4
    MaxFaults = 2
    MaxCrashes = 1
INVARIANTS TypeOK RowsAreOwned LabelsAreTrue OneFinalization
PROPERTIES PathsAreFinalized
CHECK_DEADLOCK FALSE
