SPECIFICATION Spec
CONSTANTS
    Jobs <- MCJobs
    TTL = 1
    MaxTime = 2
    MaxServing = 2
    MaxRefused = 1
    MaxFaults = 1
INVARIANTS TypeOK FilesAreOwned
PROPERTIES CancelIsHonoured JobsFinish
CHECK_DEADLOCK FALSE
