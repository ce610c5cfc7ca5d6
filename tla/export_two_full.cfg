SPECIFICATION Spec
INVARIANTS OneFullJob
CONSTANTS
    Jobs <- MCJobs
    TTL = 1
    MaxTime = 2
    MaxServing = 2
    MaxRefused = 1
    MaxFaults = 1
CHECK_DEADLOCK FALSE
