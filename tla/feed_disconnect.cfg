SPECIFICATION Spec
CONSTANTS
    m1 = m1
    m2 = m2
    Markets = {m1}
    QueueMax = 2
    MaxDrops = 0
    MaxFaults = 1
    MaxReconciles = 0
INVARIANTS MissedFramesStopFills
CHECK_DEADLOCK FALSE
