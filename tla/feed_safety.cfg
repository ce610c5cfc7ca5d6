SPECIFICATION Spec
CONSTANTS
    m1 = m1
    m2 = m2
    Markets = {m1, m2}
    QueueMax = 2
    MaxDrops = 2
    MaxFaults = 1
    MaxReconciles = 2
INVARIANTS TypeOK RecoveringBooksDoNotServe LossesStopFills
SYMMETRY MCSymmetry
CHECK_DEADLOCK FALSE
