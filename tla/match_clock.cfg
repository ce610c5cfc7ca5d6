SPECIFICATION Spec
CONSTANTS
    e1 = e1
    e2 = e2
    None = None
    Events <- MCEvents
    Course <- MCCourse
    SecondHalf = 2
    MinMinute = 3
    MaxAge = 1
    MaxResponse = 1
    MaxLag = 1
    MaxTime = 3
    MaxRows = 2
    MaxFaults = 1
INVARIANTS TypeOK AcceptedHasLineage AcceptedIsCurrent CoverageAgreesWithGate
CHECK_DEADLOCK FALSE
