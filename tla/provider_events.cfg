SPECIFICATION Spec
CONSTANTS
    e1 = e1
    goal = goal
    sub = sub
    undone = undone
    None = None
    Events <- MCEvents
    Course <- MCCourse
    MaxFaults = 2
INVARIANTS TypeOK CorrectionsAreLinked FaultsCostOneEach
PROPERTIES WindowsAreFinished
CHECK_DEADLOCK FALSE
