SPECIFICATION FairSpec
CONSTANTS
    Configs = {c1, c2}
    Pollers = {p1}
    Requests = {r1}
    NoTime = NoTime
    Starts <- NewOrUnscheduled
    Targets = 1
    Interval = 1
    BatchSize = 1
    Horizon = 1
    MaxEdits = 1
    MaxFaults = 1
CHECK_DEADLOCK FALSE
INVARIANTS
    TypeOK
    OneRunPerOccurrence
PROPERTIES
    SealedStaysSealed
    AdvanceIsRecorded
    PauseHolds
    DueIsServed
