SPECIFICATION FairSpec
CONSTANTS
    Replicas = {r1}
    Minute = 2
    Plans <- SomePlans
    Policy = "skip"
    MaxTime = 7
    MaxEdits = 2
    MaxFaults = 1
INVARIANTS
    TypeOK
    FireOncePerDue
    IndexSwallowsNothing
    NoOverlap
PROPERTY
    KeepsGoing
CHECK_DEADLOCK FALSE
