SPECIFICATION Spec
CONSTANTS
    Replicas = {r1, r2}
    Minute = 2
    Plans <- EveryMinute
    Policy = "skip"
    MaxTime = 7
    MaxEdits = 0
    MaxFaults = 0
INVARIANT
    FireOncePerDue
CHECK_DEADLOCK FALSE
