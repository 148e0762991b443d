SPECIFICATION AttendedSpec
CONSTANTS
    Workflows <- Sequential
    Handlers = {h1}
    Direct = FALSE
    Patient = TRUE
    MaxReworks = 1
    MaxRequests = 0
    MaxFaults = 0
INVARIANTS
    TypeOK
    RunningHasWork
    JoinWaits
    PendingIsReachable
    RecordFollowsRun
    ExecutionMirrors
PROPERTIES
    RoutedIsNotSkipped
    RunEnds
CHECK_DEADLOCK FALSE
