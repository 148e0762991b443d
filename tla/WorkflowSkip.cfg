SPECIFICATION Spec
CONSTANTS
    Workflows <- OnlyRejectJoins
    Handlers = {h1}
    Direct = FALSE
    Patient = TRUE
    MaxReworks = 1
    MaxRequests = 0
    MaxFaults = 0
PROPERTY
    RoutedIsNotSkipped
CHECK_DEADLOCK FALSE
