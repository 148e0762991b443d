SPECIFICATION Spec
CONSTANTS
    Workflows <- OnlyReview
    Handlers = {h1, h2}
    Direct = FALSE
    Patient = TRUE
    MaxReworks = 1
    MaxRequests = 6
    MaxFaults = 0
INVARIANT
    CancelAsksNothing
CHECK_DEADLOCK FALSE
