SPECIFICATION Spec
CONSTANTS
    Workflows <- Parallel
    Handlers = {h1, h2}
    Direct = TRUE
    Patient = FALSE
    MaxReworks = 1
    MaxRequests = 3
    MaxFaults = 1
SYMMETRY Interchangeable
INVARIANTS
    CopyOncePerRound
PROPERTIES
    DecisionStands
    EndedStays
CHECK_DEADLOCK FALSE
