SPECIFICATION FairSpec
CONSTANTS
    g1 = g1
    g2 = g2
    u1 = u1
    u2 = u2
    n1 = n1
    n2 = n2
    s1 = s1
    s2 = s2
    s3 = s3
    NoNote = NoNote
    NoUser = NoUser
    Gateways = {g1, g2}
    Users = {u1, u2}
    Leavers = {u1}
    Notes = {n1, n2}
    RecipientOf <- OneEach
    MaxAttempts = 2
    Batch = 2
    Faults = {"crash", "db", "slow", "answer"}
    MaxFaults = 1
    Steps = {s1, s2, s3}
    Rank <- MutedFirst
    AssigneesOf <- BothUsers
    Muted = {s1}
    StepBatch = 1
    Workloads <- Mixed
INVARIANTS
    TypeOK
    BoundedAttempts
    NoDuplicateStorm
    OutcomeIsTrue
    MarkedMeansTold
    NoDrip
PROPERTIES
    SettledMovesInFlight
    NeverASilentGap
    DueIsReminded
CHECK_DEADLOCK FALSE
