SPECIFICATION FairSpec
CONSTANTS
    g1 = g1
    g2 = g2
    q1 = q1
    q2 = q2
    q3 = q3
    q4 = q4
    m1 = m1
    m2 = m2
    c1 = c1
    c2 = c2
    Gateways = {g1, g2}
    Requests = {q1, q2, q3, q4}
    GatewayOf <- TwoGateways
    Metrics = {m1, m2}
    Cells = {c1, c2}
    Workloads <- Mixed
    Keep = 0
    Faults = {"crash", "db", "timeout", "panic"}
    MaxFaults = 1
INVARIANTS
    TypeOK
    Recalculated
    ErrorReachesAll
    DirtyOutlivesGateway
    GapCloses
PROPERTIES
    NeverStaler
    KeepsPromise
    EveryRequestReturns
CHECK_DEADLOCK FALSE
