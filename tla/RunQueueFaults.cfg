SPECIFICATION FairSpec
CONSTANTS
    w1 = w1
    w2 = w2
    g1 = g1
    a1 = a1
    a2 = a2
    b1 = b1
    c1 = c1
    Procs <- MixedProcs
    Gateways <- MixedGateways
    Slots <- MixedSlots
    ProcOf <- MixedProcOf
    Jobs <- MixedJobs
    MaxRuns = 1
    MaxPages = 2
    Faults = {"heartbeat", "crash", "timeout", "shutdown", "claimread", "db"}
    MaxFaults = 1
INVARIANT
    EffectsMatchStatus
PROPERTY
    EveryRunSettles
CHECK_DEADLOCK FALSE
