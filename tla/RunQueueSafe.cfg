SPECIFICATION Spec
CONSTANTS
    w1 = w1
    w2 = w2
    g1 = g1
    a1 = a1
    a2 = a2
    b1 = b1
    c1 = c1
    Procs <- WorkerProcs
    Gateways = {}
    Slots <- WorkerSlots
    ProcOf <- WorkerProcOf
    Jobs <- WorkerJobs
    MaxRuns = 1
    MaxPages = 2
    Faults = {"crash", "timeout", "shutdown", "claimread"}
    MaxFaults = 2
INVARIANTS
    TypeOK
    ExclusiveAttempt
    CancelOutlivesWorker
    OneEventPerRun
PROPERTY
    KeepsLedger
CHECK_DEADLOCK FALSE
