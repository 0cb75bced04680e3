SPECIFICATION Spec
CONSTANTS
    c1 = c1
    c2 = c2
    v1 = v1
    v2 = v2
    w1 = w1
    b1 = b1
    a1 = a1
    w2 = w2
    b2 = b2
    p1 = p1
    p2 = p2
    NoJob = NoJob
    Cycle = {c1, c2}
    Invoice = {}
    OutboxTask = {w1}
    BootTask = {b1}
    ApiTask = {}
    Process = {p1}
    CycleOf <- MCCycleOf
    ProcOf <- MCProcOf
    Limit <- MCLimit
    MaxAttempts = 2
    MayCrash = TRUE
    DbMayFail = TRUE
INVARIANTS
    TypeOK
    DoneMeansApplied
    CodeIsGranted
    RetryBudget
PROPERTIES
    DoneReopenedOnlyByOverlap
    LifecycleSpec
