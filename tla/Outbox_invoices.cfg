SPECIFICATION FairSpec
CONSTANTS
    c1 = c1
    c2 = c2
    v1 = v1
    v2 = v2
    w1 = w1
    b1 = b1
    a1 = a1
    w2 = w2
    b2 = b2
    p1 = p1
    p2 = p2
    NoJob = NoJob
    Cycle = {c1}
    Invoice = {v1, v2}
    OutboxTask = {}
    BootTask = {b1}
    ApiTask = {a1}
    Process = {p1}
    CycleOf <- MCCycleOf
    ProcOf <- MCProcOf
    Limit <- MCLimit
    MaxAttempts = 2
    MayCrash = FALSE
    DbMayFail = FALSE
INVARIANTS
    ProcessingIsHeld
    EveryInvoiceQueued
    IssuedUnderCode
PROPERTIES
    LifecycleSpec
    CyclesPreloaded
    InvoicesSettled
