SPECIFICATION Spec
CONSTANTS
    Reader = {r1}
    MaxLogs = 7
    PageSize = 2
    MaxEntries = 9
    MaxTime = 1
INVARIANTS
    TypeOK
    NoneSkipped
    SummaryExact
\* the bounds on entries and time end every behaviour
CHECK_DEADLOCK FALSE
