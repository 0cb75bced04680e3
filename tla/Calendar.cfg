SPECIFICATION Spec
CONSTANTS
    Start <- MCStart
    MaxTicks = 160
    Day = 8
    Offset = 1
    Period = 2
    Lead = 5
    MaxOutage = 16
    MaxMissed = 1
INVARIANTS
    TypeOK
    WindowExact
    CodeInTime
\* the bound on time ends every behaviour
CHECK_DEADLOCK FALSE
