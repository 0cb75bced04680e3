SPECIFICATION Spec
CONSTANTS
    Watchdog = w
    Api = {a1, a2}
    Period = 5
    Margin = 15
    Lifetime = 18
    CallTime = 2
    MaxFails = 1
    MayCrash = FALSE
INVARIANTS
    TypeOK
    NeverLapses
PROPERTY
    SavedIsFresh
