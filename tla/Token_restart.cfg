SPECIFICATION FairSpec
CONSTANTS
    Watchdog = w
    Api = {a1}
    Period = 2
    Margin = 8
    Lifetime = 11
    CallTime = 2
    MaxFails = 1
    MayCrash = TRUE
PROPERTY
    KeptUnlessTorn
