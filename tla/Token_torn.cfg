SPECIFICATION FairSpec
CONSTANTS
    Watchdog = w
    Api = {}
    Period = 3
    Margin = 8
    Lifetime = 10
    CallTime = 1
    MaxFails = 1
    MayCrash = TRUE
PROPERTY
    TicketKept
