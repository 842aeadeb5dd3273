SPECIFICATION Spec
CONSTANTS
    MaxDay = 1
    MaxVer = 3
    MaxBackups = 1
    KeepOf <- NoTiers
    TierDays <- Calendar
    SizeCap = 0
    CleanKeep = 1
    Jobs = {"daily", "hourly"}
    MaxBusy = 2
    Faults = TRUE
    RemovesFail = TRUE
INVARIANTS TypeOK RollingSound IInv
PROPERTIES RollingNeverLost
