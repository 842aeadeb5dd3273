SPECIFICATION Spec
CONSTANTS
    MaxDay = 3
    MaxVer = 1
    MaxBackups = 1
    KeepOf <- OneTier
    TierDays <- Calendar
    SizeCap = 1
    CleanKeep = 1
    Jobs = {"daily", "cli", "cleaner"}
    MaxBusy = 2
    Faults = TRUE
    RemovesFail = FALSE
INVARIANTS NoAccumulation
PROPERTIES RetentionLeavesNewer
