SPECIFICATION Spec
CONSTANTS
    MaxDay = 2
    MaxVer = 2
    MaxBackups = 1
    KeepOf <- NoTiers
    TierDays <- Calendar
    SizeCap = 0
    CleanKeep = 1
    Jobs = {"daily"}
    MaxBusy = 1
    Faults = FALSE
    RemovesFail = FALSE
INVARIANTS VerifiedBackupKept
