SPECIFICATION FairSpec
CONSTANTS
    Tasks = {expire}
    CronTask = backup
    Registered = {expire}
    RetryOnFail = {expire}
    RetryBase = 1
    RetryMax = 2
    Window = 2
    MaxGap = 2
    Slots = {w1, w2}
    Faults = TRUE
    Api = {"run", "enable", "disable"}
    MaxTime = 4
    ScheduleNext <- MCScheduleNext
INVARIANTS IInv NoOverlap RunningExact NextRunHorizon
PROPERTIES LastRunKept DueRuns StopReturns
