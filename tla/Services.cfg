SPECIFICATION ServicesSpec
CONSTANTS
    MonitorConfigs <- MCMonitorConfigs
    AttemptCap = 2
    ConfTokens = {"a", "b", "c", "d", "e", "f", "g"}
    MaxEdits = 2
    MaxFailures = 1
    Inst = {"i1", "i2"}
    Pids = {1, 2, 3}
    MaxLaunches = 3
    Notices = {1, 2, 3}
    Host <- OneHost
    Backoffs = 1
    LogWindow = 2
    HooksMaxTime = 3
PROPERTIES MonitorSound ConfigFollowed ProcessSound HooksSound
CHECK_DEADLOCK FALSE
