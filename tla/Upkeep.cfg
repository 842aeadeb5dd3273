SPECIFICATION UpkeepSpec
CONSTANTS
    Kinds = {"tor", "i2pd", "sam"}
    MaxDeaths = 2
    MaxStartFailures = 1
    MaxNewKeys = 1
    Channel <- Channels
    TagIsVersion <- PlainTags
    Version <- Versions
    Branches = {"stable", "beta"}
    DeferDays = 1
    UpdateMaxDay = 1
    MaxUpdateFailures = 1
    Minutes = 2
    Hours = 4
    Months = 2
    Weekdays = 3
    Calendar <- PlainYears
    CronLimit = 80
    CronExprs <- MCExprs
    Databases <- TwoDBs
    Lookups = {"l1", "l2"}
    MaxReleases = 2
    MaxUpdates = 2
PROPERTIES HiddenSound UpdaterSound CronSound GeoSound
CHECK_DEADLOCK FALSE
