SPECIFICATION CronSpec
CONSTANTS
    Minutes = 2
    Hours = 4
    Months = 2
    Weekdays = 3
    Calendar <- FallBack
    CronLimit = 80
    CronExprs <- MCExprs
PROPERTIES NextReturns
CHECK_DEADLOCK FALSE
