SPECIFICATION BreakerSpec
CONSTANTS
    MaxValue = 3
    MaxDrawdown = 40
    MaxDailyLoss = 30
PROPERTIES HaltedUntilReset
CHECK_DEADLOCK FALSE
