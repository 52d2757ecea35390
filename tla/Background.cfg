SPECIFICATION Spec
CONSTANTS
    Reports <- AuditReports
    Levels <- AuditLevels
    Setting = 0
    Autosell = TRUE
    MaxValue = 3
    MaxDrawdown = 40
    MaxDailyLoss = 30
    Year = 2
    MaxDeaths = 1
    MaxLogged = 3
    MaxShares = 2
    MaxPerShare = 2
    MaxReceived = 3
    MaxSlips = 2
INVARIANTS TypeOK ScreenFailsClosed ScreenNothingLoosens UnverifiedIsForgotten ClockIsEarned AlarmIsTrue LedgerCovers
PROPERTIES TaintedIsSold LossHalts DueIsSent
CHECK_DEADLOCK FALSE
