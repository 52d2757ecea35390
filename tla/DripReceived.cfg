SPECIFICATION DripSpec
CONSTANTS
    MaxShares = 2
    MaxPerShare = 2
    MaxReceived = 3
    MaxSlips = 0
INVARIANTS OnlyReceived
CHECK_DEADLOCK FALSE
