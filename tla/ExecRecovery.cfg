CONSTANTS
    buy = buy
    sell = sell
    again = again
    main = main
    bought = bought
    sold = sold
    Trades = {buy}
    Accounts = {main}
    Symbols = {bought, sold}
    AccountOf <- OneAccountOf
    SymbolOf <- MCSymbolOf
    Side <- MCSide
    Bracket = {buy}
    ReadOnly = {main}
    InitPos <- MCInitPos
    MaxCrashes = 1
SPECIFICATION RecoverySpec
PROPERTIES ImplementsGate CallsReturn PendingRowsClosed
CHECK_DEADLOCK FALSE
