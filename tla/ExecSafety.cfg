CONSTANTS
    buy = buy
    sell = sell
    again = again
    main = main
    bought = bought
    sold = sold
    Trades = {buy, sell}
    Accounts = {main}
    Symbols = {bought}
    AccountOf <- OneAccountOf
    SymbolOf <- OneSymbolOf
    Side <- MCSide
    Bracket = {buy}
    ReadOnly = {main}
    InitPos <- MCInitPos
    MaxCrashes = 1
SPECIFICATION Spec
INVARIANTS TypeOK OrderIsRecorded IdsTraceable FilledBuyIsReal PlainLedgerExact
PROPERTY EndsAreLegal
CHECK_DEADLOCK FALSE
