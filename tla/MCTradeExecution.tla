-------------------------- MODULE MCTradeExecution --------------------------
(***************************************************************************)
(* Small instances of TradeExecution: a BUY and a SELL of the symbol it     *)
(* buys, on one account; or two SELLs of the one lot that is held.         *)
(***************************************************************************)
EXTENDS TradeExecution
CONSTANTS buy, sell, again, main, bought, sold

OneAccountOf == [t \in Trades |-> main]
MCSymbolOf == [t \in Trades |-> IF t = buy THEN bought ELSE sold]
OneSymbolOf == [t \in Trades |-> bought]
SoldSymbolOf == [t \in Trades |-> sold]
MCSide == [t \in Trades |-> IF t = buy THEN "BUY" ELSE "SELL"]
MCInitPos ==
    [a \in Accounts |-> [s \in Symbols |->
        IF s = sold /\ \E t \in Trades : Side[t] = "SELL" /\ AccountOf[t] = a
        THEN 1 ELSE 0]]
==============================================================================
