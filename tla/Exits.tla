--------------------------------- MODULE Exits ---------------------------------
(***************************************************************************)
(* main_loop of one account over one symbol: a cycle looks at positions,   *)
(* then at open orders, follows the high-water mark, judges the exit       *)
(* rules, sells, trims what is over the limit, buys and rebalances.  The   *)
(* account's sweep, discovery and re-rating loops and the desk trade the   *)
(* symbol too, and the loops of other accounts share hwm.json,             *)
(* partial_sells.json and cooldown_sells.json with it, keyed by the symbol *)
(* alone; they and the broker get in at every await.  What everybody knows *)
(* of a position may be 30 seconds old.                                    *)
(* Prices are steps of a grid, percentages distances on it; what           *)
(* execute_trade does with an order is module TradeExecution's business.   *)
(***************************************************************************)
EXTENDS Integers

CONSTANTS
    MaxPrice,
    StopDrop,      \* stop_loss_pct below the cost
    PartialRise,   \* partial_profit_pct above it
    ProfitRise,    \* take_profit_pct above it
    TrailDrop,     \* trailing_stop_pct below the high-water mark
    Whole,         \* shares a BUY is sized to
    Foreign,       \* the symbol is listed abroad and carries a suffix
    BracketExits,  \* bracket_exits: a BUY leaves a resting SELL at the broker
    MaxWorking,    \* a SELL is sent only below this many shares under working SELLs
    MaxShort,      \* bound on the shares the account is short of
    MaxBuys,       \* bound on the BUYs of all loops
    MaxOutside     \* bound on the SELLs, covers and file writes of others than the loop

ASSUME ExitsAssumption ==
    /\ MaxPrice \in Nat \ {0} /\ Whole \in Nat \ {0}
    /\ StopDrop \in Nat \ {0} /\ TrailDrop \in Nat \ {0}
    /\ PartialRise \in Nat /\ ProfitRise \in Nat /\ PartialRise < ProfitRise
    /\ Foreign \in BOOLEAN /\ BracketExits \in BOOLEAN
    /\ MaxWorking \in Nat /\ MaxShort \in Nat /\ MaxBuys \in Nat /\ MaxOutside \in Nat

Prices == 1..MaxPrice
NoMark == 0
Places == {"sleep", "listed", "looked", "peak", "judge", "partial", "exit", "profit", "trim",
           "buy", "entering", "rebalance"}

VARIABLES
    price,     \* what the symbol trades at
    halted,    \* breaker, daily loss limit, no session or no connection
    lot,       \* shares the account holds; negative is a short
    answer,    \* the shares get_positions says it holds: those of up to 30 seconds ago
    cost,      \* avg_cost
    working,   \* shares under its working SELLs
    covering,  \* shares under BUYs that cover a short
    hwm,       \* the symbol's entry in hwm.json
    partial,   \* its entry in partial_sells.json
    cooldown,  \* its entry in cooldown_sells.json is younger than 14 days
    firstBuy,  \* age of the earliest BUY row: "none", "recent", or "old" (45 days)
    pc,        \* where the account's cycle is suspended
    view,      \* the position and open orders it read at its head
    mark,      \* the high-water mark in its hands
    buys, outside

\* What the properties remember.
VARIABLES
    doubled,   \* a SELL went out beside a working one or for more than is held, and not by
               \* an exit rule
    outdated   \* an exit rule judged a position that had shrunk before the open orders were read

market == <<price, halted>>
files == <<hwm, partial, cooldown>>
holding == <<lot, answer, cost, working, covering>>
bounds == <<buys, outside>>
history == <<doubled, outdated>>
vars == <<price, halted, lot, answer, cost, working, covering, hwm, partial, cooldown, firstBuy,
          pc, view, mark, buys, outside, doubled, outdated>>

Views == [qty : Nat, cost : Prices, price : Prices, selling : BOOLEAN, fxOk : BOOLEAN]

ExitsTypeOK ==
    /\ price \in Prices /\ halted \in BOOLEAN
    /\ lot \in Int /\ answer \in Int /\ cost \in Prices
    /\ working \in Nat /\ covering \in Nat
    /\ hwm \in Prices \cup {NoMark} /\ partial \in BOOLEAN /\ cooldown \in BOOLEAN
    /\ firstBuy \in {"none", "recent", "old"}
    /\ pc \in Places
    /\ view \in Views /\ mark \in Prices \cup {NoMark}
    /\ buys \in 0..MaxBuys /\ outside \in 0..MaxOutside
    /\ doubled \in BOOLEAN /\ outdated \in BOOLEAN

NoView == [qty |-> 0, cost |-> 1, price |-> 1, selling |-> FALSE, fxOk |-> TRUE]
Least(m, n) == IF m <= n THEN m ELSE n
Most(m, n) == IF m >= n THEN m ELSE n

Init ==
    /\ price \in Prices /\ halted = FALSE
    /\ lot = 0 /\ answer = 0 /\ cost = 1
    /\ working = 0 /\ covering = 0
    /\ hwm = NoMark /\ partial = FALSE /\ cooldown = FALSE /\ firstBuy = "none"
    /\ pc = "sleep"
    /\ view = NoView /\ mark = NoMark
    /\ buys = 0 /\ outside = 0
    /\ doubled = FALSE /\ outdated = FALSE

GoTo(place) == pc' = place

\* The cycle is over and what it read forgotten.
Sleep == GoTo("sleep") /\ view' = NoView

\* Mutant: open orders are looked up under the wrong side.
SeesSellingNever == FALSE

\* The symbol is among pending_sell_symbols.  get_positions keys by the suffixed
\* symbol and get_open_orders by the bare one: a foreign listing is never found.
SeesSelling == working > 0 /\ ~Foreign

\* Mutant: a short is judged like a position.
ReadShort ==
    /\ pc = "sleep"
    /\ ~halted
    /\ view' = [qty |-> answer, cost |-> cost, price |-> price,
                selling |-> FALSE, fxOk |-> TRUE]
    /\ GoTo("listed")
    /\ UNCHANGED <<market, holding, files, firstBuy, mark, bounds, history>>

\* The head of a cycle, past its guards: the positions.  Only a foreign cost can lack its
\* rate.
ReadPositions ==
    /\ pc = "sleep"
    /\ ~halted
    /\ \E fx \in IF Foreign THEN BOOLEAN ELSE {TRUE} :
          view' = [qty |-> Most(answer, 0), cost |-> cost, price |-> price,
                   selling |-> FALSE, fxOk |-> fx]
    /\ GoTo("listed")
    /\ UNCHANGED <<market, holding, files, firstBuy, mark, bounds, history>>

\* An await later, the open orders.  What is not held long, or is being sold, is not judged.
ReadOrders ==
    /\ pc = "listed"
    /\ IF view.qty = 0 \/ SeesSelling
       THEN /\ GoTo("trim")
            /\ view' = [view EXCEPT !.cost = 1, !.price = 1, !.selling = SeesSelling]
            /\ UNCHANGED outdated
       ELSE /\ GoTo("looked") /\ UNCHANGED view
            /\ outdated' = (outdated \/ view.qty > lot)
    /\ UNCHANGED <<market, holding, files, firstBuy, mark, bounds, doubled>>

\* _update_hwm in its thread reads the file ...
ReadHwm ==
    /\ pc = "looked"
    /\ mark' = Most(hwm, view.price)
    /\ GoTo("peak")
    /\ UNCHANGED <<market, holding, files, firstBuy, view, bounds, history>>

\* ... and writes the whole of it back.
WriteHwm ==
    /\ pc = "peak"
    /\ hwm' = mark
    /\ GoTo("judge")
    /\ UNCHANGED <<market, holding, partial, cooldown, firstBuy, view, mark, bounds, history>>

TakesPartial ==
    LET v == view IN
    /\ v.fxOk
    /\ v.price >= v.cost + PartialRise /\ v.price < v.cost + ProfitRise
    /\ ~partial

Trails == mark - view.price >= TrailDrop

\* Mutant: with the trailing stop on, the fixed floor is left out.
FloorsNot == FALSE

Floors == view.fxOk /\ view.price <= view.cost - StopDrop

Profits == view.fxOk /\ view.price >= view.cost + ProfitRise

\* _position_entry_date is the earliest BUY row of the symbol, of any account and state.
Stale == view.fxOk /\ firstBuy = "old" /\ view.price <= view.cost

\* Partial profit first, then the full exits in the code's order; an exchange that closed
\* meanwhile leaves the position to the next cycle, a breaker that tripped does not.
Judge ==
    /\ pc = "judge"
    /\ \/ halted /\ GoTo("trim")
       \/ GoTo(IF TakesPartial THEN "partial"
               ELSE IF Trails \/ Floors THEN "exit"
               ELSE IF Profits THEN "profit"
               ELSE IF Stale THEN "exit" ELSE "trim")
    /\ mark' = NoMark    \* nor are price and cost looked at any more
    /\ view' = [view EXCEPT !.cost = 1, !.price = 1]
    /\ UNCHANGED <<market, holding, files, firstBuy, bounds, history>>

Half(n) == (n + 1) \div 2
Wanted == IF pc = "partial" THEN Half(view.qty) ELSE view.qty

\* What follows a dispatch that returned, whatever became of the SELL.
Mark ==
    IF pc = "partial"
    THEN partial' = TRUE /\ UNCHANGED <<hwm, cooldown>>
    ELSE /\ partial' = FALSE /\ hwm' = NoMark
         /\ cooldown' = (cooldown \/ pc = "profit")

\* A SELL of n shares at most gets to the broker, clamped by execute_trade and place_order
\* to what get_positions says is held.
Sell(n) ==
    /\ answer > 0
    /\ working < MaxWorking
    /\ working' = working + Least(n, answer)

Exiting == pc \in {"partial", "exit", "profit"}

ExitSent ==
    /\ Exiting
    /\ Sell(Wanted)
    /\ Mark
    /\ GoTo("trim")
    /\ UNCHANGED <<market, lot, answer, cost, covering, firstBuy, view, mark, bounds, history>>

\* Queued for approval, held back by a cooldown, or refused by execute_trade.
ExitUnsent ==
    /\ Exiting
    /\ Mark
    /\ GoTo("trim")
    /\ UNCHANGED <<market, holding, firstBuy, view, mark, bounds, history>>

\* The dispatch raises, or the fees eat the gain: no mark is made.
ExitRaises ==
    /\ Exiting
    /\ GoTo("trim")
    /\ UNCHANGED <<market, holding, files, firstBuy, view, mark, bounds, history>>

\* The process dies between the order and the mark, and starts again: a partial profit is
\* asked for a second time.
ExitSentThenDies ==
    /\ Exiting
    /\ answer > 0 /\ working < MaxWorking
    /\ working' = working + Least(Wanted, answer)
    /\ answer' = lot
    /\ pc' = "sleep"
    /\ view' = NoView
    /\ mark' = NoMark
    /\ UNCHANGED <<market, lot, cost, covering, files, firstBuy, bounds, history>>

\* The SELL goes out beside one that works already, or is clamped to more than is held.
Beside == doubled' = (doubled \/ working > 0 \/ answer > lot)

\* Over max_positions, and this is among the weakest: sold by the look at the head of
\* the cycle, which knows nothing of the exit just sent.
TrimSent ==
    /\ pc = "trim"
    /\ ~view.selling /\ view.qty > 0
    /\ Sell(view.qty)
    /\ Beside
    /\ GoTo("buy")
    /\ UNCHANGED <<market, lot, answer, cost, covering, files, firstBuy, view, mark, bounds, outdated>>

\* Not over the limit, not the weakest, refused or queued; paused trading ends the cycle.
TrimSkipped ==
    /\ pc = "trim"
    /\ Sleep \/ (GoTo("buy") /\ UNCHANGED view)
    /\ UNCHANGED <<market, holding, files, firstBuy, mark, bounds, history>>

\* A BUY signal passes the re-entry cooldown and goes on to the filters that await.
\* Additions of its own to a position are left out: they change nothing but the cost.
ConsiderBuy ==
    /\ pc = "buy"
    /\ buys < MaxBuys
    /\ lot = 0 /\ view.qty = 0
    /\ ~cooldown
    /\ GoTo("entering")
    /\ UNCHANGED <<market, holding, files, firstBuy, view, mark, bounds, history>>

FirstRow == firstBuy' = IF firstBuy = "none" THEN "recent" ELSE firstBuy

\* A BUY fills; a bracket leaves its child working, and the avg_cost of an addition lies
\* between the old one and the price.
Buy ==
    /\ buys < MaxBuys /\ buys' = buys + 1
    /\ lot' = lot + Whole
    /\ cost' \in (IF lot > 0 THEN Least(cost, price)..Most(cost, price) ELSE {price})
    /\ working' = working + IF BracketExits THEN Whole ELSE 0
    /\ FirstRow

Enter ==
    /\ pc = "entering"
    /\ Buy
    /\ GoTo("rebalance")
    /\ UNCHANGED <<market, covering, answer, files, view, mark, outside, history>>

\* It is refused, and its row is one all the same.
EnterRefused ==
    /\ pc = "entering"
    /\ FirstRow
    /\ GoTo("rebalance")
    /\ UNCHANGED <<market, holding, files, view, mark, bounds, history>>

NoBuy ==
    /\ pc = "buy"
    /\ GoTo("rebalance")
    /\ view' = [NoView EXCEPT !.fxOk = view.fxOk]
    /\ UNCHANGED <<market, holding, files, firstBuy, mark, bounds, history>>

\* The strategy's SELL carries no quantity: execute_trade sizes it to what is held.  No
\* look at the open orders.
RebalanceSent ==
    /\ pc = "rebalance"
    /\ Sell(answer)
    /\ Beside
    /\ Sleep
    /\ UNCHANGED <<market, lot, answer, cost, covering, files, firstBuy, mark, bounds, outdated>>

RebalanceSkipped ==
    /\ pc = "rebalance"
    /\ Sleep
    /\ UNCHANGED <<market, holding, files, firstBuy, mark, bounds, history>>

LoopStep ==
    \/ ReadPositions \/ ReadOrders \/ ReadHwm \/ WriteHwm \/ Judge
    \/ ExitSent \/ ExitUnsent \/ ExitRaises
    \/ TrimSent \/ TrimSkipped
    \/ ConsiderBuy \/ Enter \/ EnterRefused \/ NoBuy
    \/ RebalanceSent \/ RebalanceSkipped

----------------------------------------------------------------------------
\* n shares of the working SELLs execute.
Fill(n) ==
    /\ n <= working /\ lot - n >= -MaxShort
    /\ working' = working - n
    /\ lot' = lot - n
    /\ UNCHANGED <<market, answer, cost, covering, files, firstBuy, pc, view, mark, bounds, history>>

\* Or are cancelled: one order or all of them by the desk, the broker, the end of the day.
CancelSell(n) ==
    /\ n <= working
    /\ working' = working - n
    /\ UNCHANGED <<market, lot, answer, cost, covering, files, firstBuy, pc, view, mark, bounds,
                   history>>

\* The cash sweep buys whatever the loop is at: no look at what is held, at the open
\* orders or at the cooldown.
SweepBuys ==
    /\ ~halted
    /\ Buy
    /\ UNCHANGED <<market, covering, answer, files, pc, view, mark, outside, history>>

\* Discovery buys what was not held when it scanned.
DiscoveryBuys ==
    /\ lot = 0
    /\ SweepBuys

\* Others sell without a look at the open orders or at the loop's cycle, halted or not,
\* and touch none of its files.
Intrudes ==
    /\ outside < MaxOutside /\ outside' = outside + 1
    /\ doubled' = (doubled \/ working > 0 \/ answer > lot \/ pc \notin {"sleep", "listed"})
    /\ UNCHANGED <<market, lot, answer, cost, covering, files, firstBuy, pc, view, mark, buys, outdated>>

\* The score of the holding fell; the SELL carries no quantity.
ReratingSells ==
    /\ Sell(answer)
    /\ Intrudes

\* Trim, batch sell, emergency liquidation, the compliance audit: the quantity is the one
\* read before the screen.
DeskSells ==
    /\ \E n \in 1..(MaxBuys * Whole) : Sell(n)
    /\ Intrudes

\* flatten_shorts buys a short back, as often as it is pressed before the first BUY fills.
FlattenShorts ==
    /\ outside < MaxOutside /\ outside' = outside + 1
    /\ answer < 0
    /\ covering' = covering - answer
    /\ UNCHANGED <<market, lot, answer, cost, working, files, firstBuy, pc, view, mark, buys, history>>

CoverFills ==
    /\ covering > 0 /\ covering' = 0
    /\ lot' = lot + covering
    /\ cost' = price
    /\ UNCHANGED <<market, working, answer, files, firstBuy, pc, view, mark, bounds, history>>

\* The thread of another account's loop writes the file back, for this symbol or for
\* another one: with a price of its own or an entry as it was when it read it.
OtherWritesHwm ==
    /\ outside < MaxOutside /\ outside' = outside + 1
    /\ hwm' \in Prices \cup {NoMark}
    /\ UNCHANGED <<market, holding, partial, cooldown, firstBuy, pc, view, mark, buys, history>>

OtherSellsPart ==
    /\ outside < MaxOutside /\ outside' = outside + 1
    /\ ~partial /\ partial' = TRUE
    /\ UNCHANGED <<market, holding, hwm, cooldown, firstBuy, pc, view, mark, buys, history>>

OtherExits ==
    /\ outside < MaxOutside /\ outside' = outside + 1
    /\ partial' = FALSE /\ hwm' = NoMark
    /\ cooldown' \in {cooldown, TRUE}
    /\ UNCHANGED <<market, holding, firstBuy, pc, view, mark, buys, history>>

\* The 30 seconds are over: an answer is kept that long, for all callers.
Refresh ==
    /\ answer # lot /\ answer' = lot
    /\ cost' = (IF lot > 0 THEN cost ELSE 1)    \* that of a position sold
    /\ UNCHANGED <<market, lot, working, covering, files, firstBuy, pc, view, mark, bounds,
                   history>>

MovePrice ==
    /\ \E p \in Prices : (p = price + 1 \/ p = price - 1) /\ price' = p
    /\ UNCHANGED <<halted, holding, files, firstBuy, pc, view, mark, bounds, history>>

HaltOrResume ==
    /\ halted' = ~halted
    /\ UNCHANGED <<price, holding, files, firstBuy, pc, view, mark, bounds, history>>

\* re_entry_cooldown_days pass.
Weeks ==
    /\ cooldown /\ cooldown' = FALSE
    /\ UNCHANGED <<market, holding, hwm, partial, firstBuy, pc, view, mark, bounds, history>>

\* time_exit_days pass.
Months ==
    /\ firstBuy = "recent" /\ firstBuy' = "old"
    /\ cooldown' = FALSE
    /\ UNCHANGED <<market, holding, hwm, partial, pc, view, mark, bounds, history>>

Next ==
    \/ LoopStep \/ ExitSentThenDies
    \/ \E n \in 1..working : Fill(n) \/ CancelSell(n)
    \/ SweepBuys \/ DiscoveryBuys \/ ReratingSells \/ DeskSells
    \/ FlattenShorts \/ CoverFills
    \/ OtherWritesHwm \/ OtherSellsPart \/ OtherExits
    \/ Refresh
    \/ MovePrice \/ HaltOrResume \/ Weeks \/ Months

Spec == Init /\ [][Next]_vars

\* The loop goes on, and no answer is kept for ever.
FairSpec == Spec /\ WF_vars(LoopStep) /\ WF_vars(Refresh)

----------------------------------------------------------------------------
\* The exit rules sell no share twice: the working SELLs are within the holding, whatever
\* was bought, filled or cancelled between the readings and the order, and however old the
\* answer is that the order is clamped to.  Excepted are SELLs of others, of the trim and of
\* the rebalance beside a working one, and a position that had shrunk between its reading,
\* or that of the cached answer, and the reading of the open orders.
Covered == ~doubled /\ ~outdated => working <= Most(lot, 0)

\* worker.py:959: "a SELL may never exceed the live held quantity (would cross zero into a
\* short)".  The exit rules alone: a bracket's SELL that fills before the open orders are
\* read lets them sell its shares once more, for both guards look at the cached position.
NeverShorts == ~doubled => working <= Most(lot, 0)

\* Held at or below its floor, with no SELL working, no cycle cut short and its cost in
\* one currency.
Sinking ==
    /\ ~halted /\ lot > 0 /\ working = 0
    /\ price <= cost - StopDrop
    /\ view.fxOk

\* The floor is watched whatever the other rules and files say: a position that stays
\* below it is sold again and again, after every refusal.
FloorIsWatched == <>[]Sinking => []<>(pc = "exit")

\* settings/service.py:151, "a resting bracket SELL child parks the symbol in pending_sell
\* and suppresses the loop's exit checks": no exit rule sells what is being sold already.
ParkedIsNotSold == Exiting /\ ~doubled => working = 0
=============================================================================
