--------------------------- MODULE TradeExecution ---------------------------
(***************************************************************************)
(* One call of Trader.execute_trade per element of Trades, the row it      *)
(* keeps in trade_history, the order it leaves at the broker, the broker's *)
(* status callbacks, the reconnect task and reconcile_with_ibkr, and the   *)
(* death and restart of the process.                                       *)
(*                                                                         *)
(* Everything but the database writes of the callbacks runs on one asyncio *)
(* loop: an action is what a coroutine does from one await to the next.    *)
(* Where a crash or a database thread can get between two statements of    *)
(* such a stretch, the stretch is cut there and LoopFree keeps the other   *)
(* coroutines out until it ends.                                           *)
(***************************************************************************)
EXTENDS TradeStates, Integers, FiniteSets

CONSTANTS
    Trades,      \* calls of execute_trade
    Accounts,    \* Account rows, each with its own worker and gateway
    Symbols,
    AccountOf,   \* [Trades -> Accounts]
    SymbolOf,    \* [Trades -> Symbols]
    Side,        \* [Trades -> {"BUY", "SELL"}]
    Bracket,     \* BUYs that run with bracket_exits: parent, take-profit, stop
    ReadOnly,    \* accounts whose read_only flag the operator may have set
    InitPos,     \* [Accounts -> [Symbols -> Nat]], lots held before the run
    MaxCrashes   \* bound on process deaths

ASSUME TradesAssumption ==
    /\ AccountOf \in [Trades -> Accounts]
    /\ SymbolOf \in [Trades -> Symbols]
    /\ Side \in [Trades -> {"BUY", "SELL"}]
    /\ Bracket \subseteq {t \in Trades : Side[t] = "BUY"}
    /\ ReadOnly \subseteq Accounts

ASSUME BoundsAssumption ==
    /\ InitPos \in [Accounts -> [Symbols -> Nat]]
    /\ MaxCrashes \in Nat

VARIABLES
    up,        \* the process runs
    crashes,   \* deaths so far, a bound only
    pc,        \* where each call is suspended
    audit,     \* the call's audit_logs entry: its shariah_status
    auditId,   \* ... and its ibkr_order_id
    row,       \* the call's trade_history row
    order,     \* what the broker did with the call's (parent) order
    orderId,   \* the id the order got
    nextId,    \* the next order id of each gateway
    pos,       \* lots of each symbol at the broker
    inbox,     \* status messages the loop has not dispatched
    tasks,     \* status writes handed to a database thread
    conn,      \* ib.isConnected() of each worker
    dropped,   \* whether this process lost the connection, a history only
    rec,       \* the _reconnect task of each worker
    cache,     \* the worker's positions cache: none, or one set of held symbols
    snap,      \* positions the running reconciliation has read
    fix        \* states the running reconciliation is about to commit

execVars   == <<pc, audit, auditId, row>>
brokerVars == <<order, orderId, nextId, pos>>
eventVars  == <<inbox, tasks>>
linkVars   == <<conn, dropped, rec, cache, snap, fix>>
lifeVars   == <<up, crashes>>
vars == <<execVars, brokerVars, eventVars, linkVars, lifeVars>>

NoId  == 0
NoRow == [state |-> "NONE", oid |-> NoId]

PC == { "idle", "screen", "price", "funds", "slippage", "held", "place",
        "quote", "ack", "audit_id", "history", "returned", "killed" }

\* Points at which the call is suspended in an await, or between two
\* statements, of a running process.
Running == PC \ {"idle", "returned", "killed"}

Verdict == {"none", "COMPLIANT", "NON_COMPLIANT"}
OrderStatus == {"none", "working", "inactive", "cancelled", "filled", "exited"}
Message == [of : Trades, id : Nat, status : {"Filled", "Cancelled"}]
RecState == {"off", "retry", "reading", "query", "commit", "alert"}

-----------------------------------------------------------------------------
\* Helpers.

\* The loop is not inside a stretch that other coroutines cannot enter.
LoopFree ==
    /\ up
    /\ \A t \in Trades : pc[t] \notin {"audit_id", "history"}
    /\ \A a \in Accounts : rec[a] # "commit"

\* ib.positions(): what the library lists.  It empties its lists when the
\* connection goes (portfolio/router.py:939 reads an empty list that way).
Held(a) == IF conn[a] THEN {s \in Symbols : pos[a][s] > 0} ELSE {}

\* worker.get_positions: the 30 s cache, or a fresh read that refills it.
GetPositions(a, view) ==
    \/ view \in cache[a] /\ UNCHANGED cache
    \/ view = Held(a) /\ cache' = [cache EXCEPT ![a] = {view}]

\* A stretch that may, on one of its branches, read positions on the way.
MayReadPositions(a) == UNCHANGED cache \/ GetPositions(a, Held(a))

\* _persist_trade_history: insert the row, or update the one the call has.
PersistTradeHistory(t, state, oid) ==
    row' = [row EXCEPT ![t] = [state |-> state, oid |-> oid]]

\* The row of t with another state under the order id it has.
WithState(t, state) == [state |-> state, oid |-> row[t].oid]

\* A call that ends in `state` without an order id: the persisted early
\* returns and the exception handler.
Finish(t, state) ==
    /\ PersistTradeHistory(t, state, NoId)
    /\ pc' = [pc EXCEPT ![t] = "returned"]

GoTo(t, l) == pc' = [pc EXCEPT ![t] = l]

-----------------------------------------------------------------------------
\* Trader.execute_trade.

\* Mutant: the verdict is recorded and does not stop the call.
CertifyAnyway(t, verdict) ==
    /\ audit' = [audit EXCEPT ![t] = verdict]
    /\ GoTo(t, "price")
    /\ UNCHANGED row

\* secure_log_entry, then the compliance gate, which stops BUYs only.
Certify(t, verdict) ==
    /\ audit' = [audit EXCEPT ![t] = verdict]
    /\ \/ /\ Side[t] = "BUY" /\ verdict = "NON_COMPLIANT"
          /\ Finish(t, "REJECTED_COMPLIANCE")
       \/ /\ Side[t] = "SELL" \/ verdict = "COMPLIANT"
          /\ GoTo(t, "price")
          /\ UNCHANGED row

\* The call is made.  With the account's read_only flag set it is rejected, and
\* that rejection is not persisted; a BUY nobody screened awaits the canonical
\* screen; a SELL or a pre-screened BUY goes on with the status it has, if that
\* can be had (a forced liquidation without one raises).
Begin(t) ==
    /\ LoopFree
    /\ pc[t] = "idle"
    /\ \/ /\ AccountOf[t] \in ReadOnly
          /\ GoTo(t, "returned")
          /\ UNCHANGED <<audit, row>>
       \/ /\ Side[t] = "BUY"
          /\ GoTo(t, "screen")
          /\ UNCHANGED <<audit, row>>
       \/ /\ Finish(t, "IBKR_ERROR")
          /\ UNCHANGED audit
       \/ \E verdict \in Verdict \ {"none"} : Certify(t, verdict)
    /\ UNCHANGED <<auditId, brokerVars, eventVars, linkVars, lifeVars>>

\* async_shariah_screen returns, or raises.
Screen(t) ==
    /\ LoopFree
    /\ pc[t] = "screen"
    /\ \/ \E verdict \in Verdict \ {"none"} : Certify(t, verdict)
       \/ /\ Finish(t, "IBKR_ERROR")
          /\ UNCHANGED audit
    /\ UNCHANGED <<auditId, brokerVars, eventVars, linkVars, lifeVars>>

\* _is_possession_confirmed, where no BUY of the symbol is FILLED: the position
\* is held and its oldest SUBMITTED BUY is old enough, so that BUY is healed.
Heal(t, view) ==
    LET buys == {u \in Trades : Side[u] = "BUY" /\ SymbolOf[u] = SymbolOf[t]} IN
    /\ SymbolOf[t] \in view
    /\ \A u \in buys : row[u].state # "FILLED"
    /\ \E u \in buys :
          /\ row[u].state = "SUBMITTED"
          /\ row' = [row EXCEPT ![u] = WithState(u, "FILLED")]

\* get_last_price returns.  Without a price or an FX rate the call is an error; a
\* BUY goes on to the balances; a SELL is refused when possession is not
\* confirmed, which may heal the row of the BUY it rests on when it is.
Price(t) ==
    /\ LoopFree
    /\ pc[t] = "price"
    /\ \/ Finish(t, "IBKR_ERROR") /\ MayReadPositions(AccountOf[t])
       \/ /\ Side[t] = "BUY"
          /\ GoTo(t, "funds")
          /\ UNCHANGED <<row, cache>>
       \/ /\ Side[t] = "SELL"
          /\ \/ Finish(t, "REJECTED_COMPLIANCE")
             \/ GoTo(t, "held") /\ UNCHANGED row
          /\ MayReadPositions(AccountOf[t])
       \/ /\ Side[t] = "SELL"
          /\ GoTo(t, "held")
          /\ \E view \in SUBSET Symbols : GetPositions(AccountOf[t], view) /\ Heal(t, view)
    /\ UNCHANGED <<audit, auditId, brokerVars, eventVars, conn, dropped, rec, snap,
                   fix, lifeVars>>

\* The three balance reads return: sizing, cash and concentration limits.
Fund(t) ==
    /\ LoopFree
    /\ pc[t] = "funds"
    /\ \/ \E s \in {"REJECTED_FUNDS", "REJECTED_CONCENTRATION", "IBKR_ERROR"} :
              Finish(t, s)
       \/ GoTo(t, "slippage") /\ UNCHANGED row
    /\ MayReadPositions(AccountOf[t])
    /\ UNCHANGED <<audit, auditId, brokerVars, eventVars, conn, dropped, rec, snap,
                   fix, lifeVars>>

\* Mutant: the PRE_ORDER row is left to the commit after the broker call.
CommitIntentLate(t) == GoTo(t, "place") /\ UNCHANGED row

\* Commit the PRE_ORDER row and go on to the broker call.
CommitIntent(t) ==
    /\ PersistTradeHistory(t, "PRE_ORDER", NoId)
    /\ GoTo(t, "place")

\* Mutant: a BUY that fails the check is priced again instead of refused.
SlippageRequotes(t) ==
    /\ LoopFree
    /\ pc[t] = "slippage"
    /\ \/ GoTo(t, "price") /\ UNCHANGED row
       \/ CommitIntent(t)
    /\ UNCHANGED <<audit, auditId, brokerVars, eventVars, linkVars, lifeVars>>

\* The slippage and liquidity check returns.
Slippage(t) ==
    /\ LoopFree
    /\ pc[t] = "slippage"
    /\ \/ \E s \in {"IBKR_ERROR", "REJECTED_FUNDS", "DRY_RUN"} : Finish(t, s)
       \/ CommitIntent(t)
    /\ UNCHANGED <<audit, auditId, brokerVars, eventVars, linkVars, lifeVars>>

\* The positions of a SELL arrive: not held, or nothing settled, is refused.
Possess(t) ==
    /\ LoopFree
    /\ pc[t] = "held"
    /\ \E view \in SUBSET Symbols :
          /\ GetPositions(AccountOf[t], view)
          /\ \/ Finish(t, "REJECTED_COMPLIANCE") \/ Finish(t, "IBKR_ERROR")
             \/ /\ SymbolOf[t] \in view
                /\ Finish(t, "DRY_RUN") \/ CommitIntent(t)
    /\ UNCHANGED <<audit, auditId, brokerVars, eventVars, conn, dropped, rec, snap,
                   fix, lifeVars>>

\* place_order or place_bracket_order raises before ib.placeOrder: no
\* connection, no qualified contract, no price, a SELL no longer held.
PlaceFails(t) ==
    /\ LoopFree
    /\ pc[t] \in {"place", "quote"}
    /\ Finish(t, "IBKR_ERROR")
    /\ MayReadPositions(AccountOf[t])
    /\ UNCHANGED <<audit, auditId, brokerVars, eventVars, conn, dropped, rec, snap,
                   fix, lifeVars>>

\* The guard of place_order: a SELL of what is not held is not sent.
NoShortGuard(t) ==
    \/ Side[t] = "BUY" /\ UNCHANGED cache
    \/ /\ Side[t] = "SELL"
       /\ \E view \in SUBSET Symbols :
             GetPositions(AccountOf[t], view) /\ SymbolOf[t] \in view

\* A plain order that needs a limit price awaits it after the guard.
Quote(t) ==
    /\ LoopFree
    /\ pc[t] = "place"
    /\ t \notin Bracket
    /\ NoShortGuard(t)
    /\ GoTo(t, "quote")
    /\ UNCHANGED <<audit, auditId, row, brokerVars, eventVars, conn, dropped, rec,
                   snap, fix, lifeVars>>

\* Mutant: place_order, too, waits for the broker's acknowledgement.
AfterPlaceAwaits(t) == "ack"

\* Only place_bracket_order awaits anything after ib.placeOrder.
AfterPlace(t) == IF t \in Bracket THEN "ack" ELSE "audit_id"

\* ib.placeOrder: the order is at the broker.  place_order returns its id
\* without another await; place_bracket_order sends three orders and then
\* awaits the acknowledgement.
Place(t) ==
    LET a == AccountOf[t] IN
    /\ LoopFree
    /\ \/ pc[t] = "place" /\ NoShortGuard(t)
       \/ pc[t] = "quote" /\ UNCHANGED cache
    /\ conn[a]
    /\ order' = [order EXCEPT ![t] = "working"]
    /\ orderId' = [orderId EXCEPT ![t] = nextId[a]]
    /\ nextId' = [nextId EXCEPT ![a] = @ + IF t \in Bracket THEN 3 ELSE 1]
    /\ GoTo(t, AfterPlace(t))
    /\ UNCHANGED <<audit, auditId, row, pos, eventVars, conn, dropped, rec, snap,
                   fix, lifeVars>>

\* Mutant: an acknowledgement that fails makes the call submit again.
AckRetries(t) ==
    /\ LoopFree
    /\ pc[t] = "ack"
    /\ ~conn[AccountOf[t]]
    /\ GoTo(t, "place")
    /\ UNCHANGED <<row, audit, auditId, brokerVars, eventVars, linkVars, lifeVars>>

\* reqAllOpenOrdersAsync raises because the connection went away under the
\* acknowledgement wait; the handler does not know the order id.
AckFails(t) ==
    /\ LoopFree
    /\ pc[t] = "ack"
    /\ ~conn[AccountOf[t]]
    /\ Finish(t, "IBKR_ERROR")
    /\ UNCHANGED <<audit, auditId, brokerVars, eventVars, linkVars, lifeVars>>

\* Mutant: the id is written to the trade history only.
SkipAuditId(t) ==
    /\ \/ pc[t] = "ack" /\ LoopFree
       \/ pc[t] = "audit_id" /\ up
    /\ GoTo(t, "history")
    /\ UNCHANGED <<auditId, audit, row, brokerVars, eventVars, linkVars, lifeVars>>

\* The broker call has returned: the order id goes into the audit entry ...
RecordAuditId(t) ==
    /\ \/ pc[t] = "ack" /\ LoopFree
       \/ pc[t] = "audit_id" /\ up
    /\ auditId' = [auditId EXCEPT ![t] = orderId[t]]
    /\ GoTo(t, "history")
    /\ UNCHANGED <<audit, row, brokerVars, eventVars, linkVars, lifeVars>>

\* ... and, in a second commit, into the trade history as SUBMITTED.
RecordSubmitted(t) ==
    /\ up
    /\ pc[t] = "history"
    /\ PersistTradeHistory(t, "SUBMITTED", orderId[t])
    /\ GoTo(t, "returned")
    /\ UNCHANGED <<audit, auditId, brokerVars, eventVars, linkVars, lifeVars>>

-----------------------------------------------------------------------------
\* The broker, and the callbacks of the worker.

\* A status message reaches a connected worker and is lost on any other.
Notify(t, id, status) ==
    inbox' = IF conn[AccountOf[t]]
             THEN inbox \cup {[of |-> t, id |-> id, status |-> status]}
             ELSE inbox

MoveLots(t, n) == pos' = [pos EXCEPT ![AccountOf[t]][SymbolOf[t]] = @ + n]

\* The order executes.
Fill(t) ==
    /\ order[t] = "working"
    /\ order' = [order EXCEPT ![t] = "filled"]
    /\ MoveLots(t, IF Side[t] = "BUY" THEN 1 ELSE -1)
    /\ Notify(t, orderId[t], "Filled")
    /\ UNCHANGED <<execVars, orderId, nextId, tasks, linkVars, lifeVars>>

\* The order is cancelled, or parked as Inactive (which stays an open order).
Cancel(t) ==
    /\ order[t] \in {"working", "inactive"}
    /\ \E s \in {"inactive", "cancelled"} \ {order[t]} :
          order' = [order EXCEPT ![t] = s]
    /\ Notify(t, orderId[t], "Cancelled")
    /\ UNCHANGED <<execVars, orderId, nextId, pos, tasks, linkVars, lifeVars>>

\* A resting child of a filled bracket (take-profit or stop) executes;
\* which of the two it is does not matter here.  Nothing at the broker stops it
\* when the position has been sold meanwhile.
ChildExit(t) ==
    /\ t \in Bracket
    /\ order[t] = "filled"
    /\ order' = [order EXCEPT ![t] = "exited"]
    /\ MoveLots(t, -1)
    /\ Notify(t, orderId[t] + 1, "Filled")
    /\ UNCHANGED <<execVars, orderId, nextId, tasks, linkVars, lifeVars>>

\* _on_order_status runs on the loop and hands the write to a thread.
OnOrderStatus(m) ==
    /\ LoopFree
    /\ m \in inbox
    /\ inbox' = inbox \ {m}
    /\ tasks' = tasks \cup {m}
    /\ UNCHANGED <<execVars, brokerVars, linkVars, lifeVars>>

\* Mutant: the broker's word is written as it comes.
RawStateOf(status) == status

\* The trade state a broker status is recorded as.
StateOf(status) == IF status = "Filled" THEN "FILLED" ELSE "IBKR_ERROR"

\* _db_update_order_status, in its thread: whichever row carries the order id
\* takes the state; without such a row the update is gone.
DbUpdateOrderStatus(m) ==
    LET matches == {t \in Trades : row[t].oid = m.id} IN
    /\ up
    /\ m \in tasks
    /\ tasks' = tasks \ {m}
    /\ \/ matches = {} /\ UNCHANGED row
       \/ \E t \in matches :
             row' = [row EXCEPT ![t] = WithState(t, StateOf(m.status))]
    /\ UNCHANGED <<pc, audit, auditId, brokerVars, inbox, linkVars, lifeVars>>

-----------------------------------------------------------------------------
\* Connection and reconciliation.

\* The gateway drops the worker; _on_disconnect schedules _reconnect unless
\* one is running.  What had been received is dispatched before that.
Disconnect(a) ==
    /\ LoopFree
    /\ conn[a]
    /\ \A m \in inbox : AccountOf[m.of] # a
    /\ conn' = [conn EXCEPT ![a] = FALSE]
    /\ dropped' = [dropped EXCEPT ![a] = TRUE]
    /\ rec' = [rec EXCEPT ![a] = IF @ = "off" THEN "retry" ELSE @]
    /\ UNCHANGED <<execVars, brokerVars, eventVars, cache, snap, fix, lifeVars>>

\* main_loop (or the secondary-worker task) connects: no reconciliation.
LoopConnect(a) ==
    /\ LoopFree
    /\ ~conn[a]
    /\ conn' = [conn EXCEPT ![a] = TRUE]
    /\ UNCHANGED <<execVars, brokerVars, eventVars, dropped, rec, cache, snap, fix,
                   lifeVars>>

\* An attempt of _reconnect succeeds and reconcile_with_ibkr starts reading
\* positions; connect() drops a connection somebody else made meanwhile.
Reconnect(a) ==
    /\ LoopFree
    /\ rec[a] = "retry"
    /\ conn' = [conn EXCEPT ![a] = TRUE]
    /\ rec' = [rec EXCEPT ![a] = "reading"]
    /\ UNCHANGED <<execVars, brokerVars, eventVars, dropped, cache, snap, fix, lifeVars>>

\* The tenth attempt fails.
GiveUp(a) ==
    /\ LoopFree
    /\ rec[a] = "retry"
    /\ conn' = [conn EXCEPT ![a] = FALSE]
    /\ rec' = [rec EXCEPT ![a] = "alert"]
    /\ UNCHANGED <<execVars, brokerVars, eventVars, dropped, cache, snap, fix, lifeVars>>

\* The exit loop, the dashboard or another call reads positions, in a thread.
ReadPositions(a) ==
    /\ up
    /\ cache' = [cache EXCEPT ![a] = {Held(a)}]
    /\ UNCHANGED <<execVars, brokerVars, eventVars, conn, dropped, rec, snap, fix,
                   lifeVars>>

\* The positions arrive from their thread.
ReconcileRead(a) ==
    /\ up
    /\ rec[a] = "reading"
    /\ \E view \in SUBSET Symbols :
          GetPositions(a, view) /\ snap' = [snap EXCEPT ![a] = view]
    /\ rec' = [rec EXCEPT ![a] = "query"]
    /\ UNCHANGED <<execVars, brokerVars, eventVars, conn, dropped, fix, lifeVars>>

\* The status ib.openTrades() goes by: none without a connection, and a
\* message still to be dispatched has not changed it yet.
SeenStatus(u) ==
    IF ~conn[AccountOf[u]] THEN "none"
    ELSE IF \E m \in inbox : m.of = u /\ m.id = orderId[u] THEN "working"
    ELSE order[u]

\* Mutant: rows cut off before the broker call are not looked at.
SubmittedRow(t) == row[t].state = "SUBMITTED"

\* The rows a reconciliation looks at.
PendingRow(t) == row[t].state \in {"SUBMITTED", "PRE_ORDER"}

\* Mutant: the rule for SELLs, gone from the positions means filled, for all.
JudgedAsSell(a, t) ==
    IF SymbolOf[t] \notin snap[a] THEN "FILLED" ELSE "IBKR_ERROR"

\* What a closed order is taken for, from the positions that were read.
JudgedState(a, t) ==
    IF (Side[t] = "BUY") = (SymbolOf[t] \in snap[a]) THEN "FILLED" ELSE "IBKR_ERROR"

\* The state reconciliation decides for a pending row, "NONE" to leave it:
\* a row without an order id never reached the broker, an open order is left
\* unless Inactive, and a closed one is judged by whether its symbol is held.
ReconciledState(a, t) ==
    LET open == {u \in Trades : /\ AccountOf[u] = a
                                /\ orderId[u] = row[t].oid
                                /\ SeenStatus(u) \in {"working", "inactive"}}
    IN  IF ~PendingRow(t) THEN "NONE"
        ELSE IF row[t].oid = NoId THEN "IBKR_ERROR"
        ELSE IF \E u \in open : SeenStatus(u) = "inactive" THEN "IBKR_ERROR"
        ELSE IF open # {} THEN "NONE"
        ELSE JudgedState(a, t)

\* The pending rows of every account are loaded and judged ...
ReconcileQuery(a) ==
    /\ LoopFree
    /\ rec[a] = "query"
    /\ fix' = [fix EXCEPT ![a] = [t \in Trades |-> ReconciledState(a, t)]]
    /\ rec' = [rec EXCEPT ![a] = "commit"]
    /\ UNCHANGED <<execVars, brokerVars, eventVars, conn, dropped, cache, snap,
                   lifeVars>>

\* ... and the single commit writes the changed ones over what is there now.
ReconcileCommit(a) ==
    /\ up
    /\ rec[a] = "commit"
    /\ row' = [t \in Trades |->
                  IF fix[a][t] = "NONE" THEN row[t]
                  ELSE WithState(t, fix[a][t])]
    /\ rec' = [rec EXCEPT ![a] = "alert"]
    /\ snap' = [snap EXCEPT ![a] = {}]
    /\ fix' = [fix EXCEPT ![a] = [t \in Trades |-> "NONE"]]
    /\ UNCHANGED <<pc, audit, auditId, brokerVars, eventVars, conn, dropped, cache,
                   lifeVars>>

\* The alert of either outcome is awaited before _reconnecting is cleared: a connection
\* lost meanwhile schedules nothing.
Alerted(a) ==
    /\ LoopFree
    /\ rec[a] = "alert"
    /\ rec' = [rec EXCEPT ![a] = "off"]
    /\ UNCHANGED <<execVars, brokerVars, eventVars, conn, dropped, cache, snap, fix, lifeVars>>

-----------------------------------------------------------------------------
\* The process.

\* The process dies: coroutines, queued callbacks and caches go with it; the
\* database and the broker stay.
Crash ==
    /\ up
    /\ crashes < MaxCrashes
    /\ up' = FALSE
    /\ crashes' = crashes + 1
    /\ pc' = [t \in Trades |-> IF pc[t] \in Running THEN "killed" ELSE pc[t]]
    /\ inbox' = {} /\ tasks' = {}
    /\ conn' = [a \in Accounts |-> FALSE]
    /\ dropped' = [a \in Accounts |-> FALSE]
    /\ rec' = [a \in Accounts |-> "off"]
    /\ cache' = [a \in Accounts |-> {}]
    /\ snap' = [a \in Accounts |-> {}]
    /\ fix' = [a \in Accounts |-> [t \in Trades |-> "NONE"]]
    /\ UNCHANGED <<audit, auditId, row, brokerVars>>

\* lifespan starts the loops; nothing is reconciled and the loops connect.
Boot ==
    /\ ~up
    /\ up' = TRUE
    /\ UNCHANGED <<crashes, execVars, brokerVars, eventVars, linkVars>>

Init ==
    /\ up = TRUE /\ crashes = 0
    /\ pc = [t \in Trades |-> "idle"]
    /\ audit = [t \in Trades |-> "none"]
    /\ auditId = [t \in Trades |-> NoId]
    /\ row = [t \in Trades |-> NoRow]
    /\ order = [t \in Trades |-> "none"]
    /\ orderId = [t \in Trades |-> NoId]
    /\ nextId = [a \in Accounts |-> 1]
    /\ pos = InitPos
    /\ inbox = {} /\ tasks = {}
    /\ conn = [a \in Accounts |-> FALSE]
    /\ dropped = [a \in Accounts |-> FALSE]
    /\ rec = [a \in Accounts |-> "off"]
    /\ cache = [a \in Accounts |-> {}]
    /\ snap = [a \in Accounts |-> {}]
    /\ fix = [a \in Accounts |-> [t \in Trades |-> "NONE"]]

\* A suspended call goes on.
Resume(t) ==
    \/ Screen(t) \/ Price(t) \/ Fund(t) \/ Slippage(t) \/ Possess(t)
    \/ PlaceFails(t) \/ Quote(t) \/ Place(t) \/ AckFails(t)
    \/ RecordAuditId(t) \/ RecordSubmitted(t)

ExecuteTrade(t) == Begin(t) \/ Resume(t)

Broker(t) == Fill(t) \/ Cancel(t) \/ ChildExit(t)

Reconcile(a) ==
    ReconcileRead(a) \/ ReconcileQuery(a) \/ ReconcileCommit(a) \/ Alerted(a)

Link(a) ==
    \/ Disconnect(a) \/ LoopConnect(a) \/ Reconnect(a) \/ GiveUp(a)
    \/ ReadPositions(a) \/ Reconcile(a)

Next ==
    \/ \E t \in Trades : ExecuteTrade(t) \/ Broker(t)
    \/ \E m \in inbox : OnOrderStatus(m)
    \/ \E m \in tasks : DbUpdateOrderStatus(m)
    \/ \E a \in Accounts : Link(a)
    \/ Crash \/ Boot

Spec == Init /\ [][Next]_vars

\* What the loop and its threads schedule by themselves.  asyncio runs ready
\* callbacks first in, first out, so a step that needs the loop is strongly
\* fair: other coroutines may hold the loop again and again, but not win every
\* time.  The operator does not have to place calls, the broker does not have
\* to execute or cancel, and the gateway need not be reachable.
LoopFairness ==
    /\ \A t \in Trades : SF_vars(Resume(t))
    /\ SF_vars(\E m \in inbox : OnOrderStatus(m))
    /\ WF_vars(\E m \in tasks : DbUpdateOrderStatus(m))
    /\ \A a \in Accounts : SF_vars(Reconcile(a))

FairSpec == Spec /\ LoopFairness

\* The gateway restarts every day (worker.py:364) and an attempt of the
\* reconnect task keeps getting the chance to succeed; a dead process is
\* restarted by its supervisor.
DailyRestart ==
    /\ WF_vars(Boot)
    /\ \A a \in Accounts : SF_vars(LoopConnect(a)) /\ SF_vars(Disconnect(a))
                          /\ SF_vars(Reconnect(a))

\* A restart without that: the process comes back and its loops connect.
RestartSpec ==
    FairSpec /\ WF_vars(Boot) /\ \A a \in Accounts : SF_vars(LoopConnect(a))

RecoverySpec == FairSpec /\ DailyRestart

-----------------------------------------------------------------------------
\* Properties.

\* Every variable stays within its type.
TypeOK ==
    /\ up \in BOOLEAN /\ crashes \in Nat
    /\ pc \in [Trades -> PC]
    /\ audit \in [Trades -> Verdict]
    /\ auditId \in [Trades -> Nat]
    /\ row \in [Trades -> [state : TradeState \cup {"NONE"}, oid : Nat]]
    /\ order \in [Trades -> OrderStatus]
    /\ orderId \in [Trades -> Nat]
    /\ nextId \in [Accounts -> Nat]
    /\ pos \in [Accounts -> [Symbols -> Int]]
    /\ inbox \subseteq Message /\ tasks \subseteq Message
    /\ conn \in [Accounts -> BOOLEAN]
    /\ dropped \in [Accounts -> BOOLEAN]
    /\ rec \in [Accounts -> RecState]
    /\ cache \in [Accounts -> SUBSET SUBSET Symbols]
    /\ snap \in [Accounts -> SUBSET Symbols]
    /\ fix \in [Accounts -> [Trades -> TradeState \cup {"NONE"}]]

\* An order the broker ever saw has a trade_history row and a committed audit
\* entry behind it, through any crash, and a BUY among them was screened
\* COMPLIANT (execute_trade commits PRE_ORDER before the IBKR call).
OrderIsRecorded ==
    \A t \in Trades : order[t] # "none" =>
        /\ row[t].state # "NONE"
        /\ audit[t] # "none"
        /\ Side[t] = "BUY" => audit[t] = "COMPLIANT"

\* Why the two hold, call by call: what a suspended call has already committed
\* at the point where it stands, and where an order's id may stand.
PastSend   == {"ack", "audit_id", "history"}
PastIntent == PastSend \cup {"place", "quote"}
PastGate   == PastIntent \cup {"price", "funds", "slippage", "held"}

Vetted(t) == audit[t] # "none" /\ (Side[t] = "BUY" => audit[t] = "COMPLIANT")

Progress(t) ==
    /\ pc[t] \in PastGate \/ order[t] # "none" => Vetted(t)
    /\ pc[t] \in PastIntent \/ order[t] # "none" => row[t].state # "NONE"
    /\ order[t] # "none" => pc[t] \in PastSend \cup {"returned", "killed"}
    /\ pc[t] \in PastSend => order[t] # "none"

Ids(t) ==
    /\ order[t] = "none" <=> orderId[t] = NoId
    /\ orderId[t] < nextId[AccountOf[t]]
    /\ row[t].oid # NoId => row[t].oid = orderId[t] /\ auditId[t] = orderId[t]
    /\ pc[t] = "history" => auditId[t] = orderId[t]
    /\ \A u \in Trades \ {t} :
          AccountOf[u] = AccountOf[t] /\ orderId[t] # NoId => orderId[u] # orderId[t]

\* The inductive invariant of the theorems about calls, rows and order ids.
TraceInv ==
    /\ \A a \in Accounts : nextId[a] > NoId
    /\ \A t \in Trades : Progress(t) /\ Ids(t)

\* The order id in a trade_history row is the id of that call's order, stands
\* in the call's audit entry too, and no other call of the account has it: the
\* status callbacks find rows by this id alone.
IdsTraceable ==
    \A t \in Trades : row[t].oid # NoId =>
        /\ row[t].oid = orderId[t] /\ auditId[t] = orderId[t]
        /\ \A u \in Trades \ {t} :
              AccountOf[u] = AccountOf[t] => row[u].oid # row[t].oid

Executed(t) == order[t] \in {"filled", "exited"}

\* Rows of one account, so that an order id names one row; and symbols bought
\* by one call and not held before it, so that a position tells of that call.
OneAccount == \A a, b \in Accounts : a = b

BoughtOnce ==
    \A t \in Trades : Side[t] = "BUY" =>
        /\ InitPos[AccountOf[t]][SymbolOf[t]] = 0
        /\ \A u \in Trades \ {t} : Side[u] = "BUY" => SymbolOf[u] # SymbolOf[t]

\* The row of a BUY says FILLED only if the order was executed: the settlement
\* clock and the sellable quantity are computed from FILLED BUY rows.  It rests
\* on the callbacks hitting the right row and on the guess reconciliation makes
\* from positions, so on one account and on symbols bought once.
FilledBuyIsReal ==
    \A t \in Trades : Side[t] = "BUY" /\ row[t].state = "FILLED" => Executed(t)

Undisturbed(t) == crashes = 0 /\ ~dropped[AccountOf[t]]

Pending(t, status) == \E m \in inbox \cup tasks : m.of = t /\ m.status = status

\* DISASTER_RECOVERY.md:10, "the database stores the exact state of every
\* order": without a crash or a disconnect the row of a call that returned
\* agrees with the broker, up to callbacks still on their way.
Exact(t) ==
    Undisturbed(t) /\ pc[t] = "returned" =>
        /\ order[t] = "working" => row[t].state = "SUBMITTED"
        /\ Executed(t) => row[t].state = "FILLED" \/ Pending(t, "Filled")
        /\ order[t] \in {"inactive", "cancelled"} =>
              row[t].state = "IBKR_ERROR" \/ Pending(t, "Cancelled")

\* It holds of the orders placed without a bracket: place_order has no await
\* between ib.placeOrder and the commit of the id.  place_bracket_order has one,
\* where a fill finds no row to update and is lost.
PlainLedgerExact == \A t \in Trades \ Bracket : Exact(t)

\* The state the call's TradeStateMachine has reached at each point.
MachineAt(t) == IF pc[t] \in {"idle", "screen"} THEN "SCREENING" ELSE "PRE_ORDER"

\* Every state a call ends in is one its machine can move to from where it stands
\* (transition_to raises otherwise, and in the exception handler of
\* execute_trade that loses the state and leaves the row as it was).
EndsAreLegal ==
    [][\A t \in Trades :
          pc[t] \notin {"returned", "killed"} /\ pc'[t] = "returned" /\ row'[t] # row[t]
              => CanMove(MachineAt(t), row'[t].state)]_vars

\* Refinement: a call passes through the gate.
PhaseOf(t) ==
    CASE order[t] # "none"                             -> "sent"
      [] order[t] = "none" /\ pc[t] = "killed"         -> "abandoned"
      [] order[t] = "none" /\ pc[t] = "returned"       -> "refused"
      [] order[t] = "none" /\ pc[t] \in {"place", "quote"} -> "intended"
      [] order[t] = "none" /\ pc[t] \in {"idle", "screen"} -> "new"
      [] OTHER                                         -> "vetted"

Gate == INSTANCE OrderGate WITH phase <- [t \in Trades |-> PhaseOf(t)],
                                ticket <- orderId

\* execute_trade, with callbacks, reconciliation and crashes, implements the
\* gate: one submission per call, after vetting and a committed intent, never
\* after a refusal or a crash.
ImplementsGate == Gate!Spec

\* Every call ends: it returns or dies with the process.
CallsReturn ==
    \A t \in Trades : (pc[t] # "idle") ~> (pc[t] \in {"returned", "killed"})

\* With the gateway restarting daily, reconciliation eventually closes the row
\* of every order that is no longer open, and of every intent a crash cut off.
PendingRowsClosed ==
    \A t \in Trades :
        (row[t].state \in {"PRE_ORDER", "SUBMITTED"} /\ order[t] # "working")
            ~> (row[t].state \notin {"PRE_ORDER", "SUBMITTED"} \/ order[t] = "working")

\* DEPLOYMENT.md:476-478, "reconciliation runs on restart and should heal it":
\* an order executed while the process was down is no longer SUBMITTED once the
\* restarted process is connected, and without losing that connection first.
HealedOnRestart ==
    \A t \in Trades :
        LET a == AccountOf[t] IN
        (/\ crashes > 0 /\ up /\ conn[a] /\ ~dropped[a]
         /\ order[t] = "filled" /\ ~Pending(t, "Filled")
         /\ row[t].state = "SUBMITTED")
            ~> (row[t].state # "SUBMITTED" \/ dropped[a])

\* The comment at reconciliation.py:40: a row without an order id belongs to a
\* call that died before the IBKR call, so what is written off as IBKR_ERROR
\* without an id was never submitted.
NeverReachedIBKR ==
    \A t \in Trades :
        row[t].state = "IBKR_ERROR" /\ row[t].oid = NoId => order[t] = "none"

\* What is true of it: a row without an id, of a call that returned and not of
\* a bracket, whoever wrote it off, is that of an order never submitted.
WrittenOffUnsent ==
    \A t \in Trades \ Bracket :
        pc[t] = "returned" /\ row[t].state = "IBKR_ERROR" /\ row[t].oid = NoId
            => order[t] = "none"

\* No two calls that may sell, a SELL or a bracket with its resting children,
\* have the same symbol on one account.
Sells(t) == Side[t] = "SELL" \/ t \in Bracket

SoleSellers ==
    \A t, u \in Trades :
        /\ Sells(t) /\ Sells(u)
        /\ AccountOf[t] = AccountOf[u] /\ SymbolOf[t] = SymbolOf[u]
        => t = u

\* trader.py:751, "a SELL can never cross zero into a short": no symbol is ever
\* held in a negative quantity.
NoShort == \A a \in Accounts, s \in Symbols : pos[a][s] >= 0
==============================================================================
