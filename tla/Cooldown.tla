------------------------------ MODULE Cooldown ------------------------------
(***************************************************************************)
(* The automatic side of _dispatch_signal: a confident signal is executed  *)
(* unless the same order has failed recently.  Several loops of several    *)
(* accounts dispatch at once in one asyncio loop, humans approve orders    *)
(* beside them, and all write trade_history, where the cooldown looks.     *)
(* What is below the thresholds, or is a SELL of an explicit zero quantity, *)
(* never gets here; module Signals has the rest of the handler.            *)
(***************************************************************************)
EXTENDS Integers

CONSTANTS
    Actors,        \* loops that dispatch, and humans who approve
    Humans,        \* those of them whom no cooldown holds back
    Symbols,
    Deals,         \* the orders, <<symbol, side>>, an actor comes up with
    Vetoes,        \* the rejections execute_trade comes to
    ErrorWindow,   \* 15 minutes
    HourWindow,
    DayWindow,
    MaxBypasses    \* bound on calls that no cooldown holds back

Rejections == {"REJECTED_FUNDS", "REJECTED_CONCENTRATION", "REJECTED_COMPLIANCE"}

ASSUME CooldownAssumption ==
    /\ Humans \subseteq Actors
    /\ Symbols # {}
    /\ Deals \in [Actors -> SUBSET (Symbols \X {"BUY", "SELL"})]
    /\ Vetoes \subseteq Rejections
    /\ ErrorWindow \in Nat /\ HourWindow \in Nat /\ DayWindow \in Nat
    /\ ErrorWindow < HourWindow /\ HourWindow < DayWindow
    /\ MaxBypasses \in Nat

Sides == {"BUY", "SELL"}
Failures == Vetoes \cup {"IBKR_ERROR"}

\* Ages are counted up to Old, where no window reaches any more.
Old == DayWindow + 1
Ages == 0..Old

VARIABLES
    pc,       \* where an actor's call of execute_trade is suspended
    order,    \* the symbol and side it is about
    blind,    \* the call went on without a cooldown
    bypasses, \* how many such calls there were
    since,    \* age of its PRE_ORDER row
    failed    \* trade_history: age of the youngest row of each failure, by the
              \* actor that wrote it, which only the properties look at

cooldownVars == <<pc, order, blind, bypasses, since, failed>>

Places == {"idle", "vet", "sent"}
Orders == Symbols \X Sides

CooldownTypeOK ==
    /\ pc \in [Actors -> Places]
    /\ order \in [Actors -> Orders]
    /\ blind \in [Actors -> BOOLEAN]
    /\ bypasses \in 0..MaxBypasses
    /\ since \in [Actors -> Ages]
    /\ failed \in [Actors -> [Orders -> [Failures -> Ages]]]

NoOrder == <<CHOOSE s \in Symbols : TRUE, "BUY">>

CooldownInit ==
    /\ pc = [x \in Actors |-> "idle"]
    /\ order = [x \in Actors |-> NoOrder]
    /\ blind = [x \in Actors |-> FALSE]
    /\ bypasses = 0
    /\ since = [x \in Actors |-> Old]
    /\ failed = [x \in Actors |-> [o \in Orders |-> [f \in Failures |-> Old]]]

\* How long a failure holds back the same order.
Window(f, side) ==
    CASE f = "IBKR_ERROR" -> ErrorWindow
      [] f # "IBKR_ERROR" /\ side = "BUY" -> DayWindow
      [] OTHER -> HourWindow

\* Mutant: rejections for concentration are not looked for.
CoolingDownButConcentration(o) ==
    \E x \in Actors, f \in Failures \ {"REJECTED_CONCENTRATION"} :
        failed[x][o][f] <= Window(f, o[2])

\* trade_history holds a failure of this order within its window, whoever made
\* it and for whichever account.
CoolingDown(o) == \E x \in Actors, f \in Failures : failed[x][o][f] <= Window(f, o[2])

Start(x, o, b) ==
    /\ pc[x] = "idle"
    /\ pc' = [pc EXCEPT ![x] = "vet"]
    /\ order' = [order EXCEPT ![x] = o]
    /\ blind' = [blind EXCEPT ![x] = b]
    /\ UNCHANGED <<since, failed>>

\* A loop's confident signal passes the cooldown and execute_trade suspends to vet it.
Dispatch(x, o) ==
    /\ x \notin Humans
    /\ ~CoolingDown(o)
    /\ Start(x, o, FALSE)
    /\ UNCHANGED bypasses

Bypass(x, o) ==
    /\ bypasses < MaxBypasses
    /\ bypasses' = bypasses + 1
    /\ Start(x, o, TRUE)

\* The query raised: the exception is swallowed and the call goes on without it.
DispatchUnchecked(x, o) == x \notin Humans /\ Bypass(x, o)

\* POST /approve and the Telegram button: no cooldown is looked at.
Approve(x, o) == x \in Humans /\ Bypass(x, o)

\* The call returns.
Return(x) ==
    /\ pc' = [pc EXCEPT ![x] = "idle"]
    /\ order' = [order EXCEPT ![x] = NoOrder]
    /\ blind' = [blind EXCEPT ![x] = FALSE]

\* execute_trade has vetted the order and written the row of its rejection.
Reject(x, f) ==
    /\ pc[x] = "vet"
    /\ failed' = [failed EXCEPT ![x][order[x]][f] = 0]
    /\ Return(x)
    /\ UNCHANGED <<bypasses, since>>

\* It ends another way: with a rejection no cooldown looks for, or with one for a
\* read-only account, which leaves no row.
Refuse(x) ==
    /\ pc[x] = "vet"
    /\ Return(x)
    /\ UNCHANGED <<bypasses, since, failed>>

\* The PRE_ORDER row is committed and the broker called.
Place(x) ==
    /\ pc[x] = "vet"
    /\ pc' = [pc EXCEPT ![x] = "sent"]
    /\ since' = [since EXCEPT ![x] = 0]
    /\ UNCHANGED <<order, blind, bypasses, failed>>

\* The broker took the order.
Placed(x) ==
    /\ pc[x] = "sent"
    /\ since' = [since EXCEPT ![x] = Old]
    /\ Return(x)
    /\ UNCHANGED <<bypasses, failed>>

\* The call failed: the row becomes IBKR_ERROR and keeps its created_at.
PlaceFails(x) ==
    /\ pc[x] = "sent"
    /\ failed' = [failed EXCEPT ![x][order[x]]["IBKR_ERROR"] = since[x]]
    /\ since' = [since EXCEPT ![x] = Old]
    /\ Return(x)
    /\ UNCHANGED bypasses

\* Mutant: an age stays below the shortest window, as when updated_at were asked for
\* and every look touched it.
OlderTouched(n) == IF n \in {ErrorWindow, Old} THEN n ELSE n + 1

\* Mutant: ages are counted on.
OlderOn(n) == n + 1

Older(n) == IF n = Old THEN Old ELSE n + 1

Tick ==
    /\ since' = [x \in Actors |-> Older(since[x])]
    /\ failed' = [x \in Actors |-> [o \in Orders |-> [f \in Failures |-> Older(failed[x][o][f])]]]
    /\ UNCHANGED <<pc, order, blind, bypasses>>

\* The process dies and starts again.  A row left PRE_ORDER is no failure.
Restart ==
    /\ pc' = [x \in Actors |-> "idle"]
    /\ order' = [x \in Actors |-> NoOrder]
    /\ blind' = [x \in Actors |-> FALSE]
    /\ since' = [x \in Actors |-> Old]
    /\ UNCHANGED <<bypasses, failed>>

CooldownNext ==
    \/ \E x \in Actors :
        \/ \E o \in Deals[x] : Dispatch(x, o) \/ DispatchUnchecked(x, o) \/ Approve(x, o)
        \/ \E f \in Vetoes : Reject(x, f)
        \/ Refuse(x) \/ Place(x) \/ Placed(x) \/ PlaceFails(x)
    \/ Tick
    \/ Restart

CooldownSpec == CooldownInit /\ [][CooldownNext]_cooldownVars

----------------------------------------------------------------------------
\* A loop has no order under way of which the same order of its own failed within
\* the window: no retry storm, unless the cooldown could not be read.  Other actors'
\* awaits, restarts, and the age of an IBKR_ERROR row, which counts from before the
\* broker was called, lie between the check and the failure.
BacksOff ==
    \A x \in Actors :
        pc[x] # "idle" /\ ~blind[x] =>
            \A f \in Failures : failed[x][order[x]][f] > Window(f, order[x][2])

\* An order is not held back for ever: the cooldown is lifted again and again, although
\* loops of other accounts and a human renew it.
CooldownEnds == \A o \in Orders : []<>~CoolingDown(o)
============================================================================
