-------------------------------- MODULE Breaker --------------------------------
(***************************************************************************)
(* The drawdown breaker of the primary account: portfolio_snapshot_loop    *)
(* follows the peak of the net liquidation value, halts trading at a       *)
(* drawdown of max_drawdown_pct and resumes below half of it; the peak is  *)
(* seeded from the snapshots at a restart, the halt is not.  The trading   *)
(* loops heed it and the day's loss limit at the head of their cycles.     *)
(* Values are steps of a grid, drawdowns percentages of the peak.          *)
(***************************************************************************)
EXTENDS Integers

CONSTANTS
    MaxValue,
    MaxDrawdown,   \* max_drawdown_pct
    MaxDailyLoss   \* max_daily_loss_pct

ASSUME BreakerAssumption ==
    /\ MaxValue \in Nat \ {0}
    /\ MaxDrawdown \in 1..100 /\ MaxDailyLoss \in 0..100

VARIABLES
    nlv,         \* what the account is worth
    online,      \* worker.ib.isConnected()
    loaded,      \* accountValues has arrived: before, get_net_liquidation returns 0
    snapshot,    \* where portfolio_snapshot_loop is
    seen,        \* the value it works with
    peak,        \* health["peak_nlv"]
    triggered,   \* health["drawdown_triggered"]
    recorded,    \* the largest PortfolioSnapshot
    dayOpen,     \* today's first PortfolioSnapshot
    cycle,       \* where each trading loop is: at its guards or past them
    unread       \* the snapshots could not be read at the start of this process

worldVars == <<nlv, online, loaded>>
recordVars == <<recorded, dayOpen>>
breakerVars == <<nlv, online, loaded, snapshot, seen, peak, triggered, recorded, dayOpen, cycle,
                 unread>>

Values == 0..MaxValue
Loops == {"main_loop", "discovery_loop", "cash_sweep_loop"}
NoSnapshot == -1

BreakerTypeOK ==
    /\ nlv \in 1..MaxValue /\ online \in BOOLEAN /\ loaded \in BOOLEAN
    /\ snapshot \in {"starting", "asleep", "alerting", "saving"}
    /\ seen \in Values /\ peak \in Values /\ triggered \in BOOLEAN
    /\ recorded \in Values /\ dayOpen \in Values \cup {NoSnapshot}
    /\ cycle \in [Loops -> {"guards", "trading"}] /\ unread \in BOOLEAN

BreakerInit ==
    /\ nlv = MaxValue /\ online = FALSE /\ loaded = FALSE
    /\ snapshot = "starting" /\ seen = 0
    /\ peak = 0 /\ triggered = FALSE
    /\ recorded = 0 /\ dayOpen = NoSnapshot
    /\ cycle = [loop \in Loops |-> "guards"] /\ unread = FALSE

GetNetLiquidation == IF loaded THEN nlv ELSE 0
Larger(m, n) == IF m >= n THEN m ELSE n

\* A query that fails seeds nothing.
StartSnapshots ==
    /\ snapshot = "starting" /\ snapshot' = "asleep"
    /\ unread' \in BOOLEAN
    /\ peak' = (IF unread' THEN 0 ELSE recorded)
    /\ UNCHANGED <<worldVars, seen, triggered, recordVars, cycle>>

\* (peak - value) / peak in per cent against a limit, kept in whole numbers.
DownBy(top, value, percent) == 100 * (top - value) >= percent * top
WithinHalf(top, value) == 200 * (top - value) < MaxDrawdown * top

\* Below half the limit trading goes on by itself.
Resumes(top, value) == triggered /\ WithinHalf(top, value)

TakeSnapshot ==
    /\ snapshot = "asleep" /\ online
    /\ seen' = GetNetLiquidation
    /\ peak' = Larger(peak, seen')
    /\ LET trips == peak' > 0 /\ DownBy(peak', seen', MaxDrawdown) /\ ~triggered
           resumes == peak' > 0 /\ Resumes(peak', seen')
       IN /\ triggered' = ((triggered \/ trips) /\ ~resumes)
          /\ snapshot' = IF trips THEN "alerting" ELSE "saving"
    /\ UNCHANGED <<worldVars, recordVars, cycle, unread>>

\* The alert goes out, or raises and the snapshot is not recorded.
AlertDone ==
    /\ snapshot = "alerting"
    /\ \/ snapshot' = "saving" /\ UNCHANGED seen
       \/ snapshot' = "asleep" /\ seen' = 0
    /\ UNCHANGED <<worldVars, peak, triggered, recordVars, cycle, unread>>

SaveSnapshot ==
    /\ snapshot = "saving" /\ snapshot' = "asleep" /\ seen' = 0
    /\ \/ /\ recorded' = Larger(recorded, seen)
          /\ dayOpen' = (IF dayOpen = NoSnapshot THEN seen ELSE dayOpen)
       \/ UNCHANGED recordVars
    /\ UNCHANGED <<worldVars, peak, triggered, cycle, unread>>

SnapshotStep == StartSnapshots \/ TakeSnapshot \/ AlertDone \/ SaveSnapshot

\* _exceeds_daily_loss_limit; no snapshot of today, or no value, is no loss.  Its query does
\* not fail here.
ExceedsDailyLoss ==
    /\ MaxDailyLoss > 0
    /\ dayOpen # NoSnapshot /\ GetNetLiquidation > 0
    /\ 100 * (dayOpen - GetNetLiquidation) > MaxDailyLoss * dayOpen

\* Mutant: discovery looks at the day's loss only.
DiscoveryUnguarded ==
    /\ cycle["discovery_loop"] = "guards"
    /\ ~ExceedsDailyLoss
    /\ cycle' = [cycle EXCEPT !["discovery_loop"] = "trading"]
    /\ UNCHANGED <<worldVars, snapshot, seen, peak, triggered, recordVars, unread>>

\* A loop passes its guards ...
PassesGuards(loop) ==
    /\ cycle[loop] = "guards"
    /\ ~triggered /\ ~ExceedsDailyLoss
    /\ cycle' = [cycle EXCEPT ![loop] = "trading"]
    /\ UNCHANGED <<worldVars, snapshot, seen, peak, triggered, recordVars, unread>>

MainPasses == online /\ PassesGuards("main_loop")
SweepPasses == online /\ PassesGuards("cash_sweep_loop")
\* Discovery does not ask for the connection.
DiscoveryPasses == PassesGuards("discovery_loop")

\* ... and trades until its cycle is over.  The re-rating, audit and DRIP loops have no
\* such guards.
EndCycle(loop) ==
    /\ cycle[loop] = "trading"
    /\ cycle' = [cycle EXCEPT ![loop] = "guards"]
    /\ UNCHANGED <<worldVars, snapshot, seen, peak, triggered, recordVars, unread>>

----------------------------------------------------------------------------
MoveValue ==
    /\ nlv' \in {nlv - 1, nlv + 1} \cap (1..MaxValue)
    /\ UNCHANGED <<online, loaded, snapshot, seen, peak, triggered, recordVars, cycle, unread>>

\* A connection starts with no account values.
ConnectOrLose ==
    /\ online' = ~online /\ loaded' = FALSE
    /\ UNCHANGED <<nlv, snapshot, seen, peak, triggered, recordVars, cycle, unread>>

ValuesArrive ==
    /\ online /\ ~loaded /\ loaded' = TRUE
    /\ UNCHANGED <<nlv, online, snapshot, seen, peak, triggered, recordVars, cycle, unread>>

NewDay ==
    /\ dayOpen # NoSnapshot /\ dayOpen' = NoSnapshot
    /\ UNCHANGED <<worldVars, snapshot, seen, peak, triggered, recorded, cycle, unread>>

\* The process starts again: what is in memory is lost, the halt among it.
RestartBreaker ==
    /\ snapshot' = "starting" /\ seen' = 0 /\ peak' = 0 /\ triggered' = FALSE
    /\ online' = FALSE /\ loaded' = FALSE
    /\ cycle' = [loop \in Loops |-> "guards"]
    /\ UNCHANGED <<nlv, recordVars, unread>>

BreakerNext ==
    \/ SnapshotStep
    \/ MainPasses \/ SweepPasses \/ DiscoveryPasses \/ \E loop \in Loops : EndCycle(loop)
    \/ MoveValue \/ ConnectOrLose \/ ValuesArrive \/ NewDay \/ RestartBreaker

BreakerSpec == BreakerInit /\ [][BreakerNext]_breakerVars

----------------------------------------------------------------------------
Running == snapshot # "starting" /\ online /\ loaded

DeepDrawdown == recorded > 0 /\ DownBy(recorded, nlv, MaxDrawdown) /\ ~unread

\* A portfolio that stays down by the limit from the largest value ever recorded, in this
\* process or before it, or by the day's limit from today's first, ends up traded by none
\* of the loops that open positions, whatever was read, alerted or saved on the way.  That
\* a query of the day's loss may fail, and counts as no loss, is left out.
LossHalts ==
    <>[](Running /\ (DeepDrawdown \/ ExceedsDailyLoss)) =>
        <>[](\A loop \in Loops : cycle[loop] = "guards")

\* The alert, portfolio/loops.py:83: "All trading halted.  Review positions and reset
\* manually."  Nothing but a new process lifts the halt; the loop does it by itself.
HaltedUntilReset == [][triggered /\ ~triggered' => snapshot' = "starting"]_breakerVars
=============================================================================
