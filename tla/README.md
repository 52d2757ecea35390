# Verification of ibkr-trader-core

TLA+ models of the trading core of this repository, the TLC runs that check them and the
TLAPS proofs about them. Paths below are relative to `src/ibkr_core/` unless they start
with `src/`.

To check: `tlc -config X.cfg MCY.tla` for each run of the table below, `tlapm Z_proofs.tla`
for each proof module.

## 1. The system

A FastAPI process with one asyncio loop. Background loops decide what to trade, one
`IBKRWorker` per account talks to Interactive Brokers through ib_insync, SQLAlchemy
sessions on SQLite keep the ledger, JSON files keep the loops' small state, and a few
synchronous endpoints and all database writes of broker callbacks run in threads.

| Component | State | Operations | Correct when |
|---|---|---|---|
| State machine (`core/state.py`) | state of one call | `transition_to` | every state a call ends in is reachable from where it stands |
| Order execution (`features/trading/trader.py`) | `trade_history`, `audit_logs`, `twap_executions` | `execute_trade`, `_run_twap_slices`, `resume_pending_twap` | no order without a row and an audit entry, one order per call, rows tell what the broker did, no more slices than planned |
| Worker (`worker.py`) | connection, positions cache, reconnect task | `place_order`, `place_bracket_order`, status callbacks, `_reconnect` | a SELL never goes short, updates hit the right row, a lost connection is recovered |
| Reconciliation (`reconciliation.py`) | none, rewrites pending rows | `reconcile_with_ibkr` | pending rows end as what happened, others are left alone |
| Accounts (`accounts_router.py`, `account_manager.py`, `order_policy.py`, `main.py`) | `accounts`, the workers | create, patch, deactivate, boot guard, seed | real and simulated money never traded in one process, nothing armed without a human |
| Trading loops (`loops.py`) | cooldowns, high-water marks, partial exits, DRIP state (JSON) | `main_loop`, cash sweep, DRIP, discovery, rerating | no share sold twice, the floor watched, no order in a cooldown, no dividend spent twice |
| Signals (`router.py`, `alerts/telegram_bot.py`) | `pending_signals` | dispatch, approve, resolve, panic, batch sell | a signal is bought at most once, a panic reports what happened |
| Portfolio (`features/portfolio/`) | snapshots, drawdown breaker, peak | snapshot loop, allocator | a lasting drawdown ends up traded by nobody; the halt lives in memory and a restart derives it anew from the recorded peak |
| Audit chain (`core/audit.py`) | hash chain over `audit_logs` | append, verify, SAFE MODE | one chain, every entry verifiable, no alarm without tampering |
| Compliance (`features/compliance/`) | `position_compliance`, the screening cache, `manual_compliance.json` | screening, audit loop with kill switch | what is missing or over a limit never passes, and what is held and goes bad is sold |
| Zakat (`features/zakat/`) | purification ledger, `hawl.json` | hawl, purification, reminders | the year runs while nisab is kept, and a message goes out when it is due |
| Settings, market hours, alerts, gateway, frontend | JSON settings; none | load, validate; date tables; messages | — |

**How they interact.** Loops and endpoints call `Trader.execute_trade`, which awaits the
screen, prices and balances, commits PRE_ORDER, calls the worker, and commits the order id
to the audit entry and then to the row. The broker answers through status events, which
the loop hands to a thread that finds the row by order id. A lost connection starts
`_reconnect`, which reconciles when it succeeds. `main_loop` connects too, and does not.

**What is hard.** Callbacks and reconciliation between the broker call and the commit of
its id; threads that commit between a coroutine's read and its write; crashes between any
two commits; restarts that do not reconcile; caches read while disconnected; checks that
others overtake; loops that sell the same position; per-account things keyed without the
account; data that is missing taken for data that is good or bad. `PROJECT.json` lists each
such hazard at its line, with the properties that watch it or why none does.

## 2. The modules

| Module | Models | Depends on |
|---|---|---|
| `TradeStates` | `TradeState`, `_allowed_transitions`, `transition_to` | — |
| `OrderGate` | what `execute_trade` promises: vet, commit the intent, send once, or refuse | — |
| `TradeExecution` | calls, rows, orders, callbacks, reconnect, reconciliation, crash and boot | `TradeStates`, refines `OrderGate` |
| `Twap` | `twap_executions`, the slice task, the cancel endpoint, crash and boot | — |
| `Arming` | `accounts`, its endpoints, seed and boot guard, worker choice, read-only gate | — |
| `Cooldown` | `_dispatch_signal` above the automatic threshold: cooldowns over `trade_history` | — |
| `Signals` | `_dispatch_signal` below it, `pending_signals`, the Telegram poll, its buttons and approval tasks | — |
| `Exits` | `main_loop` over one symbol: marks, exit rules, trim, entries, rebalance; the loops and the desk that trade it too; the JSON files accounts share | — |
| `Screening` | the sources, their merge, the ratio, business and certifier rules | — |
| `ComplianceAudit` | the screening cache, manual verifications, `compliance_audit_loop` with its kill switch | `Screening` |
| `Breaker` | `portfolio_snapshot_loop`, the drawdown breaker, the day's loss limit, the loops that heed them | — |
| `Hawl` | `hawl.json`, its monitoring loop, its page, the payment | — |
| `AuditChain` | `secure_log_entry`, `verify_audit_chain`, `audit_integrity_loop` and SAFE MODE | — |
| `Drip` | `halal_drip_loop` and `drip_state.json` | — |
| `*_proofs` | the theorems about the module they are named after; `Background_proofs` those about `ComplianceAudit`, `AuditChain` and `Drip` | TLAPS |
| `MC*` | constants of the runs | the module they are named after |
| `MCPacing` | `Twap` and `Cooldown` in one run, one of them moving at a time | those |
| `MCBackground` | the composition of `ComplianceAudit`, `Breaker`, `Hawl`, `AuditChain` and `Drip`, with the symbols to screen | those |

Operators named in a comment as a *Mutant* are plausible bugs in the definition that
follows them. No model uses them; they document what each property would catch.

### TradeExecution

One element of `Trades` is one call. An action is what a coroutine does from one `await`
to the next. asyncio lets nobody else in between, but a crash, a database thread or the
broker can come between two commits of such a stretch. There it is cut, and `LoopFree`
keeps the other coroutines out until it is over (`pc` in `audit_id`, `history`; `rec` in
`commit`).

| `pc` | suspended at |
|---|---|
| `screen` | `async_shariah_screen` |
| `price` | `get_last_price` and the FX rate |
| `funds` | the three balance reads (sizing, cash, concentration) |
| `slippage` | `_check_slippage_liquidity` |
| `held` | the positions of a SELL |
| `place` | contract qualification, ATR, volume: the awaits before `ib.placeOrder` |
| `quote` | the limit price of a plain order, after the no-short guard |
| `ack` | the acknowledgement of a bracket, after its orders went out |
| `audit_id`, `history` | between the broker call's return, the commit of the audit entry and the commit of the row |

`row[t]` is the call's `trade_history` row (state and order id), `audit`/`auditId` its
audit entry, `order`/`orderId` what the broker has. `inbox` holds status messages the loop
has not dispatched, `tasks` those handed to a thread. `cache` is the 30-second positions
cache: empty or one set of symbols; a read may use it however old it is, which is more
than the code allows (30 s) but not more than a call that is slow enough sees. `rec` is the
reconnect task; in `alert` it awaits its message with `_reconnecting` still set, so that a
connection lost there schedules nothing (`Alerted`). Possession
and settlement are outcomes of a SELL's checks, except the healing of a BUY row, which is
modelled as it rewrites a row. Amounts are lots; sizes, fees, limits and settlement ages
decide between outcomes and are free choices.

The broker (fills, cancellations, resting bracket children, what `positions()` and
`openTrades()` list) is external: it may do anything an order allows, at any time.

### Twap

`status` and `submitted` are the row's, `slice` is the task's loop index, `sent` what the
broker got. `Record` counts a slice: the first one in `execute_trade` without looking
whether it was the last, the others in the task, on the row it loaded before the slice
went out. That is how a slice in flight turns CANCELLED into COMPLETED. `CancelCheck` and
`CancelCommit` are apart because the endpoint runs in a thread.

### Arming

`rows` is the table. A request is first checked and later committed. `asked` holds
the pending ones; `patch_account` runs on the loop, so there is one patch at a time, while
creates and deactivations run in threads. A patch commits only the fields it changes.
`Safe` is the guard with the code's choice of what it looks at: requested `is_active` and
`read_only`, stored `is_paper` and `port`. Ports are classes (`LIVE_PORTS`, `PAPER_PORTS`,
neither). Connections, client ids and the uniqueness check on them are not modelled.

### Cooldown

An actor is a loop that dispatches, or a human who approves (`/approve`, the Telegram
button). `failed[x][o][f]` is the age of the youngest row in which a call of `x` about the
order `o` (symbol and side) ended in failure `f`; ages are counted in steps of the clock,
up to `Old`, where no window reaches. The query of `_dispatch_signal` looks at symbol, side
and state only, so `CoolingDown` ranges over all actors: one account's failure holds the
others back. `execute_trade` is three steps, because an actor suspended in it has passed its
check already. `since` is the age of the PRE_ORDER row: an IBKR_ERROR keeps its
`created_at`, and so counts from before the broker was called. The windows are 15 minutes,
an hour and a day in the code, numbers in this order here.

### Signals

`open[k]` and `closed[k]` count the rows of a key (symbol, action, account) that are not
resolved and that are; the dedupe looks at both. `Announce` is apart from `Queue` because
the broadcast to the websockets is awaited between them, and `Sent` from `Announce` because
the key is remembered in `_signal_alerted` before `send_alert` is awaited. `Sent` delivers or
not, and nobody looks; `Announce` may be muted by `notify_signals`; the insertion may fail
and the message go out all the same. `unsaid` remembers the keys a message of which came to
nothing. `chat` is what the human can press.
`presses` are the callbacks in the order Telegram numbers them, `acked` those it has
dropped, `offset` and `fetched` the loop's place in the batch it has in hand. Between two
callbacks of a batch the loop does not await, except after a choice of account (`saying`),
so tasks run when the batch is over or the loop is there (`LoopFree`). A task first resolves
the account, with what is selected by then, and executes after the screen. `Restart` sends
the loop back to what Telegram has not dropped.

### Exits

`pc` is where the account's cycle is suspended:

| `pc` | between |
|---|---|
| `sleep` | cycles |
| `listed` | `get_positions` and `get_open_orders` at the head of a cycle, two awaits |
| `looked`, `peak` | the read and the write of `hwm.json` in `_update_hwm`'s thread |
| `judge` | the mark in hand and the exit rules |
| `partial`, `exit`, `profit` | an exit rule's dispatch: the screen and the order are awaited, the marks come after |
| `trim` | the exits and the check of `max_positions` |
| `buy`, `entering` | a signal past the re-entry cooldown and its BUY |
| `rebalance` | the entries and the strategy's own SELLs |

`view` is what the head of the cycle read (positions, then open orders) and everything after
it goes by. `lot` and `working` are what the broker holds: the position (negative when short)
and the shares under working SELLs. `answer` is the quantity `get_positions` gives: for 30
seconds it is that of an earlier moment, for the loop and for the guards of `execute_trade` and
`place_order` alike, until `Refresh`; price and cost are those of the moment, which only the
rules look at. An order either gets there (`...Sent`, clamped to `answer`) or not (`...Unsent`,
`...Skipped`, `...Refused`); what `execute_trade` does in between is `TradeExecution`'s.
`ExitSent` and `ExitUnsent` both end in `Mark`, since the loop does not look at the result;
`ExitSentThenDies` is a crash between the order and its mark. The files have no account in their key, so
loops of other accounts write them (`OtherWritesHwm`, `OtherSellsPart`, `OtherExits`).
`Foreign` says that the symbol carries an exchange suffix: `get_positions` has it,
`get_open_orders` has not, and `SeesSelling` never holds for it.

Fills, cancellations, prices, halts and the passing of weeks are the environment's. Sweep,
discovery, re-rating and the desk's buttons are in the code and are actions of their own, at
any moment of the cycle. Prices are steps of a grid and the percentages of the settings
distances on it; lots are shares, halved upwards by a partial exit.

### Screening and ComplianceAudit

A symbol is a record of what each source answers: Yahoo's figures and kind, FMP's, Alpha
Vantage's, Zoya's and Musaffa's words, the two allowlists. A company may report in another
currency (`foreign`), a unit of which is worth `worth` tenths of the trading currency, where the
`rate` is known at all; `FetchYfinance` converts its debt, cash and revenue (`Converted`) and
neither its securities nor its impure income, and nobody converts FMP's and Alpha Vantage's
amounts, as in the code. `InOneCurrency` says of which companies everything that counts was
converted, `TrueFigures` what their figures are. `FetchFinancialData` merges the
figures, `LiveShariahScreen` gives the verdict, `CheckShariahCompliance` is the second copy
of the rules behind `POST /screen`. Amounts are thousandths of the market capitalisation; a
missing figure is 0, as in the code. `Sourced` and `WithinLimits` say independently of the
merge and of the rules what a company must be to pass.

In `ComplianceAudit` one symbol of that kind is traded. `cached` is the entry of
`_screen_cache`, `fill` a screen that was started and has not stored its verdict: the code
drops an entry by its key and cannot reach a screen under way, so such a verdict is `late`.
The audit's `step`s are the awaits of `compliance_audit_loop`. `AuditRaises` is the handler
around the whole of it. The SELL goes to the primary account's trader whoever holds the
shares (`holding`), and `int(qty)` of a fraction is 0.

### Breaker

`snapshot` is the place of `portfolio_snapshot_loop`: trips are judged in `TakeSnapshot`,
the alert may raise (`AlertDone`) and the record may fail (`SaveSnapshot`). `loaded` is
apart from `online`, because `get_net_liquidation` returns 0 until account values have
arrived. `cycle` tells for each of the loops that open positions whether it is at its guards
or past them; past them it trades to the end of its cycle, whatever trips. `RestartBreaker`
loses `peak` and `triggered`; `StartSnapshots` seeds the peak from the snapshots, or not, when
the query fails. The query of `_exceeds_daily_loss_limit` does not fail here: in the code an
exception in it (loops.py:286-288) counts as no loss, so `LossHalts` says nothing of a day's
limit that cannot be read.

### Hawl, AuditChain, Drip

`Hawl`: `update_hawl` is `FindValue` (the portfolio), `LoadHawl`, `TruncateHawl` and
`WriteHawl`, once for the loop and once for the page; between truncation and write the file
is `Torn` and reads as a year not started. `due` is the age the clock should have;
`crossed` records that an update, a payment or a crash came between the steps of another.
`JudgeHawl` sets the flag `_hawl_alerted_due` whatever became of the message; `message` tells
whether it was `told` or `lost`.
`AuditChain`: `secure_log_entry` is one action because nothing is awaited between its read
of the tail and its commit, and only the event loop's thread calls it. Rows are changed and
removed behind its back.
`Drip`: `ledger` is the symbol's entry, `dues` what the loop read before it awaits screen,
session and price. A BUY that reached the broker is booked even if it never fills, and is not
when it raises in the wait for its acknowledgement (`DripErrs`), when the entry cannot be saved
(`SaveFails`) or the process dies (`DripDies`). A file that cannot be read is an empty one:
`ReadDues` then finds nothing reinvested, and what is saved next drops the other holdings'
entries (`OthersSave`) or writes over this one. `slips` counts these.

`MCBackground` composes these parts with the screen. They share no variable and no file, so
their interleavings add nothing: `active` picks the part that moves, and the others keep
still. What they do to positions is in `Exits` (`DeskSells` stands for the kill switch,
`halted` for the breaker).

## 3. The runs

| Run | Question | Bounds | Result |
|---|---|---|---|
| `exec_safety` | are orders recorded, traceable, and rows true? | a bracket BUY and a SELL of one symbol, one account that may turn read-only, 1 crash | holds, 626 000 states |
| `exec_recovery` | does it implement `OrderGate`, and do calls and pending rows come to an end? | one bracket BUY, 1 crash | holds, 10 700 states |
| `pacing` | TWAP: slices, completion, cancellation, termination. Cooldown: does a loop ever repeat its own failed order within the window; does a cooldown end? | 2 executions, 3 slices, 1 crash; two loops and a human, one symbol, one rejection and broker errors, windows 0, 1, 2, one bypass | holds, 115 000 states |
| `arming_table` | can requests put armed live beside active paper; does a boot arm? | 2 accounts, all rows, all ports | holds, 500 000 states |
| `arming_boot` | does a cold boot stay disarmed? | 2 accounts | **violated** by the worker made from the environment |
| `signals_buttons` | one row per signal, each asked about; what does a press do? | two accounts with a loop each, one symbol, 2 presses, 1 message or insertion that fails, 1 crash | holds, 601 000 states |
| `exits_cycle` | are shares sold twice, floors forgotten? | 3 prices, one BUY of 2 shares with a bracket, at most 2 shares under SELLs before another is sent, 1 share short, one intervention from outside | holds, 1 570 000 states |
| `background` | does the screen fail closed; are tainted holdings sold, losses halted, due years sent; are alarms true, dividends booked once? | some 3 000 symbols with 4 buffers; 6 reports; values 1 to 3; a year of 2 days and one crash; 3 audit rows; 2 shares, 2 slips | holds, 271 000 states |
| `exits_foreign` | does a resting SELL park a foreign listing? | as `exits_cycle`, abroad | **violated**: the bare symbol is compared with the suffixed one |
| `audit_gap` | is a data gap never liquidated? | as `background` | **violated** by a balance sheet without a debt figure |
| `drip_received` | is what is reinvested what was received? | 2 shares | **violated** by a position bought after the dividends |
| `breaker_reset` | does the halt last until a human lifts it? | values 1 to 3 | **violated** by the loop itself, at half the limit |

The violated ones are disagreements between code and its documents or comments, quoted in
`PROJECT.json` under `findings`; what the code does instead is what the passing runs hold
to.

**Disagreements without a run.** Some have their property in a module, with a comment that
quotes the document, and are found by adding it to a configuration of that module:

- `NeverReachedIBKR` (`TradeExecution`): reconciliation.py:40 takes a row without an id for
  an order that was never submitted; a crash before the id is committed leaves one that was,
  and so does a bracket whose acknowledgement failed. There is no third way: of plain orders
  whose call returned it is a theorem (`WrittenOffNeverSent`).
- `HealedOnRestart`: docs/DEPLOYMENT.md:476, "Reconciliation runs on restart". It runs
  after a reconnect; `main_loop`'s own connection does not reconcile.
- `NoShort`: trader.py:751, "a SELL can never cross zero into a short". Two SELLs clamp
  to the same holding, and a SELL and a bracket's resting child sell it twice. Where neither
  happens it is a theorem (`SoleSellersNeverShort`).
- `NeverArmedBesidePaper` (`Arming`): accounts_router.py:82, "the state the patch WOULD
  produce"; a patch of `is_paper` or `port` is judged by the stored row.
- `NoDoubleBuy` (`Signals`): docs/DISASTER_RECOVERY.md:12; a press redelivered after a
  crash is bought again.
- `ButtonAppears` (`Signals`): docs/DEPLOYMENT.md:367, below the threshold a "Telegram approval
  button appears". `_signal_alerted` is set before `send_alert`, telegram.py:31 swallows what
  fails there, and the dedupe never comes back to the row: a muted, a lost or a cut-off message
  leaves it without a button for good. `QueuedIsAsked` excepts exactly the keys this happened to.
- `FlagMeansTold` (`Hawl`): zakat/loops.py:15, "prevent repeat alerts once already notified". The
  flag is set whatever `send_telegram` returned, so that a lost message is not sent again in this
  process. `DueIsSent` says that it is sent, not that it arrives.
- `NeverShorts` (`Exits`): worker.py:959, "a SELL may never exceed the live held quantity". Both
  guards look at positions of up to 30 seconds ago, and the open orders are read one await after
  the positions: a bracket's SELL that fills in between is neither a working order nor missing
  from the answer, and the exit sells its shares again. `Covered` excepts the position that
  shrank before the open orders were read (`outdated`), and holds with answers of any age.
- `ForeignKeepsLimits` (`MCBackground`: `ScreenForeignKeepsLimits`): data_fetcher.py:547, "Convert
  to trading currency". Interest-bearing securities and prohibited income of a foreign reporter
  are not converted, nor are the amounts that FMP fills in: a company whose impure income is over
  the limit passes. `ScreenFailsClosed` holds such a company to the limits where all that counts
  was converted (`InOneCurrency`), and to everything else in any case.

Others were met while modelling and are part of the models as the code has them:

- A fill that arrives while `place_bracket_order` waits for its acknowledgement finds no row,
  so docs/DISASTER_RECOVERY.md:10, "The database stores the exact state of every order",
  holds of plain orders only (`PlainLedgerExact`). Reconciliation judges the pending rows of
  every account by the positions of the one worker that reconnected. Nothing calls
  `resume_pending_twap`: an execution that a crash cuts off stays RUNNING.
- main.py:92 says that SAFE MODE stops trading "via status check in main_loop"; there is no
  such check. Orders are cancelled once and the loops go on (`LoggedTrade` has no guard).
- A net liquidation of 0, before account values arrive, trips the drawdown breaker and
  resets the lunar year. Re-rating, the compliance audit and DRIP do not heed the breaker,
  although its alert says that all trading stops; `LossHalts` is about the three loops with the
  guard.
- A bracket BUY of the DRIP loop that raises in the wait for its acknowledgement is at the broker
  and ends IBKR_ERROR (trader.py:862), which loops.py:1375 does not book; a `drip_state.json` that
  cannot be read is an empty one, and one that cannot be saved stays as it was. The same dividends
  are then reinvested again without a death. `LedgerCovers` charges each such slip with at most
  the dividends of twelve months.
- A partial exit is not made once: a death between the order and its mark repeats it
  (`ExitSentThenDies`), as does the full exit of another account, which clears the mark of the
  symbol (`OtherExits`); another account's partial exit suppresses it (`OtherSellsPart`). The
  models have all three and no property denies them.
- The mark of a partial exit, the re-entry cooldown and the end of a high-water mark are
  written whatever became of the SELL (`Mark`); trim and rebalance do not look at the exit
  the same cycle sent (`doubled`).
- `_position_entry_date` promises the earliest filled or submitted BUY and takes the earliest
  row of any state and account (`EnterRefused`); a time exit may date from a refused BUY.
- The kill switch sells a secondary account's shares through the primary's trader and
  reports LIQUIDATED whatever came back; a fraction of a share is neither sold nor alerted.
- Alpha Vantage's debt-to-equity ratio is taken for an amount of debt
  (data_fetcher.py:370), which is why `Sourced` asks for a figure and not for a true one.
- The verdict of a manual verification outlives its expiry in the cache by up to a day, and
  its removal if a screen is under way (`late`).
- `flatten_shorts` pressed twice before its first BUY fills ends long (`FlattenShorts`), and
  `emergency_liquidate` lists what it dispatched as liquidated.
- The last rows of the audit log can be removed without trace (`RemoveRow`).

**Why the bounds are enough.** One BUY and one SELL of its symbol on one account exercise
every way a call, a callback and a reconciliation meet on the same row or position; what
needs a second account or a second SELL has its own run. One crash followed by a restart
reaches every point of death; a second one repeats it on a state the first can leave. TWAP
executions are independent but for the crash, so two show that none touches the other, and
three slices give a first, a middle and a last. Two account rows are a live and a paper one
in all their variants; the guard only asks whether one of each kind exists. Two
loops and a human share one symbol, because the cooldown knows no account, and three
windows keep their order.

`Exits` needs one position, bought once: three prices put it at, below and above its cost by
every distance the rules know, two shares are the least that a partial exit divides, and one
intervention between any two steps of the loop shows what a stale look does; with the cap on
working SELLs at 2, two orders can overlap, and one share short is what selling twice costs. `Breaker`'s three values are a peak, a drawdown
over the day's limit that neither halts by the peak nor resumes, and one over both limits. A year of two days
has a first, a middle and a full age; one crash at any step of any update is every torn file.
Three audit rows have a first, a middle and a last. One lost message is one of each kind
between any two steps of its signal; two slips of the DRIP ledger show that their costs add up
to no more than the sum. The symbols to screen take, for every
figure, values missing, below, between the buffers and at a limit, in sets that vary the
figures, the gaps that other sources fill, the reporting currency, the certifications and the
overriding flags.

Two presses are a press and its overtaking, or a repetition; two
accounts make the choice matter. The theorems remove these bounds for the properties they
cover.

**Fairness.** `FairSpec` of `TradeExecution` has strong fairness for the steps that need
the loop, because asyncio runs ready callbacks first in, first out: others may take the
loop again and again, but a ready callback gets its turn. Database threads are weakly fair. The
operator need not trade, the broker need not execute or cancel. `RestartSpec` adds that a
dead process is restarted and its loops eventually connect. `RecoverySpec` adds the daily
gateway restart of `worker.py:364`: connections are lost and reconnect attempts succeed
again and again; without it `PendingRowsClosed` does not hold, since only `_reconnect`
reconciles. `Twap` assumes its coroutine goes on while the process runs (the interval
elapses, the broker call returns or raises) and an accepted cancel request is served.
`Cooldown` assumes only that time passes. `Signals` assumes that the bot polls and handles
what it has fetched and that its tasks go on; the human need not press and the process need
not survive. `Exits` assumes that the loop takes its next step, which every choice of
outcome is one of, and that no cached answer is kept for ever. In `MCPacing` and `MCBackground` the active part's loop takes its next step
(TWAP coroutine, compliance audit, snapshots, the lunar year's monitor), a trading loop's cycle ends, and days
pass; markets, values, connections and sources may do as they like, and the liveness
properties say which of them must settle (`<>[]Tainted`, `<>[]Outstanding`, ...).

Deadlock is not checked in the execution runs and `pacing`, where all calls may have returned
and the system rests, nor in the background, breaker and DRIP runs, where the bounds on rows, payments
and shares end a behaviour. It is checked in the other runs.

## 4. The proofs

All theorems are for every set of calls, accounts and symbols, every number of slices, and
any number of crashes, for every grid of prices and percentages, size of BUY and number
of BUYs and interventions, every length of the year, and every set of reports. They assume
the named assumptions on the constants
(`TradesAssumption`, `BoundsAssumption`, `TwapAssumption`, `ArmingAssumption`,
`CooldownAssumption`, `SignalsAssumption`, `ExitsAssumption`, `HawlAssumption`,
`AuditChainAssumption`, `DripAssumption`) and, where a theorem of `TradeExecution_proofs` says
so in its statement, a condition on the calls: `OneAccount` and `BoughtOnce`, which the instances
of `exec_safety` and `exec_recovery` satisfy, or `SoleSellers`.

- **`TradeExecution_proofs`**: `TypeCorrect`; `TraceInvariant`, the inductive invariant
  `TraceInv`; from it `OrdersAreRecorded`, `IdsAreTraceable`, `EndsAreLegalAlways` and
  `GateImplemented` (refinement of `OrderGate`). That every order has a row is not inductive:
  it says nothing of a call about to send. `TraceInv` adds, for each point a call can be
  suspended at, what it has committed by then (`Progress`), and for each id where it may
  stand and that the gateway's counter is past it (`Ids`). Most actions leave the call's
  point, row id and order alone; the lemmas on frames deal with them once.
- *Rows against the broker*, in the same module. `FilledBuysAreReal`: the claim that a BUY was
  executed gets into its row from a status message, from a position somebody read (which may
  be 30 s old, or a reconciliation's copy), or from what a reconciliation decided and has yet to
  commit. `BackedInv` says that none of the three makes the claim before the broker executed
  the order (`Unclaimed`, `Sincere`), and that a bracket child's id is no call's
  (`ChildId`), so that a take-profit's fill never marks another row. `PlainLedgersExact` adds
  `LedgerInv`: while nothing dies or disconnects nothing reconciles, a plain order is in hand
  (the loop held, its messages waiting in the inbox) or its row has the id, and a status write
  therefore finds its row. Both need `OneAccount`, because callbacks match ids and reconciliation
  reads positions without regard to the account, and `BoughtOnce`, because a position does not
  say which BUY it came from: with two plain BUYs on two accounts, with two BUYs of one symbol,
  or with a symbol held before it is bought, TLC finds counterexamples.
- *What the broker may be asked*, in the same module: `SoleSellersNeverShort`, for any number of
  accounts. `LotsInv` carries what the no-short guard saw, in a cache of any age, to the
  execution: nobody else sells those lots. `WrittenOffNeverSent`, for all accounts, crashes and
  reconciliations, from `FoundInv`: the id of a placed plain order is in hand, in the row, or
  gone with the process.
- **`Twap_proofs`**: `TwapTypes`, `NeverMoreThanPlanned`, `CompletedMeansWhole`,
  `CancellationStops`, `CancelledRowsStay`, from `TwapInv`: slice index, counted and
  sent slices are tied to the place of the coroutine (`Counts`), COMPLETED to the last
  slice (`Whole`), and what may go out after a cancellation to the place too (`Stopped`).
- **`Arming_proofs`**: `TypeCorrect`, `AdminKeepsApart`, `SeedsAreInert`, from `ArmingInv`:
  a pending request that nobody has overtaken and that leaves the kind of the account alone
  leads to the very table its check has judged (`Judged`).
- **`Cooldown_proofs`**: `CooldownTypes`, `BacksOffAlways`. Rows age and an actor writes only
  under its own name, so what was out of the window at the check stays out of it until the
  call returns; a call about the same order by the same actor is never under way twice.
- **`Signals_proofs`**: `TypeCorrect`, `QueuedOnce`, `BoughtOncePerLife`, `LandsWhereNamed`,
  from `SignalsInv`. That a press buys once per life is not inductive without where the
  bot has got to (`Progress`: dropped, handled, fetched and sent callbacks, in this order)
  and that a task not yet over has not bought in this life (`OnceEach`). Where a BUY lands
  rests on what is selected while a task has not started (`Wanted`). `QueuedAreAsked` adds
  that what the day's memory calls announced is in the chat, being sent, or among the messages
  that came to nothing (`RememberedIsSaid`), so that the memory swallows no other row.

- **`Exits_proofs`**: `ExitsTypes`; `ExitsCovered`, for symbols without a suffix. That working
  SELLs stay within the holding is not inductive: it says nothing of a cycle about to sell.
  `Apart` adds that between its look and its exit the shares the cycle means to sell are apart
  from those that work: when it read the open orders none worked and the position it had read
  was no larger than the one held, and BUYs, fills and cancellations since keep the sum within
  the holding. The age of the answer an order is clamped to plays no part in it.
- **`Background_proofs`**: `AlarmsAreTrue`, since without tampering the chain verifies after
  every append and every loss of its end (`ChainHolds`); `LedgerAccounts`, since what the
  loop read is still the ledger when it books, or nothing (`DripInv`), so that an entry lost or
  written over costs no more than a ledger can hold; `CacheForgets`, since a screen
  under way vouches by a verification only while there is one or it is marked (`CacheInv`).
  `ScreenClosed` and `ScreenOnlyTightens` are about the screen itself: for every symbol the
  sources may describe (`Symbols`: any natural amounts, business, kind and answers) and every
  integer buffer, over the merge of the sources. The lemmas follow the code: what
  each source fills in and never takes away (`FetchedTypes`, `SupplementTypes`, `GapsFilled`),
  what being below a limit means when the buffer may be negative (`BelowLimit`,
  `BufferTightens`), that rounding up in the conversion keeps a limit a limit (`TrueFiguresKeep`), and that no reason to refuse leaves each check passed (`NoReasons`). The
  symbols the run enumerates are among them (`CasesAreSymbols`), so the two are invariants of
  the composition as well (`ScreenedClosed`, `ScreenedTightens`); `BackgroundTypes` and
  `PartsTogether` bring the types and the invariants of the parts to it, from lemmas that each
  step of a part keeps that part's types.
- **`Hawl_proofs`**: `ClockEarned`, from `ClockInv`: while no update crosses another one at
  most is busy, and what it is about to write agrees with the obligation as of its look.

Every invariant and every `[][A]_vars` property of a passing run is a theorem. No run checks
`TraceInvariant`, `BackedInvariant`, `SeedsAreInert`, `SoleSellersNeverShort`
and `WrittenOffNeverSent`; the inductive invariants of `TradeExecution_proofs` held on the
instance of `exec_safety`, with and without the bracket, before they were proved.

**Only model-checked.** Every liveness property: TLAPS here has no support for fairness and
ENABLED. Nor does it do induction over data or RECURSIVE operators, so what recursive helpers
compute stays with TLC; the modules above use none.

## 5. The plan

In this order; each gets its runs, and its proofs where the invariant is inductive without
data.

1. *Possession and funds*: settlement age, lots, sellable quantity, concurrent BUYs against
   one balance.
2. Extension of *Arming* by connections: sharing, reconnection after `read_only` changes,
   ports that no longer match the row, workers that are gone.
3. *Operators*: sizing, fee, slippage and Kelly scales, ticks and marketable limits,
   market hours at their boundaries, the allocator, each against a reference definition over
   bounded inputs, in one run.
4. The Telegram text commands and the re-rating of a queued signal, in *Signals*.
5. Proofs: `NoShort` for several sellers whose lots add up to no more than was held, which
   takes a sum over calls; `LedgerInv` for brackets once acknowledged.

Runs are few on purpose; where a later module needs one, a violated one of section 3 that
shares its cause with another makes room and stays documented there.

## 6. Not modelled

Database errors, except where a model names the failing query (elsewhere a commit is atomic
and succeeds), ib_insync's own buffering, message
wording, the dashboards of `portfolio/router.py`, which read and decide nothing, the requests
the data sources answer, corporate actions, the validation and layering of settings (a
setting is a constant or a free choice), the tables of market hours (a market is open or
not), migrations, gateway control, the frontend, and the contents of strategies: a signal is
an arbitrary input. What filters, allocator and rankings compute decides between outcomes and
is a free choice. `PROJECT.json` lists every component with its status and the reason.
