# LIGERBOT: models, model checking and proofs

LIGERBOT is an intraday trading system for NSE equities. This directory holds TLA+ models of
its components, the TLC configurations that check them on small instances, and theorems about
them that TLAPS proves for every value of the constants. The implementation is `src/src/*.py`
(14,324 lines, tests and docs aside), with `src/config.py` for its parameters and
`src/DESIGN.md`, `src/MASTER.md`, `src/README.md` for what it promises. File references below
are relative to `src/src/` unless they name another file.

## 1. Inventory

Eight processes talk over Redis Streams only. Each is a loop around blocking reads; each may be
killed and restarted at any point by its supervisor (`docker-compose`, systemd).

    ingestion -> market_ticks -> bar_builder -> market_bars -> strategy_engine -> trade_signals
      -> risk_manager -> approved_orders -> execution_engine (dry run, live) | paper_broker (paper)
      -> filled_orders -> position_manager -> position_updates -> risk_manager, strategy_engine

`storage_logger` archives every stream; `alerts` and `dead_letter` are streams for humans.

| Component | State it keeps | Operations | Interacts through |
|---|---|---|---|
| Event bus (`event_bus.py`) | per consumer group: cursor, pending entries, delivery counts (in Redis) | publish, read, claim_stale, ack, dead_letter, handle | every stream |
| Execution engine (`execution_engine.py`) | registry of orders (memory), rejection counter | handle an approved order, send, publish, poll the order report, expire, purge | approved_orders, filled_orders, dedupe keys, kill switch, broker |
| Order state (`order_state.py`) | ManagedOrder status, filled quantity; dedupe keys with a TTL (Redis) | transition, add_fill, parse_order_report, mark_sent, expire_stale, purge_terminal | execution engine |
| Kill switch (`kill_switch.py`) | one Redis key and a file | halt, clear, state | risk manager, position manager, execution engine, alerting |
| Broker SDK (`kotak_api.py`) | - | validate, safe_call | execution engine, ingestion, account |
| Risk engine (`risk_engine.py`) | open positions, day's realised P&L, halted, session equity, order count | start_session, evaluate, on_open_fill, on_close_fill, apply_costs, check_daily_drawdown | risk manager (live), backtest |
| Risk manager (`risk_manager.py`) | a RiskEngine, the session day | handle a signal, handle a position update, start the session | trade_signals, position_updates, approved_orders, kill switch |
| Position manager (`position_manager.py`) | PositionBook: net quantity, average price, stop, realised P&L (memory) | apply_fill, reconcile, publish update | filled_orders, position_updates, broker positions, kill switch |
| Paper broker (`paper_broker.py`) | a SimBroker with pending orders and positions (memory) | queue an order, fill it at the next bar | approved_orders, market_bars, filled_orders |
| Backtest (`backtest/engine.py`, `sim_broker.py`, `portfolio.py`, `costs.py`) | the simulated broker's orders and positions, a RiskEngine, equity and trades | process a bar: fills, stops, square-off, signals | a bar source, a strategy |
| Bars (`bars.py`, `bar_builder.py`) | the open bar and last price per instrument and interval | add_tick, flush_until, gap bars | market_ticks, market_bars |
| Strategy engine (`strategy_engine.py`) | resampled bars, mirror of the positions | handle a bar, dispatch to strategies, mirror a position update | market_bars, position_updates, trade_signals |
| Ingestion (`data_ingestion.py`, `feed_health.py`) | freshness per instrument, reconnect back-off, heartbeat | tick, disconnect, reconnect, check | broker socket, market_ticks, alerts |
| Session (`auth.py`, `auth_session.py`) | the cached broker session and a lock (Redis) | get_session, refresh_after_expiry | every process that calls the broker |
| Account and live gates (`account.py`, `live_guard.py`, `live_scaling.py`) | session equity snapshot, clearance, scaling step | snapshot, clear, promote, demote | risk manager, execution engine |
| Alerting (`alerting.py`) | last alert and count of the suppressed, per condition | send | alerts stream, webhook |
| Storage (`storage_logger.py`, `influx_writer.py`) | a bounded queue of points, counters | queue, acknowledge, drain, write a batch | every stream, InfluxDB |
| Bar store and backtest source (`bar_store.py`, `backtest/bar_source.py`) | partitions of bars on disk | merge a batch, read a range, resample, assess, replay | bar builder, backtest |
| Research (`backtest/walk_forward.py`, `gates.py`, `metrics.py`, `session_recorder.py`, `reconciliation.py`) | results of finished runs, a file per session | run a fold, judge, save, compare | files |
| Indicators and strategies (`indicators.py`, `strategies/*.py`) | recursive readings, state per instrument | on_bar, on_session_start | strategy engine, backtest |
| Instruments, universe, screens, briefing, health endpoints | look-up tables, pure computations | - | - |

### Where it is hard, and what must hold

* **Event bus**: at-least-once delivery. What a dead consumer left pending comes back; what always
  fails must leave the pending list, by way of `dead_letter`, after `MAX_DELIVERIES` and not before.
* **Execution engine**: an order reaches the exchange at most once, whatever is redelivered and wherever the
  process dies; a lost reply is never taken for a rejection; what `filled_orders` says happened,
  happened, in order, and ends once; a halt stops opens promptly, even within a batch.
* **Risk engine and backtest**: two copies of the position book and two of the money, updated by
  different calls, agree; a breaker that has tripped stays tripped; nothing fills in the bar
  that signalled it; everything is flat at the close.
* **Risk manager**: an approval counts once towards the caps; the caps hold with orders in flight;
  exits pass when entries are blocked.
* **Position manager**: the book equals what the fills add up to, each fill counted once; after a
  restart reconciliation restores it, without counting a fill in flight twice.
* **Paper broker**: an order fills once, at a later bar's price; what it holds is what its published fills add up to,
  and the day ends flat (which the code does not keep: section 7).
* **Bars**: one closed bar per interval and instrument, in order, no tick lost or counted twice, late
  ticks aside; gaps are filled with synthetic bars.
* **Session**: one process logs in while the others wait, whatever crashes or fails in between.
* **Ingestion**: a feed that looks live is recent; reconnection ends, in a connection or in a halt; an outage of the
  feed is told from a quiet instrument.
* **Storage, alerting**: entries settle with the backend away, and what was lost or suppressed is counted.
* **Live trading**: money is at risk only under a person's present decision and at a size that sessions have earned.
* **Research**: a backtest sees the bars that the live strategy would; a pass of the gates rests on days the
  parameters were not chosen on (but may be of the holdout: section 10); a difference between paper and backtest is put down to its cause.

Some of this the code does not keep: the sections below and the findings in `PROJECT.json` say what. The hazards, each
at its line, are there too.

## 2. Plan

In the order in which they were written; 1 to 9 are done.

1. **Core**: `ConsumerGroup` (a Redis consumer group as a value), `ExecutionEngine` (composes it
   with order state, kill switch and broker), `OrderPromise` (the abstract specification of one
   order's life), proofs of type correctness, at-most-once placement and the promptness of a halt.
2. **Backtest**: `RiskEngine` operators and `Backtest` (broker, risk and portfolio books over
   a bar stream); proof that risk and broker books agree.
3. **PositionBook, PositionManager, DrawdownLoop**: the book over `filled_orders` through a `ConsumerGroup`, crash,
   reconciliation, and the risk manager's breaker behind it.
4. **MarketCalendar, Bars, BarBuilder, StrategyEngine**: ticks to bars, bars to the strategy's bars.
5. **BarSource**: recorded bars to a backtest, and that the strategy sees the same bars live.
6. **SessionEquity, RiskManager, PaperBroker**: signals to orders, orders to simulated fills.
7. **SharedSession, LiveFeed**: the login that modules share, and the feed on top; proof of the lock.
8. **Archive, Alerter, LiveTrading**: what runs beside the trading path and what stands before it.
9. **Indicators, SmaCrossover, TrendPullback, FeedMonitor, WalkForward, Gates, Reconciliation**: research.
10. **Proofs** of all of them (section 11). Left: `CashAddsUp` of 3, `BarsAreRight` of 4.

How they are composed: `RiskManager` extends `RiskEngine`, `MarketCalendar`, `ConsumerGroup` and `SessionEquity`, and
`PaperBroker` extends it (the whole chain of a paper day is one specification); `DrawdownLoop` extends
`PositionManager`; `LiveFeed` extends `SharedSession`; `Gates` extends `WalkForward`; `MCMarketData` relates
`StrategyEngine` to `BarSource`. A module of instances (`MC...`) that holds several components chooses one, `part`, in its
initial state: they share no variable, so the run explores their sum and not their product.

A run checks at most a few properties each, the ones worth a mutant. The type invariants of the other modules (`TypeOK`
of `Backtest`, `PositionManager`, `MCMarketData`, `MCTradingDay`, `MCSessions`) and `AdmissionInv` hold too: put them under
INVARIANTS of the same cfg. Two small cfgs belong to no listed run, `OpenRiskCap.cfg` (of `MCBacktest`) and
`PartialFills.cfg` (of `MCPositions`), and the following are an edit of one that is there. They show where the code departs from
its own words, and each ends in a violation (see the sections below):

| Question | Edit |
|---|---|
| silent drop | `ErrorAsData.cfg` with `Unresolvable = {o1}`, INVARIANTS `NeverSilent` |
| acknowledgement without an id | `ErrorAsData.cfg` with SPECIFICATION `FairSpec`, `Replies = {"ok_no_id"}`, `MaxFaults = 0`, and `TimeoutHandlesIt` under PROPERTIES in place of its invariant |
| a paper session's reconciliation | `PartialFills.cfg` with `Piecemeal = {}`, `Paper = TRUE`, INVARIANT `FillsAddUp` in place of its property |
| a position over night | `TradingDay.cfg` with `Parts = {"paper"}`, `MaxFaults = 0`, `Ends = {2, 7}`, INVARIANT `FlatOverNight` alone |
| an entry on an old pullback | `Research.cfg` with `Parts = {"trend"}`, no INVARIANTS, PROPERTY `EntriesAreFresh` alone |
| a walk-forward over the holdout | `Research.cfg` with `Parts = {"gates"}`, no INVARIANTS, PROPERTY `HoldoutIsLocked` alone |

## 3. Core: the execution engine

### ConsumerGroup (`event_bus.py`)

A consumer group of one stream is a record `[log, cursor, pending, times]`; the operators
`XAdd, XReadGroup, XAutoClaim, XAck` are what `publish`, `read`, `claim_stale` and `ack` make of it,
`IsPoison` is `is_poison`. A component holds one such value in a variable; a crash of the
consumer leaves it alone. Which entries have been idle long enough to be claimed is a choice.
The approximate MAXLEN trim of `publish` is not modelled, nor is the backlog alert.

### ExecutionEngine (`execution_engine.py`, `order_state.py`, `kill_switch.py`)

One process with its environment. `phase` is the place in the loop of `run()`:
`claim -> read -> poll -> apply -> expire -> claim`. While `batch` is not empty the handler works
on its entries in order; `cur` is the entry and `step` the next effect another process can see
(`send`, `publish`, `ack`, `dead`), so that `Crash` and the environment come between any two.

| Action | Code |
|---|---|
| `Approve`, `Halt`, `ClearHalt`, `KeyExpires`, `BrokerFills`, `BrokerEnds` | environment: risk manager, operator, the key's TTL, exchange |
| `ClaimStale`, `Read` | the two halves of the loop body, `execution_engine.py:414-424` |
| `Skip`, `Refuse`, `CannotBuild`, `Accept` | `_handle` up to and including `mark_sent` |
| `SendDry`, `SendUnresolved`, `SendLive` | `_send` |
| `Publish`, `Ack`, `DeadLetter` | `_publish`; `StreamConsumer.handle` and `dead_letter` |
| `NothingToPoll`, `PollFails`, `PollReport`, `ApplyFill`, `ApplyEnd`, `ApplyNothing`, `AllApplied` | `poll_open_orders`, `_reconcile_live_orders`, `_apply_broker_status` |
| `ExpireStale`, `LoopEnds` | `expire_stale`, `purge_terminal` |
| `Crash` | the process dies and `__init__` runs again: the registry is empty, Redis is as it was |

`place_order` may answer with an acknowledgement, one without an order number, a rejection, or an
error payload (`kotak_api.py:8-11`), or raise; the last two before or after the order reached the
exchange (`Replies`). A call to Redis may raise under the handler, and a write may have landed
all the same. The order report is a snapshot: the broker moves on while its rows are applied.

Notes on faithfulness.

* `_check_live_clearance` (`execution_engine.py:367-393`) cannot clear live mode in the repository as
  it stands; the model describes the handlers once live mode runs.
* The acknowledgement branch of `_apply_broker_status` (line 341) is unreachable: polling needs a
  broker id and a SENT order never has one. `ReportedEnd` therefore only ends orders.
* `KeyOutlivesOrder` states that a dedupe key (TTL one day, `config.py:208`) is not gone while an
  entry of its order may be delivered. The runs and the theorem about placement assume it; with
  it FALSE an entry redelivered after a day is placed again, which `order_state.py:374` does not
  mention.
* The rate limiter, the warnings and the alerts of the process change no state another part reads
  and are left out.

### What is checked (module `MCExecution`)

| Run | Question | Bounds |
|---|---|---|
| `execution_admission` | Is an order placed twice? What does a fault cost? How prompt is a halt? | 2 opening orders, 3 approvals, batches of 2, 2 faults, `MAX_DELIVERIES` 2, every reply that matters to admission |
| `execution_fills` | Is what `filled_orders` says true, growing, final? Are fills heard? Does the engine implement `OrderPromise`? | 1 order of 3 shares, 2 approvals, stale and partial reports, lost replies, 2 faults |
| `execution_retries` | Does every entry settle, and only poison through `dead_letter`? | 3 orders: one good, one malformed, one unresolvable |
| `error_as_data`, and two edits of its cfg (section 2) | three places where the code departs from its own comments | the least instance that shows each |

Two orders are enough for what a handler can confuse (this order and another of the batch), three
approvals for a first delivery, a redelivery and a second approval of one order; two faults for a
crash during the recovery from a crash. Three shares give a partial fill, a second partial fill and
the last.

`execution_admission` restricts the environment by the action constraint `AdmissionOnly`: broker
fills and reports, which say nothing about admission, are left to `execution_fills`, and a step of
the environment is taken only where the engine's next step reads what it writes. Elsewhere it
commutes with the engine's steps, so no state of the handler is lost.

`KeepsPromise` is refinement: `OrderPromise` says an order is placed at most once, then filled or ended
by the exchange, and that what is told of it never exceeds what happened and ends once. `expired`
is the one verdict that may be wrong, because a lost reply cannot be told from a lost order.
`Promise` maps its variables to `broker` and `published`.

`EventsAreTruthful` has two halves: `FillsAreTruthful` and `EndingsAreTruthful`.

Properties and the line of code they would catch going wrong are paired in `PROJECT.json`: each
property of a passing run has a mutant, a plausible bug in one mapped definition that TLC finds.

### Fairness

`FairSpec` assumes that the engine keeps running (`WF(Engine)`: a `while True` under a supervisor),
that every pending entry is idle long enough to be claimed again and again (`CLAIM_IDLE_MS` passes
whenever nobody touches it), that the order report is complete again and again (a broker that never
answers leaves nothing to promise), and that the acknowledgement timeout of a SENT order runs out.
The environment is not fair: no approval, fill or halt has to happen.

### What the runs found

1. Silent drop: the dedupe key is written before the symbol is resolved, so an order that cannot be
   resolved fails once, is skipped as already sent on redelivery and acknowledged: it is in no
   stream a human reads.
2. `error_as_data`: `place_order` is the one SDK call not made through `safe_call`; an error payload is
   published as REJECTED although the order may be working.
3. Acknowledgement without an id: one without an order number is polled by nothing and timed out by
   nothing.

Without a run of their own: a restart loses the registry, so fills of orders acknowledged before it
are never published (`FillsAreHeard` exempts them; `src/DESIGN.md:407` promises otherwise, and the
position manager's reconciliation repairs the book); and an approved order on the dead-letter
stream may have been placed, when the publish after the placement kept failing
(`event_bus.py:309-311`, `src/MASTER.md:465`).

### What is proved (module `ExecutionProofs`)

For every set of orders, batch size, `MAX_DELIVERIES`, number of entries and of faults:

* `TypeCorrect`: `Spec => []TypeOK`. `TypeOK` is inductive with the consumer group's `WellFormed` as a
  conjunct; `Lemmas` shows that each operator of `ConsumerGroup` preserves it.
* `AtMostOnce`: if `KeyOutlivesOrder`, `Spec => []AtMostOncePlacement`. Placement at most once is not
  inductive: the strengthening `AdmissionInv` adds that a placed order has its key or has had it
  until its entries were settled, that the batch is pending, and that between the key check and the
  send nothing takes the key and the order is unplaced.
* `HaltIsPrompt`: `Spec => []HaltLetsAtMostOneOpenThrough`, from `HaltInv`: once an open has gone out under
  a halt, no open is between its check and its send.
* `DeadLettersHadTheirChances`: `OnlyPoisonIsDeadLettered`, from `DeadInv`: the entry about to be dead-lettered has had its
  deliveries, and no step of the group takes one back.
* `FaultsCostOneOrderEach`: `EachFaultLosesAtMostOneOrder`, if `KeyOutlivesOrder` and every symbol can be resolved
  (`Unresolvable = {}`: such an order is lost without a fault, finding 1 above). What is counted by the property is not what can
  be followed from step to step; `LossInv` counts `Lost`: orders whose key is written, that are on no record and not under way.
  An order becomes lost in the one step of the fault, and every order dropped in silence is lost before its entry is settled.
* `LastWordIsLast`, `EventsAreTrue`, `EngineKeepsPromise`: `TerminalEventIsLast`, `EventsAreTruthful` and the refinement
  `KeepsPromise`, under `Premises`: `KeyOutlivesOrder`, and no error payload for an order that reached the exchange (which
  `error_as_data` shows to be necessary). `TellingInv` ties, order by order, the registry, what was published, the report in
  hand and the broker's truth: nothing was published or placed before the key; a live status in the registry was the
  last one published and is not beyond the broker's; a report is an earlier state of the broker. For the refinement each
  action is shown to be a step of `OrderPromise`, for one order or (in an environment step or a crash) for none. `Lost`
  replies make the one verdict that may be wrong, `EXPIRED`, possible; it is never told after a fill.

Only model-checked: liveness.

## 4. Backtest and risk engine

### RiskEngine (`risk_engine.py`)

"Stateful but pure": the engine is a record (equity, day's result, positions, breaker, order count) and its
methods are operators on it. `ApprovesEntry` and `ApprovesExit` are the two halves of `evaluate`,
`OrderFor` the `OrderRequest` it returns, `Evaluated` what evaluating leaves behind (the order count, the
breaker). Amounts are whole units and limits thousandths of the equity, so that `floor` is `\div`; the
tolerance of 1e-9 goes with the floats. `LimitsAssumption` is what `RiskLimits.__post_init__` enforces.
Lot sizes are left out (no caller passes one), and so are correlation groups: no caller records a position
with its group, so `positions_in_group` is always 0.

### Backtest (`backtest/engine.py`, `sim_broker.py`, `portfolio.py`)

`_process_bar` in four stages: `open` (the pending order), `levels` (stop and target), `apply` (fills one by
one, then session control and the strategy), `next` (waiting for the merged stream's next bar).

| Action | Code |
|---|---|
| `NextBar` | the stream's order, and `_roll_session` on a new day |
| `NothingPending`, `DropUnfillable`, `OpenAtOpen`, `CloseAtOpen` | `SimBroker._execute_at_open` with `_liquidity_capped` |
| `ExitAtLevel`, `NoExit` | `_check_exit_levels`, `_close` |
| `ApplyOpen`, `ApplyClose` | `_apply_open`, `_apply_close`, `Portfolio.record_trade` |
| `ForceClose`, `SessionOver` | the square-off and the cancelling of orders |
| `Signal`, `NoSignal` | `_handle_signal`, `submit`; the strategy is any |

A bar is a choice among `Bars` and the synthetic one (the last close, nothing traded); an instrument may
lack a bar in any interval. Costs and slippage are a constant per share: the code's depend on price and
time of day, and no property depends on how. A strategy emits at most one signal per bar, as both of the
repository's do. `DayOf` and `PhaseOf` are the calendar; the theorem about the square-off needs of it
only that what is over stays over until the next day. `carried` and `squared` are history variables.

| Run | Question | Bounds |
|---|---|---|
| `backtest` | Do the books agree? Is a fill early, hopeful, or lost to the square-off? Does the breaker hold? | 2 instruments, 6 intervals (a session of 4 and half of the next), 6 kinds of bar, 2 stops, 1 target, fees, slippage |
| `OpenRiskCap.cfg` | Does the cap on open risk hold through the engine? | 2 instruments, 2 intervals, no slippage |

Six intervals hold an entry, its exit in the same bar or the next, a square-off, a night with a position (no
bar in the window), a fresh breaker, and a trade of the next day. With 12 thousandths of 1000 as the limit a
single gapped stop trips the breaker. The five bars are the cases of `_liquidity_capped` and
`_check_exit_levels`: quiet, stop and target in one range, a gap, too thin for the order, too thin for any.

`OpenRiskCap.cfg` finds that the cap counts filled positions only: an approved order reserves nothing, so two
instruments signalling on one bar time both enter with `max_open_positions = 1`. The test of the repository
looks at the cap only once, after the last bar of the run. No slippage or gap is needed, and both would
add to it (`on_open_fill` records the risk of the real price).

The square-off works on bars of the instrument held: one that has no bar between 15:10 and 15:30 stays open
over night (DESIGN.md:202 "All positions flat by 15:10"). `FlatAfterSquareOff` therefore speaks of instruments
that had such a bar, and `MoneyAgrees` carries entry costs from one day to the next.

### What is proved (module `BacktestProofs`)

For any set of instruments, any bars, limits and levels:

* `BooksStayEqual`: after the fills of a bar the risk engine holds the broker's positions. `BooksAgree` is not
  inductive: while fills are being applied the broker is ahead. `BooksInv` says of which instrument, and
  by what: one opening fill, one closing fill, or both, in that order (`Ahead`).
* `NothingLooksAhead`: inductive with `OrderInv`, which adds when a pending order was submitted: before this
  bar, or by the strategy after its instrument's bar.
* `SquareOffIsFinal`, from `CalendarAssumption`, on top of `OrderInv`.
* `BreakerIsFinal`: an action property, from `BooksInv`, `OrderInv` and the fact that no operator on the
  engine but `StartSession` resets the breaker.

* `BacktestTypeCorrect`: `TypeOK`. Of its conjuncts the quantity of a pending order is the hard one: it comes out of
  `SizeFor`, which divides what a sum over the positions held leaves of the limits.
* `BothBooksOfMoneyAgree`: `MoneyAgrees`. It is inductive if stated at every step instead of between bars (`Balanced`), with
  `Settles`: what the pending fills will settle. An opening fill finds the risk engine without a position, a closing one
  finds the deal that the broker closed, and of both in one bar the second closes what the first opens. And only what is held has
  cost an entry, so that `ApplyOpen` overwrites a zero.
* `EveryStopIsHonoured`: the action property `StopsAreHonoured`, from `TypeOK` and the sign of each case of `ExitLevel`.

`Lemmas` holds what these need of `SumFunctionOnSet`, which the community modules define by recursion over subsets: a
sum of integers is one, any element may be taken off, one changed term changes the sum by its difference. Induction over a
set's size is done without an operator as parameter: of the sizes at which a lemma fails there would be a least one (`Ascent`,
from the well-foundedness of `<`). `Climb` is the same over a set's subsets, and `LeftTable` the step of a fold over the places
of a sequence, on which the greatest place (`GreatestIn`) comes last.

## 5. Positions and the drawdown loop

### PositionBook and PositionManager (`position_manager.py`)

`PositionBook` in the code is "pure position and P&L bookkeeping"; here it is a record and the operators on it:
`ApplyFill` with its four cases, `Reconciled`, `Discrepancies`, `StartSession`. `PositionManager` is the process:

| Action | Code |
|---|---|
| `NewSession` | the new date in `run`, followed by `reconcile_now` |
| `ClaimStale`, `Read` | the two batches of a loop; what is to be reclaimed is any set of pending entries |
| `Ignore`, `NoPrice`, `Apply` | `_handle_fill`, up to `apply_fill` |
| `Publish`, `PublishFails` | `_publish_update`; the failing call may have reached Redis |
| `DeadLetter`, `Ack` | the rest of `StreamConsumer.handle` |
| `Reconcile(seen)` | `reconcile_now` on an answer of which the rows of `seen` could be parsed |
| `ReconcileFails`, `NoReconcile` | `safe_call` raising; the timer not yet due |
| `Crash` | the process dies anywhere; `run` starts again with an empty book |

The environment is what the execution engine of section 3 does as seen from here: the exchange fills an order
(`ExchangeFills`), some time later the engine tells of it with the order's cumulative quantity (`EngineTells`), or of
an order's end (`EngineEnds`). With `Paper` both are the paper broker and the broker's account stays flat. The
modes are paper and live: a dry run has no broker to reconcile with and is left out. An update is the day's net
result; the rest of the snapshot is for display and for the strategies' mirror. Prices are whole; `Rounding`
bounds what truncated averages add up to (the code rounds to two decimals when it publishes).

`applied`, `cash` and `doubt` are history. `doubt` collects the instruments for which one of five causes
has made the book unreliable, and each cause is a way this code goes wrong:

1. a second partial fill of an order: its event carries the cumulative quantity (`PartialFills.cfg`);
2. an entry handled twice, because its update could not be published, or the process died, after the book moved;
3. a reconciliation while fills are in flight: the adopted quantity already contains them (after a
   restart this is the normal case: `run` reconciles before it reclaims), or one with rows that cannot be read;
4. a fill routed to `dead_letter`, for want of a price or of a publish that works;
5. the same fill again: `dead_letter` publishes first and acknowledges then, and when the process dies in between the entry
   is handed out once more, to a book that has meanwhile been reconciled without it. It takes three faults; the proof below
   found it, and TLC then did (`PartialFills.cfg` with `Piecemeal = {}`, `MaxFaults = 3`, INVARIANT `SharesAddUp`, which holds
   with this cause and fails without it).

`SharesAddUp` says there is no sixth; `CashAddsUp` says the same of money. All of them last only until the next quiet reconciliation, which is `BookConverges`.

### DrawdownLoop (with `risk_manager.py`)

Composes the position manager with the risk manager's other half: the session it starts on a new date and
`_handle_position_update`. It reads updates in batches and never reclaims: `RMCrash(k)` loses `k` of them.
`LossReachesBreaker` is the promise of DESIGN.md 3.2 ("the drawdown circuit breaker actually works"): whatever is
lost or restarted, a loss the book keeps knowing of trips the breaker, and a halt cleared by hand while it stands is engaged
again. It rests on the periodic
reconciliation, which publishes the book whether or not something was wrong (mutant `TellsBookIfWrong`).

Fairness: the two loops run (`WF`; each is a `while True` around reads with a time limit), and a reconciliation
that comes up again and again is at some point made and answered (`SF`: the timer makes it due every
`RECONCILE_INTERVAL_SECONDS`, and outages end). Nothing is assumed of the exchange, the engine or reclaiming.

| Run | Question | Bounds |
|---|---|---|
| `positions` | Is the book right, but for the named causes? Does it converge? Does a loss reach the breaker? | 2 orders (buy 2, sell 3 at half the price: a loss, then a reversal), 2 days, 2 faults, 1 unread update |
| `PartialFills.cfg` | Is a fill event an increment? | one order in two pieces, no fault, 1 day |
| `PartialFills.cfg` edited (section 2) | Does a paper session's book survive its reconciliation? | no piece, no fault, 1 day |

One instrument is enough: instruments meet only in the count of discrepancies and in the sum of results. Two
faults put a failed publish before a crash, or a crash of each process in one run. `WhenRead` leaves out
environment steps that commute with the processes' next steps; they carry no fairness.

### What is proved (`PositionProofs`)

`BookAndExchangeAgree`: `SharesAddUp`, for any number of instruments, orders, deliveries, sessions and faults, when the account
that reconciliation reads is the one the orders fill in (`~Paper`; a paper session's reconciliation breaks it, see above).
Shares are in three places: filled and not told of (`Untold`), on the stream and not handled (`OnStream`), and in the book.
`Right` says that they add up in one instrument, and each action moves shares from one place to another: the exchange adds
to the first and to what is filled, the engine moves an order's from the first to the second, the handler an entry's from the
second to the third. The sums over orders and entries change in one term at a time (`Lemmas`), and the four cases of a fill all
move the book by its shares (`FillMovesBy`). `Right` alone is not inductive: acknowledging an entry takes it off the stream, so
it must carry nothing by then. `TypeInv` adds what the handler has done to the entry at hand before each of its effects
(`HandlerInv`), that an event of no fill stands for no shares (`EventsTell`), and that only read entries are applied.
`PositionsTypeCorrect` is the type invariant. `CashAddsUp` is not proved: its bound on rounding is one of the instance.

What the model also shows, without a run of its own: the day's result is lost when the position manager
restarts, and the risk manager adopts the 0; live fills carry no costs; an update of yesterday read after
midnight is adopted as today's result. These are in `PROJECT.json` under findings and hazards.

## 6. Market data: from ticks to a strategy's bars

### MarketCalendar, Bars and BarBuilder (`market_calendar.py`, `bars.py`, `bar_builder.py`, `bar_store.py`)

The calendar is a set of operators on a clock that counts units, `DayLength` to a day: trading days, `Phase`, what each
phase permits, the window of a session. Five components use it. `Bars` is the aggregator of one instrument as a value:
`AddTick` and `FlushUntil` return the aggregator and the bars that closed. In place of vwap a bar carries the notional it is
computed from. `BarBuilder` is the process, whose loop has three steps between which time passes and ticks arrive:

| Action | Code |
|---|---|
| `Session` | `_ensure_session`, with the flush of the session before, and the start of the XREAD |
| `Read` | `read_new`, `_handle_tick` for each, publishing and buffering what closed |
| `Close` | `flush_until(now)`, `_persist_if_due` with the store's merge |
| `Shutdown`, `BuilderDies`, `BuilderStarts` | `shutdown`; death with any prefix of the bars in hand published; `__init__` with the cursor at `$` |
| `Corrupt` | a partition that cannot be read, which `ParquetBarStore` sets aside |
| `Clock`, `Arrive` | time; a tick stamped by ingestion |

`BarsAreRight` compares every published bar with a definition that has no aggregator: the first, highest, lowest and last
price of the ticks of its interval and what the cumulative volume moved by, a flat bar where there was none, each interval
once and in order. Its one exception, `late`, is real: `Close` takes the clock's word for it that an interval is over, and
a tick still on the stream then comes too late. `NothingUnsaved` says that a bar is archived unless a crash or the disk
took it (`gone`), and `QuietStillHasBars` that a silent instrument gets its bars from the clock.

### StrategyEngine (`strategy_engine.py`)

`HearUpdates`, `ClaimStale`, `ReadBars` are the loop; `HandleBar` is `_handle_bar` with the resampler (`Leftovers` of another
session first, then `AddTo`); `HandlerFails` a handler that raises after the resampler has moved, so that the redelivered
bar is merged again; `StrategyCrashes` loses buckets, session and mirror and keeps the group. `BarArrives` is whatever
`BarBuilder` may publish: the next bar, a second of the same interval, the first after a gap or a night. A session ends for all
instruments at once (`_ensure_session` starts one aggregator for all), so no bar of a day follows one of a later day.

### BarSource (`backtest/bar_source.py`)

A frame is a set of bars. `Load` reads the days asked for and resamples them; `Assess` is the quality gate, `Yield` the merged
stream. `ReplaysAreInOrder` states what the engine of section 4 takes for granted of it.

`BacktestSeesTheSame` relates the two: a coarse bar that the live resampler shows the strategy is the bar that the
backtest's resampler makes of the archived minute bars. Exceptions are bars that a crash, a failed handler or a late bar
has reached (`doubt`, which names the causes), and an interval published twice: the store keeps the last of the two bars, the
live resampler merges both. The values of vwap of a bucket without volume differ too, and are not compared.

| Run | Question | Bounds |
|---|---|---|
| `market_data` | Are the bars right, saved, published for a silent instrument? Does the backtest see what the strategy saw? Is a replay in order? | 1 instrument and 3 trades with a counter that starts anew, 2 sessions (10 units of 8 a day), 2 lives; 4 minute bars and 2 faults; recordings of Friday, Saturday and Monday, 8 frames for each of 2 instruments, 2 intervals |

Three trades fill an interval, skip one and cross the counter's reset; ten units reach the second session's first bar. One
instrument suffices for the builder: aggregators meet in the flush to the last tick and in the order of bars only. Buckets of
several instruments, which the first bar of another day closes together, are covered by the proof below.
`WhenRead` leaves out clock and tick steps that commute with the builder's next. `EveryIntervalIsTested` of `BarSource`
states that the quality gate judges a recording and not the interval it is tested at; with `MinBarsPerDay = 3` it is
violated (an invariant in place of `ReplaysAreInOrder`): 15-minute bars of a complete day are refused as too few.

### What is proved (module `MarketDataProofs`)

* `BarsAreSaved`: `NothingUnsaved`, for any ticks, instruments, sessions, reads and deaths. The invariant (`Saved`) adds that
  what is neither buffered nor gone is older than all that is buffered: a partition merge then only puts later bars over
  earlier ones. A flush must be known to be a sequence of bars for that; `BuilderTypes` types every aggregator through
  `AddTick` and `FlushUntil`, and `Ranked` finds each element of a finite set by how many precede it, which is how `Ordered`
  puts the bars of all instruments in order.
* `ReplaysKeepOrder`: `ReplaysAreInOrder`, for any recordings, days and intervals of a `Histories` whose frames are finite,
  with one bar per start, within the session's hours, at prices above 0 (`IsRecorded`, what builder and store leave).
  `SourceInv`: the bars given and those left are the bars loaded, none left starts before one given, and an instrument's bars
  are given once each. A bucket is an interval of its session and holds the bars that start in it (`BucketsAreIntervals`);
  two neighbouring sessions of a replay are neighbours in the frame that the gate assessed, so no jump is between them.
* `SilenceHasBars`: the action property `QuietStillHasBars`, for any ticks, reads and deaths, when gaps are filled and a session
  is a number of intervals (`WholeIntervals`; with a last interval cut short by the close, `flush_until` never reaches its
  end). The invariant `NothingForgotten`: of an instrument that has traded, the bar of its last tick is forming, or every
  interval from that tick's to the last one emitted is published. A tick restores the first half (`TickAccounted`), a
  flush the second (`FlushAccounted`), through the grid of the session's intervals.
* `LiveIsAsBacktested`: `BacktestSeesTheSame`, for any instruments, prices, batch sizes, deliveries and faults. `StreamInv` is what
  makes a bucket whole: it holds the entries tried of its interval, in the order of the stream (`Complete`); an entry tried
  whose bucket is gone has been passed by a later one, and no entry at hand is of its interval (`LeftBehind`); entries at hand
  come after those tried (`InTurn`); buckets held are of one day (`OneDay`); each but for what is in doubt, as is every entry
  pending and not at hand. `HandledMerges` keeps it through a handler that ends or fails, `ClaimKeeps` through a redelivery. That
  a whole bucket is the backtest's (`WholeIsRight`) takes no induction over bars: both sides are the first, the last, the
  extremes and the sums of one set of bars (`MergeIsResampled`), as starts rise when none is published twice.

## 7. The trading day: signals to orders to simulated fills

### SessionEquity and RiskManager (`account.py`, `risk_manager.py`)

`RiskManager` composes `RiskEngine` with the calendar, two streams, the kill switch, the liveness keys and the file in which the
day's equity is pinned. `StartsSession`, `NoEquity`, `NoNewSession` are the session's start; `HearUpdates` adopts results and
checks the breaker; a signal is judged in two steps, since the world may move between them: `Judge` reads clock,
kill switch and liveness, `Decide` evaluates, publishes and acknowledges (`DecideFails`: the publish raises after the
engine has counted the order). `RiskManagerDies` may leave an order published and its signal pending; `LoseFile`,
`Operator` and `Feed` are the world.

`OneOrderPerSignal`: however often a signal is delivered, and to however many processes, its orders have one client order id.
The id is a digest that contains the quantity, so this rests on the pinned equity (mutant `RestoresNever`). A session starts at
the top of the loop only, and only while no signal is at hand (`risk_manager.py`, `run`).

### PaperBroker (`paper_broker.py`, `backtest/sim_broker.py`)

`TakeOrders` reads and acknowledges every order, `ClaimBars` and `ReadMinuteBars` bring bars, `HandleMinuteBar` is `process_bar`
(the open, then stop or target) and the square-off, `HandleBarFails` a fill that Redis does not take, `PaperDies` the loss of
everything in memory. A bar counts with how much can fill in it and whether it reaches a level; the arithmetic of prices is that of
section 4. `PaperBooksAgree` and `SquareOffIsFinal` name their exceptions (`doubted`, a bar delivered again).

The bars come from outside (`BarComes`): any bar of any minute of a session gone by, in any order, again, or never. The bar
builder promises no more. It publishes a bar of an instrument only once that has ticked since the builder started, none while it
is down, none of a quiet minute without `BAR_FILL_GAPS`, and after a restart perhaps a minute it had published before.

`SquareOffIsFinal` says what the square-off does when it comes: what is held was entered in a bar after which none of its
instrument has squared off, the bar of the entry itself included. It does not say that a square-off comes. That the day ends
flat, as `paper_broker.py` (116) and `DESIGN.md` (202) have it, is `FlatOverNight`, in terms of the published fills. It is refuted
without any fault, by an instrument that has no bar in the window; an entry in the last bar of the day and a crash are two more ways.

| Run | Question | Bounds |
|---|---|---|
| `trading_day` | Is a signal one order? Does the book agree with the fills? Is a square-off final? | 1 instrument; part `risk`: 2 signals, a session and the next morning; part `paper`: 2 orders from outside and 3 bars, each of any of the 3 minutes (`Ends`) around the square-off; 1 fault |
| `live_exits` | Does an exit get through? | the two composed, one entry, one exit, 2 bars, no fault |

Three bars are enough for an entry, the bar that squares it off and one that is delivered again or comes late. In part `paper`
the clock runs ahead, the broker not reading it and its bars being allowed to come late; orders arrive only before it takes
them and bars only before it reads them (`WhenAsked` of `MCTradingDay`), since it cannot tell when else they came.

The two parts meet in `approved` alone, so that each is checked against any behaviour of the other, and `live_exits`
composes them. `trading_day` allows the paper broker exits that the risk manager, as it stands, never approves:
`live_exits` shows that its engine holds no position, as nothing tells it of one, and rejects every close. With
`FillsAtTheNextBar` in place of its invariant the same cfg shows an order that fills in a bar which had begun before its
signal's bar ended.

### What is proved (module `TradingDayProofs`)

* `OneOrderForEachSignal`: `RiskSpec => []OneOrderPerSignal`, for any signals, instruments, limits, sessions and faults. No fill comes back
  to the engine, so that its positions stay flat (`StaysFlat`) and what it approves depends on the signal and the equity alone;
  the engine's equity is the file's (`Pinned`), for as long as the file is not lost; and every order on the stream was
  made of its signal and sized by the pin of its session (`MadeOf`, `SizedBy`). The operator `Evaluated` counts orders and trips
  the breaker but touches neither.
* `SquaredOffForGood`: `PaperSpec => []SquareOffIsFinal`, for any number of instruments, any orders and bars, deaths and redeliveries.
  Two facts make it inductive: a bar at hand that was never delivered before has all later ones read behind it (`InTurn`); and
  whatever is held was entered in a bar after which none has squared off (`HeldSinceThen`). The first is what keeps the second
  when a bar fills an entry: a bar behind it on the stream may have squared off already only if the entry's is delivered
  again. Nothing is assumed of the calendar, nor of which bars come.
* `RiskTypeCorrect` and `PaperTypeCorrect`: the types of both processes' state, beside each other and under any orders. They are
  inductive with `HasSession` and `StaysFlat` only: that an order published is of a natural size follows from its approval (an approved
  entry has a stop off its price, so the division is by something; an exit is never approved while the positions stay flat).
* `PaperBooksStayEqual`: `PaperSpec => []PaperBooksAgree`, for any orders, whether or not they fit what is held. A bar brings a position and
  a few fills of its own instrument (`BarLeaves`), and these add up to the difference (`Balances`), at the open, at a level and at
  the square-off, unless the order was of the wrong kind for the position (`Confuses`). That a stream of fills adds
  up to what its parts do (`NetOfJoined`, over `Lemmas`) does the rest; a bar whose fills are not all published puts its
  instrument, and no other, into `doubted`.

`PaperSpec` and `RiskSpec` are what the parts `paper` and `risk` of the run explore.

## 8. The shared session and the live feed

### SharedSession (`auth_session.py`, `auth.py`) and LiveFeed (`data_ingestion.py`, `feed_health.py`)

Each module of `Modules` is a process in `get_session`; `pc` says at which call. `Reads`, `Takes`, `TotpLogin`, `TotpValidate`,
`Publishes`, `Unlocks`, `Polls` are its calls in order, `FindsExpired` and `Clears` are `refresh_after_expiry`. Each call of Redis
may fail; `Crashes` leaves the lock to its TTL; a TOTP code is good for one login of its window. `Raises` is what each
caller makes of an exception: ingestion backs off by its `ReconnectPolicy` and halts when it is spent, the engine asks at
its next order, the others end. Time is kept as what is left of each delay. `LiveFeed` adds the socket, the ticks (also a
message of which a record ends the loop) and the liveness keys that the entry gate reads.

| Run | Question | Bounds |
|---|---|---|
| `sessions` | Do two modules log in at once? Is a live key recent? Does connecting end? | 3 modules (ingestion, engine, one other), lock of 2 units, calls of 1, 2 attempts, 1 fault, 1 instrument |

A TTL of 2 against login calls of 1 each lets the lock lapse under its owner, the one exception of `OneLoginAtATime`
(`lapsed`). Three modules give a winner, one that waits, and one that comes late.

Fairness (`FeedFairness`): each process goes on with its call of `get_session`, ingestion subscribes, time passes. The code
justifies it by bounding every wait (the poll's deadline, `bound_network_calls`, the lock's TTL). Nothing is assumed of the
broker, of Redis or of the socket: `ConnectsOrHalts` holds because attempts are counted.

Two promises of the code are stated and refuted: put `OneLoginADay` under INVARIANTS of `Sessions.cfg`, or `Reconnects` under
PROPERTY, in place of its properties. The store is read before the lock is taken and not after, so that a late
module logs in again; and a socket that closes is logged and never connected again.

### What is proved (`OperationsProofs`)

`LoginsExclude`: `OneLoginAtATime` for any set of modules, any delays and any number of faults. The inductive invariant
`LockInv` adds what the lock means: one who logs in under it owns it (`OwnersLogIn`), there is a lock while there is an owner
whose lock has not lapsed (`OwnersHoldIt`), and one owner (`OneOwner`). `Unlocks` deletes a lock that may be another's; that
this needs a lapse first is what the proof turns on.

`LiveKeysAreRecent`: `LiveMeansRecent` for any instruments and any limit, from `KeyAges`: what is left of a key and the age of
the tick that set it never add up to more than the TTL.

## 9. Operations: archive, alerts, live guard and ladder

| Module | Code | State |
|---|---|---|
| `Archive` | `storage_logger.py`, `influx_writer.py` | a loop (`ReadArchived`, `QueuesPoint`, `AcksPoint`) and a thread (`Drains`, `WritesBatch`) that share a bounded queue; closing, death, restart; a backend that comes and goes |
| `Alerter` | `alerting.py` | time since the last emission and repeats suppressed, per condition; sinks that fail |
| `LiveTrading` | `live_guard.py`, `live_scaling.py` | the authorisation file and the engine armed by it; the ladder, saved after each session; crashes while a file is written |

| Run | Question | Bounds |
|---|---|---|
| `operations` | Does every point count somewhere? Does the archive keep up with its stream? Is an alert suppressed still counted? Is live size authorised and earned? | 5 entries, queue of 2, 1 death; 2 conditions, 3 alerts each, a cooldown of 2; 5 days, 3 rungs, 1 interrupted save |

Five entries overflow a queue of two while a batch is out. `KeepsConsuming` assumes that the archiver's loop runs on (`WF`; a
`while` around a read with a time limit) and nothing of the thread or of InfluxDB. Four promises of the code are refuted, as
invariants of `Operations.cfg` in place of its own: `NothingAbandoned` (nobody claims what a predecessor had read),
`LastEmissionReached` (an emission counts as sent although a sink lost it, and the cooldown runs), `HaltNeverPromotes`,
`CapitalIsChecked`.

`LiveTrading` keeps the history of each rung since the ladder was last at its floor (`sinceFloor`); `MaxSessions` bounds it. In
`Alerter` each emission carries the number of the alert it was (`nth`), so that `RepeatsAreCounted` can say which alerts
were told of (`Told`).

### What is proved (module `OperationsProofs`)

* `NoPointUnaccounted`: `CountsAddUp` for queues, batches and reads of any size. The invariant adds that the queue never
  exceeds its bound (an overflow counts one drop and evicts one point, `QueuedLen`) and that a process which is down holds
  nothing, since the next one counts from zero.
* `EveryAlertIsCounted`: `RepeatsAreCounted`. `Told` is a maximum over the log; the lemmas say what an emission adds to it.
* `LiveSizeIsAlwaysEarned`: `LiveSizeIsEarned`, with: the progress that the ladder's file counts on the present rung was made
  there since the floor (`LadderInv`), and what lies in the authorisation file is the last decision or unreadable (`GuardInv`).
* `EveryOutageIsCalledOne`: the action property `OutagesAreCalledOutages` of the feed monitor (section 10), from the fact that what is live has
  ticked. The walk of `evaluate` over the instruments is a fold; the lemma says what it leaves in each.

## 10. Research: strategies, feed monitor, walk-forward, gates, reconciliation

| Module | Code | What is modelled |
|---|---|---|
| `Indicators` | `indicators.py` | EMA, Wilder's mean, session VWAP, ATR, RSI, ADX, relative volume: each a value and its update |
| `TrendPullback` | `strategies/trend_pullback.py` | `on_bar` by its branches (`Manages`, `OutOfHours`, `NoBias`, `Considers`), sessions, restarts, any behaviour of the mirror |
| `SmaCrossover` | `strategies/sma_crossover.py` | running sums and the crossing |
| `FeedMonitor` | `feed_health.py` | the state of each instrument, and the choice between one alert for the whole feed and one for an instrument |
| `WalkForward`, `Gates` | `backtest/walk_forward.py`, `gates.py`, `metrics.py` | the holdout, a walk-forward over any days, its windows and choice of parameters per fold; the gates of a pass |
| `Reconciliation` | `session_recorder.py`, `reconciliation.py`, `gates.py` | records per day, which days are compared, pairing, attribution, the gate of phase 4 |

Prices are integers of a fine unit and means are rounded down to it; R is in hundredths. What the engine does with a signal,
and what a backtest returns, is any of a small set of outcomes.

| Run | Question | Bounds |
|---|---|---|
| `research` | Is an entry warmed up, and fresh but for a loss of the bias nobody looked at? Do readings measure what they say? Is an outage told from a quiet instrument? Is a pass evidence? Is a difference attributed? | 5 bars of 5 kinds, 2 sessions, periods of 2 and 3; 6 closes; 3 feeds and 5 moments; spans of 6 and 4 trading days, walked in full or as development, 2 combinations, 5 trade lists; 2 days, 3 saves, 2 trades each |

Periods of 2 and 3 let every indicator warm up, decay and see a session's start within five bars. `NoMonthCarries` (with
`OneMonth = TRUE`) and `EnoughIsCompared` are stated and refuted: the concentration gate skips a table of one group, and
phase 4 counts paper files and not compared days. `DivergenceIsAttributed` holds of the last component by its definition
in the code (see the findings); its weight is in the pairing.

`EntriesAreFreshAndWarm` counts the touches of the fast mean (`touches`) and those that are spent (`spent`): by a signal, a
session, a restart, or a bar without the bias, whoever looks at that bar. The strategy looks at the bias only when it has no position
and entries are allowed. A bar without it at any other time spends the touches but not the flag `pulledBack`, which
`overlooked` records, and a later bar may then enter on a pullback of the trend before. The property allows
this and nothing else; what the module's own words ask for, `EntriesAreFresh`, is refuted by it.

`run_walk_forward` takes any days (`Walks`): in `demo_phase1.py` the development part of `split_holdout`, in `demo_phase2.py`
the whole span, whose result the gates then judge. `PassesRestOnEvidence` therefore says nothing of the holdout. That it is locked,
as the head of `walk_forward.py` has it, is `HoldoutIsLocked`, and refuted. Two windows of the whole span, one of the
development days and one of a span too short to split let folds follow each other, be skipped, and meet the holdout.

### What is proved (module `ResearchProofs`)

All safety of the run, for any periods, thresholds, bars, days, trades and outcomes.

* `EntriesAreWarm`: `EntriesAreFreshAndWarm`. The invariant `WarmInv` says of every mean and of every count of samples how
  many bars it has been fed (`Counted`): a mean with a value has had its period of them, so a strategy all of whose readings
  exist has seen `warmup_bars`. Beside it stands that the flag `pulledBack` is up only with a touch not spent, or one overlooked.
* `StrategiesAreRight`: `StrategiesReadRight`. `ReadInv` keeps every mean between bounds on what it was fed, which Wilder's
  update and its integer division respect; RSI and ADX are then percentages. `SmaInv` ties the running sums, which the code
  updates by what enters and what leaves, to the sums of the session's last closes, so the averages that cross are averages.
* `PassesAreEvidence`: `PassesRestOnEvidence`. `WalkInv` says that the days walked, be they a span or the development part of
  one, are in their order, and that each fold is of a window gone by: windows are a step of `TestDays` apart, so the tests of
  two never meet, and training precedes testing. `JudgedInv` adds that a report is what the
  gates say of those folds. The concentration gate speaks of a share of all gains; `SumOfRest` turns it into what the other
  instruments gained.
* `DivergenceIsPutDown`: `DivergenceIsAttributed`. `RecordsInv` types the records. The greedy matching is a fold, and `Paired`
  holds after each of its steps: no trade is in two pairs, and no backtest trade already seen could be paired with a paper trade
  still free. Each side's total is then the sum of its paired and its unpaired part (`SideAddsUp`).

## 11. What is proved and what is only model-checked

| Module | Properties proved |
|---|---|
| `ExecutionProofs` | `TypeOK`, `AtMostOncePlacement`, `HaltLetsAtMostOneOpenThrough`, `EachFaultLosesAtMostOneOrder`, `OnlyPoisonIsDeadLettered`, `TerminalEventIsLast`, `EventsAreTruthful`, the refinement `KeepsPromise` (section 3) |
| `BacktestProofs` | all of the run `backtest`, and `TypeOK` (section 4) |
| `TradingDayProofs` | all of the run `trading_day`, `RiskTypeOK`, `PaperTypeOK` (section 7) |
| `PositionProofs` | `SharesAddUp` for live accounts, and `TypeOK` (section 5) |
| `OperationsProofs` | `OneLoginAtATime`, `LiveMeansRecent` (section 8), `CountsAddUp`, `RepeatsAreCounted`, `LiveSizeIsEarned`, `OutagesAreCalledOutages` (sections 9, 10) |
| `MarketDataProofs` | `NothingUnsaved`, `ReplaysAreInOrder`, `QuietStillHasBars`, `BacktestSeesTheSame` (section 6) |
| `ResearchProofs` | `EntriesAreFreshAndWarm`, `StrategiesReadRight`, `PassesRestOnEvidence`, `DivergenceIsAttributed` (section 10) |

Assumptions on the constants are those named `...Assumption` in the modules, which TLC evaluates in every run; three premises
are stated in the theorems they are needed for (`KeyOutlivesOrder`, `WholeIntervals`, and what the broker may answer).

Checked by TLC only, within the bounds of the tables:

* every liveness property (`EveryEntrySettles`, `FillsAreHeard`, `BookConverges`, `LossReachesBreaker`, `ConnectsOrHalts`, `KeepsConsuming`):
  fairness and enabledness are out of the prover's reach;
* `CashAddsUp`: how much truncated averages can add up to depends on the instance;
* `BarsAreRight`: it compares the aggregator's recursion over ticks with a definition over all of them at once, and needs an
  induction of its own for each of the values of a bar.

## 12. Not modelled

`PROJECT.json` lists every component with its status. Left out, and why:

* pure look-ups and one-pass selections over tables, run by hand before a session: instrument master, universe,
  momentum screen, TradingView screener, the probe tools;
* reports and output: health endpoints, briefing, logging, trace, attribution by regime, Grafana, the demonstrations;
* statistics over random numbers: synthetic data; of the costs, all but that a leg is charged;
* configuration and the launcher (`run_all.py`), which are constants and process starts of the models;
* of modelled components: the approximate MAXLEN trim of streams (it depends on Redis' nodes), the backlog alert,
  correlation groups and lot sizes (no caller passes them), severities and routing of alerts, the check list of
  configuration in the live guard (constants), the opening range and the simple mean (no strategy uses them).

The Redis server is modelled by the commands the code sends, without failures of its own persistence; the broker, the
exchange and InfluxDB by what the code can observe of them.

## Running

    tlc -workers 2 -config ExecutionSafety.cfg MCExecution      (ExecutionFills, ExecutionRetries, ErrorAsData)
    tlc -workers 2 -config Backtest.cfg MCBacktest
    tlc -workers 2 -config Positions.cfg MCPositions
    tlc -workers 2 -config MarketData.cfg MCMarketData
    tlc -workers 2 -config TradingDay.cfg MCTradingDay          (LiveExits)
    tlc -workers 2 -config Sessions.cfg MCSessions
    tlc -workers 2 -config Operations.cfg MCOperations
    tlc -workers 2 -config Research.cfg MCResearch
    tlapm Lemmas.tla               tlapm ExecutionProofs.tla    tlapm BacktestProofs.tla
    tlapm PositionProofs.tla       tlapm TradingDayProofs.tla   tlapm OperationsProofs.tla
    tlapm ResearchProofs.tla       tlapm MarketDataProofs.tla
