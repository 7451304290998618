# TLA+ models of tradelab

tradelab is a Python library for backtesting and live trading. This directory
models its parts: the live engine and the session with the accounts they trade on,
the portfolio orchestrator, risk limits, feeds and storage around them, the research
store that several processes share, and the backtest engines. The modules are
model-checked with TLC; the safety properties of every part are, most of them, also
proved with TLAPS for all values of the constants. Paths below are relative to `src/tradelab/` in
the repository.

## The system

| part | state | operations | interacts with | correct when |
|---|---|---|---|---|
| `live/engine.py` LiveEngine | open position and its pending exit, pending entry, candle buffer, day counters, spawned tasks, lifecycle flags | `start`, `stop`, `handle_bar`, order callbacks, persistence | broker (calls and callbacks), feed (bars), risk manager, storage | the position is the account's, no order is doubled or lost, the stored state is the state in memory, handler and `stop` return |
| `live/paper.py` PaperEngine, `live/broker.py` contract | open orders, order history, positions, cash, last prices | submit, cancel, modify, `simulate_bar` | emits order events inside the call | an order fills at most once and ends once |
| `live/risk.py` RiskManager | halted, day key, day P&L and trades, equity peak, last loss | `initialize`, `update`, `record_trade`, `can_trade`, `can_open_position`, `halt` | called by engine, session and orchestrator | a reached limit stops entries until it is lifted |
| `live/state.py`, `live/storage.py` | a JSON state file and two JSON-lines logs per namespace, a lock each | load, save, append, reconcile | engine | writes are atomic and in order |
| `research/store.py` ResearchStore | one JSON record per id, a thread lock and a lock file | `open`, `log`, `close`, `load` | other threads and processes, through the file system | mutations are atomic, exclusive, never lost, and end |
| `live/session.py` TradingSession, SessionManager | staged and active brackets, OCO winners, recoveries, metadata of entries and legs; sessions by name | `place_order`, `close_position`, `flatten`, `push_bar`, `refresh`, callbacks; `create`, `remove`, `halt_all` | broker, risk manager | every open position is protected, at most one leg fills, no session is orphaned |
| `live/orchestrator.py` | engines, day start equity, portfolio halt | `start`, `stop`, limit check on every equity event | engines, one shared broker | all engines run or none, a halt holds for the day |
| `live/feed/*`, `live/candle.py` | subscriptions, last emitted bar per stream, the bucket being built | subscribe, poll, tick | broker, engine | every bar once, in order, true to its ticks |
| `live/dashboard.py`, `events.py`, `notify.py`, `logger.py`, `clock.py` | client queues, recent events | event, stream, close | event bus | bounded queues, nothing lost but by a full one |
| `brokers/*` | credentials, connection, cached orders (Binance) | REST calls | exchanges | requests translated faithfully; no order updates, so the engine refuses them |
| `data/*` | caches, Yahoo's request throttle | fetch, cache, parse | Yahoo, files | requests keep their distance, spans have no gap |
| `engine/backtest.py` with `execution`, `financing`, `signal`, `utils/position_sizing` | open position, pending entry, equity, day counters, cooldown | `step` per bar | signals | every fee charged once, a stop that is hit ends the position |
| `engine/portfolio.py` | runners, day start equity, halt | a step per time and system | bar runners | no capital used twice, a halt flattens all |
| `engine/backtest_ticks.py` | open position, pending entry, equity | a step per tick | signals | equity agrees with the trades |
| `engine/walk_forward.py`, `grid.py`, `optimize.py` | windows, stitched equity; futures of a process pool | train, test, summarise; submit, collect | backtests | the report agrees with the windows; results stand at their parameters |
| `engine/async_signal.py`, `backtest_async.py` | decisions by bar time, log | `signal` under a budget | a model | one decision per bar |
| `research/*` statistics, `metrics/`, `reporting/`, `ta/`, `utils/`, `strategies/`, `mcp/`, `cli.py` | none to speak of | pure functions, rendering, dispatch | | numerically right |

`PROJECT.json` has each part with its status, and the hazards of the code, each at
its line with the properties that cover it or the reason none does yet.

What is hard here is asynchronous. The live engine runs on one asyncio loop, but
the bar handler, start/stop and the callbacks of the broker interleave at every
await; the handler holds `_bar_lock`, start and stop hold `_lifecycle_lock`, and
neither waits for the other. A fill may be reported before the submit call
returns, during a cancel, or never. The process may die at any await. The research
store is shared by processes whose only common ground is `open(O_EXCL)`,
`stat`, `unlink` and `rename`.

## Modules

| module | models |
|---|---|
| `BrokerAccount` | the account: status, side and report of every order, the net position |
| `LiveEngine` | the engine on top of it (`EXTENDS BrokerAccount`), with the risk halt and the storage queue |
| `TradeCycle` | what the engine promises of the account: one order at a time, in from flat, out whole |
| `LiveEngine_proofs` | the theorems about `LiveEngine` |
| `TradingSession` | the session on top of `BrokerAccount`: brackets, one-cancels-other, compensation, closing |
| `RiskRules` | the RiskManager class: a record and its operations |
| `RiskManager` | a live engine's use of it (`EXTENDS RiskRules`) |
| `SessionRisk` | a session's use of it (`EXTENDS RiskRules`) |
| `RiskManager_proofs` | the theorems about `RiskManager` and `SessionRisk` |
| `SessionManager` | creating, removing and halting sessions |
| `LiveOrchestrator` | several engines, their start and stop, the portfolio halt |
| `PaperBook` | PaperEngine's orders, fills, cash and positions with prices |
| `PollingFeed`, `CandleAggregator`, `EventStream`, `JsonStorage` | polling, candles, dashboard streams, files |
| `BinanceOrders`, `YahooFetch` | the Binance adapter's order cache; Yahoo's throttle, retries and chunks |
| `ResearchRecord`, `ResearchStore` | what the research store promises, and how it keeps it, system call by system call |
| `TradingSession_proofs`, `ResearchStore_proofs` | the theorems about the modules of those names |
| `LiveParts_proofs` | the theorems about `LiveOrchestrator`, `SessionManager`, `JsonStorage` and `PaperBook` |
| `Feeds_proofs` | the theorems about `PollingFeed`, `CandleAggregator` and `EventStream` |
| `Requests_proofs` | the theorems about `YahooFetch`, `BinanceOrders`, `ModelSignal`, `Optimizer` and `WalkForward` |
| `Backtest_proofs` | the theorems about `BarRunner`, `PortfolioRun` and `TickReplay` |
| `BarRules` | what a BarSystemRunner does with one bar: a record and its operations |
| `RuleBook` | those rules under the one name by which the engines below call them |
| `BarRunner`, `PortfolioRun`, `TickReplay` | one runner over any bars; several on shared capital; the tick backtest, on the same rules for fills and costs |
| `WalkForward`, `Optimizer`, `ModelSignal` | walk-forward windows; grid search in a pool; cached model decisions |
| `MCLiveEngine`, `MCTradingSession`, `MCResearchStore`, `MCBarRunner`, `MCDesk` | finite instances for TLC |

Definitions whose names have a suffix after an underscore and whose comment begins
with "Mutant" are faulty variants of the definition that follows them. No
specification uses them: each shows that some property notices that fault.

### BrokerAccount

An order is identified by its client order id. `status` goes from `none` through
`sent` (the submit call has not been answered) and `working` to `filled`,
`canceled` or `rejected`; a fill adds the order's side to `net`. All orders have
the same quantity and prices are left out: which bar fills what is a free choice.

`Synchronous` is PaperEngine: it answers and reports inside the call, fills or
rejects a market order in `submit_order` (paper.py:426-432) and fills resting ones
later, on a bar. `~Synchronous` is a streaming adapter. The repository defines
the contract for one (`live/broker.py`) and refuses adapters without order updates
(`brokers/base.py:203-211`), but bundles none, so its behaviour is external: it
answers when it likes and reports each finished order once, later, in any order.

### LiveEngine

An action is the code between two awaits. `at` says at which await `handle_bar` is
suspended and `life` at which `start` or `stop` is; `call` and `stopCall` are the
orders they wait for. The variables and the attributes of the class:

| variable | code |
|---|---|
| `pos` | `open_position`; `client` and `id` are `_pendingExitClientOrderId` and `_pendingExitOrderId` |
| `pend` | `pending_order`; `client` and `id` are `clientOrderId` and `orderId` |
| `halted` | `risk_manager.halted` |
| `saves` | calls of `state_manager.save` and `append_trade` waiting for the namespace lock, each with the snapshot it took |
| `disk` | `openPosition` and `pendingOrder` in the state file |
| `boot` | the locals `persisted` and `positions` of `start` |
| `feed` | where bars come from: the feed ("on"), a poll task ("poll"), a bar still waiting for `_bar_lock` after the subscription ended ("late"), a canceled poll task that is waited for ("ending"), nowhere ("off") |
| `flat` | the running or last `stop` flattens and has not failed |
| `lost` | history variable, see below |

`BarPasses`, `BarExits`, `BarExpires` and `BarChases` are the ways a bar begins:
nothing to manage, an exit triggered, the pending entry past its expiry, the entry
chased. `Gate` is the tail of `handle_bar` from `can_trade` on, and is a conjunct of
every action that reaches it. `...Returns` is a broker call that returns,
`...Fails` one that raises, `...Heard` and `...Resumes` the drain of spawned tasks
between the return of a submit and the reading of its receipt, `...Saved` the end
of a persist. `Filled` and `Refused` are the callbacks; at PaperEngine they are part
of the step that fills or cancels (`AccountMoves`), at a streaming account they run
in `AccountTells`, and a receipt that says "filled" runs `Filled` too. `InCall` keeps
a call into PaperEngine one step of the loop.

`PollEnds` is the cancellation of the poll task by `stop_polling` (polling.py:142-147), from
`stop` or from the disconnection of the feed. The handler runs in that task, so it raises
`CancelledError` at whichever await it is: a submit of an exit halts and persists, any other call
is abandoned with its answer never read, and the writes it waits for are given up
(`Abandons`; `_drain_event_tasks` cancels the tasks it drains). A submit that is canceled may or may
not reach the account.

`lost` becomes TRUE when the engine drops the name of an order that may still act
(an expiry after a submit of unknown outcome, a veto whose cancel failed), closes a
position on the fill of an order that was not its exit, or goes on from a stored state that
is not what it had in memory. The code does all of these on purpose or without
noticing; the properties then say what holds as long as it has not. What may
happen after one of them is stated separately (`RestartSafe`), and is violated.

`TradesInTurn` is a refinement: `TradeCycle`, with `net`, the orders that are sent or working and `lost` for its
variables, sees only the account. An order is sent to enter when the account is flat, or to leave with the whole
position, and only when no other can fill; an exit that `stop` cancels is replaced in one step.

### ResearchStore

A thread of a process takes the process's thread lock, creates the lock file, writes
its process id, loads, saves and lets go; a waiter looks at the file's age, then at
its owner, then unlinks, each a step of its own. `file` is the file at the path,
with the thread that created it, the process id in it (or none yet) and whether it
is older than `_STALE_LOCK_SECONDS`. Death of a process leaves the file behind. A
refinement mapping (`Record == INSTANCE ResearchRecord WITH ...`) maps `store` to the
abstract record.

### TradingSession

A coroutine is a call by a user (`Callers`) or a task that a broker callback spawned
(`Tasks`); `co[p]` says at which await it is, which operation it works for and which order it
waits for, and an action is its code up to the next await. `pending`, `bracket`,
`recovery`, `winner`, `meta` are the dictionaries `_pending_brackets`, `brackets`,
`_bracket_recoveries`, `_oco_winners` and the two metadata tables, for one symbol. `...Returns`
and `...Fails` are the two ends of each broker call. `Faults` says which calls may raise,
whether the venue cancels or rejects legs by itself, and whether the user cancels
orders behind the session's back. `Delayed` lets an entry's fill be reported before its
submit call returns, `Pyramids` lets a user enter while a trade is on: `Protected` fails with the one
(the reason `docs/safety.md:15-17` gives for refusing REST adapters) and
`NoStrayLeg` with the other.

### RiskRules, RiskManager, SessionRisk

The manager is a record; percentages are compared without division, the New York day is
`t \div DayLength`. An engine (`RiskManager`) marks each bar with the time the bar
opened, up to `Lag` late, records exits with the time of their fill, and asks
before an entry. Its `Restart` initializes the manager and loads the engine's totals,
which are never reset. A session (`SessionRisk`) sees equity only: `Sync` records every change as a trade,
`refresh` takes it over without recording it.

### The live parts

`LiveOrchestrator` has one step per engine that starts or stops under the lifecycle lock,
and `CheckPortfolioLimits` as part of every equity event. An engine takes a bar and reports its equity in two steps, between which
others may go on; its bars come in order but late ones are of an earlier day, and an exit is of the day the venue says. `PaperBook` splits
`simulate_bar` into the report of the bar, the listing of the open orders and one
match each, since callbacks may submit, amend and cancel in between. `PollingFeed` awaits
each handler of each bar; a handler may raise, and the loop's poll may be cancelled at any
await. `EventStream` gives each client its replay and its bounded queue. In `JsonStorage` the
thread of a cancelled task goes on and the task keeps the lock until it ends, unless it is cancelled again; each system call of a
thread may fail, and `clear` removes the files one by one. `YahooFetch` has
slots of the shared throttle, chunks and retries in seconds. `SessionManager`
splits `create`, `remove` and `halt_all` at their awaits. `BinanceOrders` keeps the venue's orders
and the adapter's receipts apart; a call is carried out, refused or left unanswered.

### The backtest engines

`BarRules` has the runner as a record `r`, its options `o` and a bar `b`, and translates `step` stretch by
stretch: pending entry (expiry, chase, conversion, fill), break-even, trailing, scale-out, pyramiding,
volatility cut, exits, cooldowns, daily limits, signals and sizing. Prices and
sizes are integers; slippage, spread and commission are amounts per unit where the code
has basis points. `BarRunner`, `PortfolioRun` and `TickReplay` apply it through `RuleBook`, so that the
rules of fills and costs are stated once, as in the code, and what is proved of them serves all three.
`Optimizer` takes a backtest as a free choice of its outcome; `WalkForward` takes one as a free choice of a score
in training and, in a test window, of the legs its positions are closed in, up to `MaxLegs`, partial exits included, on bars on which
the runner could have closed them (`Tradable`). In `ModelSignal` an
asynchronous backtest awaits one cached resolution per bar, which may raise, run out of its
budget, or be cancelled with the backtest.

## Runs

| run | instance | states | shows |
|---|---|---|---|
| `EnginePaper` | paper, 3 orders, long and short, 2 starts, bars pushed or polled | 523 000 | `EngineInv` is invariant; `PaperAgrees`: the position is the account's at every await |
| `EngineStream` | streaming, 3 orders, 1 start, bars pushed or polled; failing submits, cancels, position reads, starts; receipts that say "filled" | 3.1 million | `BookAgrees`, `NoStrayOrder` |
| `EngineCrash` | streaming, 3 orders, 2 starts, crashes at every await | 4.7 million | `DurableAtRest`, `TradesInTurn` |
| `EngineProgress` | streaming, 2 orders, bars polled, failing calls, fairness | 149 000 | `HandlerReturns`, `StopReturnsEventually` |
| `Sessions` | a streaming account with failing calls and refused orders, one trade | 3.1 million | `Protected`, `NoStrayLeg` |
| `SessionOco` | streaming, early fills, two tasks, a user who cancels orders, fairness | 273 000 | `OcoSettles`, `CallsReturn` |
| `StoreShared` | 2 processes, 3 threads, crashes, failing writes, fairness | 168 000 | `MutualExclusion`, `NoLeak`, `Implements`, `MutationEnds` |
| `Desk` | eighteen parts, see below | 2.7 million | 24 properties |
| `EngineFlatten` | paper, flatten on shutdown | violated | `FlattenSticks` |
| `EngineRestart` | streaming, crash and restart | violated | `RestartSafe` |
| `StoreTakeover` | 3 processes, one dies | violated | `NoLostUpdate` |
| `BacktestStops` | the runner's options with clamped stops | violated | `TighteningKeepsStop` |

`Desk` is a disjoint union: `part` chooses a component, its variables move and all others stay at
their initial values, so every property is checked on exactly the behaviours of its own component.

| part | instance | properties |
|---|---|---|
| RiskManager | days of 3 ticks, 6 ticks, one restart, bars up to 1 late, an operator | `Tripped` |
| SessionRisk | 3 moves of the account, 2 orders | `LossHalts` |
| LiveOrchestrator | 2 systems, 2 days, 2 starts, 3 bars and exits of any day so far | `AllOrNothing`, `PortfolioHaltHolds` |
| PaperBook | 3 orders of every type, 2 bars, an amendment | `BooksBalance`, `OrdersStayDone` |
| PollingFeed | 2 handlers, 3 bars, 3 polls of 2 bars | `NothingSkipped` |
| CandleAggregator | 2 intervals, 4 ticks, one bar from outside | `BarsTrue` |
| EventStream | 2 clients, queues of 2, 4 events | `StreamsWhole` |
| JsonStorage | 2 tasks, 2 names of one directory, 3 saves, appends and clears that may fail or be cancelled twice, a crash | `FilesWhole` |
| YahooFetch | 2 fetches, one in two chunks, 2 retries | `SlotsSpaced`, `SpanCovered` |
| SessionManager | 2 names, 3 sessions | `NoOrphan` |
| BarRunner | 4 option records, 6 bar shapes, 4 signals, 6 bars | `BarBooks`, `StopBinds` |
| PortfolioRun | 2 systems of weights 1 and 2, 3 bar shapes, 3 times | `HaltFlattens`, `CapitalShared` |
| TickReplay | 4 kinds of tick, 3 signals, 6 ticks | `TicksAddUp` |
| WalkForward | rolling, anchored, touching, overlapping and gapped windows, 2 legs, 2 parameter sets | `ReportTrue` |
| Optimizer | grids of two keys and of one key without values, serial, pooled and unpicklable, 2 workers | `RankedAlike` |
| ModelSignal | 2 backtests of 3 bars, both settings of on_error | `OneDecision` |
| BinanceOrders | 2 orders, 4 calls, spot and futures | `AsAsked` |
| TradingSession | a paper account, two trades either way with any bracket, two starts, a user who cancels orders | `ExitsReduce`, `FlattenLeavesNothing` |

Bounds. Three orders are an entry, its exit and one more of either kind, enough for
a doubled exit, a stacked entry, an exit that is canceled and replaced by `stop`, and
an entry during a flatten. Two starts are a restart from every stored state. The
liveness run needs an entry and an exit only, and has the bars polled because there `stop` waits for
the handler. Two directions are checked on the paper
account; elsewhere the mirror image adds nothing, as every comparison of sides is
symmetric. Three threads in two processes have both kinds of contention; one mutation
each suffices for exclusion, because a thread that is done is no different from one
that has not begun. Orders are interchangeable, so safety runs use symmetry; liveness
runs do not. `EngineCrash` leaves out receipts that say "filled", which `EngineStream`
has, to stay small. A session needs an entry, two legs and a close per trade and two tasks
so that callbacks race each other. In `Desk` each bound is the
least with which the part's hazards happen, judged by the mutants of its definitions, each
of which some property notices: a carried-over day and a restart, a rollback with a failure, an
average, a partial exit and a reversal, a queue that overflows, a seam between
chunks, a stop, a trail and a scale-out on consecutive bars.

Deadlock is not checked in the engine and session runs because orders and starts run out and an
engine that is off rests, nor in the store runs, where every thread ends its
mutations or dies, nor in `Desk`, whose parts come to the end of their bars, polls and orders. That
the handler, `stop`, session calls and mutations do not get stuck is what
the liveness properties say.

The four violations:

- `FlattenSticks`: `stop` does not take `_bar_lock` (engine.py:861) and unsubscribes
  after it has flattened. A handler suspended in an awaitable signal, past its
  check, submits its entry after the exit filled; `stop` returns with a position
  open.
- `RestartSafe`: an entry that filled, and a crash before the persist that names it.
  `start` finds a position at the broker and none in its state; the reconciliation
  action is "external-position", which only warns (engine.py:803-815).
- `NoLostUpdate`: two waiters judge the same dead owner's file stale; the first
  unlinks it and creates its own, the second unlinks that one (store.py:126-129). Both hold
  the lock and the later save drops an entry whose `log` had returned. `StoreShared`
  shows that it takes three processes: with two there is one waiter for a
  dead owner at a time, as threads of a process exclude each other.
- `TighteningKeepsStop`: `tighten` and `_tighten_breakeven` clamp the stop to the near side of the bar's
  close after they have taken the tighter one (backtest.py:785-797). When a bar closes beyond a stop its
  trigger did not hit, the clamp moves the stop away from the price.

## Fairness

`LiveEngine!Fairness` is asyncio's scheduling: a task whose await is over runs, and a
save reaches the store. Of the broker it assumes that it answers every call and
reports every order that is done, without which no client could make progress. Bars,
fills of resting orders, `start`, `stop`, failures and crashes are never assumed to
happen. In `ResearchStore` a live thread that can take a step takes one;
the thread lock is not fair, but a thread begins finitely many mutations. Each
wait may time out and the number of waits is bounded, as by the deadline in the code.
`TradingSession!Fairness` is the same as the engine's: coroutines that can go on do, the account answers
calls and reports what it did. Users need not call anything, and no order need fill.

## Proofs

`LiveEngine_proofs` proves, for all orders, directions, faults, kinds of feed, both kinds of
account and any number of starts:

- `TypeInvariant`: `Spec => []TypeOK`
- `Inductive`: `Spec => []EngineInv`
- `BookAlwaysAgrees`: `Spec => []BookAgrees`
- `NeverStray`: `Spec => []NoStrayOrder`
- `TradesAreInTurn`: `Spec => TradesInTurn`, the refinement of `TradeCycle`
- `DurableWhenAtRest`: `Spec => []DurableAtRest`
- `PaperAlwaysAgrees`: `Spec => []PaperAgrees`

The assumptions are `OrderAssumption` and `EngineAssumption`: `NoOrder` is not an
order, directions are among -1 and 1, and a paper account neither raises in submit
and cancel nor loses the process between two awaits. TLC evaluates both in every
engine run.

`BookAgrees` (net = position + unbooked fill of the entry - unbooked fill of the exit)
is not inductive: that a fill is booked needs the order to be named, the names to be
on the right side (`SlotsOK`), the entry being submitted to be the pending one
(`SlotsOK`, `CallOK`), and that no third order can fill (`NoStrayOrder`). `EngineInv`
is the conjunction. All but the types and `CallOK` are guarded by `~lost`, and
`LostStays` proves that `lost` never goes back.
The proof goes in three layers: typing of every operator and action (`...Type`
lemmas); what filling, dropping, exiting and entering do to the book, on
values, without the engine's variables (`MoveBook`, `FillBook`, `DropBook`, `ExitBook`,
`EntryBook`); and one case per action, which cites the second layer with its own
values (`AccountStepBook`, `BarStepBook`, `OrderStepBook`, `LifeStepBook`), joined in `StepInv`.
The refinement takes two more steps: what each action does to the account (`StepDoes`: nothing, an order
goes on, or one is sent, perhaps for one just canceled), and what `EngineInv` says of that (`MovesCycle`,
`SendsCycle`): the order that goes on is the only one out, and one that is sent enters a flat
account or is for the whole position.
`DurableInv` says where a change of memory that is not yet in the store can be: a handler that has changed it
will still save (`Waiting`), a trade's record is queued, or the last save asked for has the snapshot (`Settled`).
`PaperInv` is about the account that calls back inside the call: what each await implies of the two slots and of the
orders they name (`Phases`), and that as long as the engine is subscribed in its first start (`Watched`) an order that can fill has a name
in the slot of its side, so its fill is booked in the step that makes it (`Watch`).

`TradingSession_proofs` proves, for any users, tasks, entries, starts, faults and both kinds of account:

- `NoLegStrays`: `Spec => []NoStrayLeg`
- `EntriesAreProtected`: `Synchronous \/ ~Delayed` implies `Spec => []((Synchronous \/ starts <= 1) => Protected)`
- `EveryExitReduces`: `PaperTrades` implies `Spec => ExitsReduce`
- `FlattenClearsAll`: `PaperTrades` implies `Spec => FlattenLeavesNothing`

`LegsInv` says more closely whose a live leg is: it is in the bracket or in the hands of a coroutine (`Owned`), where `Hands`
is less than what `NoStrayLeg` admits, a function of the await the coroutine is at. It adds the shape of a frame (`Shapes`),
that a leg a coroutine carries was submitted (`FrameOK`), and that the bracket's legs were answered (`BracketOK`).
`FrameStep` reduces each action to what its one coroutine takes and lets go.

The hypotheses of `EntriesAreProtected` are those under which the code keeps its promise: a fill is reported after the entry's
submit has returned, or in the call (`Delayed` is what the documents refuse REST adapters for), and a
streaming account is started once: after `stop` an entry that still rests may fill, nobody hears it, and the next
`start` does not look for it (TLC). `PromiseInv` says who will see to the stop of an entry that filled or may fill (`Promised`):
the stop was submitted, the bracket is staged and the fill not reported, a coroutine has the entry's submit in hand and
will stage or attach, or a task was spawned to attach. It adds `LegsInv`, that ids in use were submitted
(`MetaSent`), that before the first start nothing has happened (`Unstarted`), and that on a paper account one coroutine at a
time is under way and bars are matched only for a session that runs (`OneRuns`), so that a fill there is always heard.
`PromiseStep` reduces an action of a coroutine to what it takes from the books or from its own hands (`SeesTo`), `PromiseHears`
one of the account to what the callbacks make of it.

`PaperTrades` is one user (one coroutine, any number of tasks) who does not enter again before a trade is over, on a paper
account that refuses no order. TLC refutes both properties with two callers, `ExitsReduce` with pyramiding and
`FlattenLeavesNothing` when the close is refused; with refusals it finds no
counterexample to `ExitsReduce`, but the invariant does not follow the compensation of a refused leg. The constants
of `Desk` satisfy `PaperTrades`. `TradeInv` adds to `PromiseInv` that
an order that can act is the entry of a flat account and then the only one, or is for exactly the whole position (`OneTrade`); that
a task at work is one the user's coroutine waits for or is about to wait for, one at a time (`OneTask`), so that the
user and a task never work on the trade at once (`Alone`, `Tended`); and what each await knows of the position and
of the orders that can still act (`TradeFrame`), in particular that after the close of a flatten the position is
zero and after its sweep no order is left. The legs of a bracket fill on a bar only while the user is in `push_bar`, and with them their siblings
go (`GoneWith`). That the least of a set of ids exists, which the loops over legs and open orders take, is `HasLeast`, by the
well-foundedness of the naturals.

`RiskManager_proofs` proves, for any limits, days, profits, lateness of bars and number of restarts:

- `RiskTypes`: `RiskSpec => []RiskTypeOK`
- `LimitsTrip`: `RiskSpec => []Tripped`
- `SessionLossHalts`: `GateSpec => []LossHalts`

the first two from `RiskAssumption` and `EngineUseAssumption`, which only say that the constants are numbers. `Tripped`
needs the manager to be initialized and its equity, peak and day to be numbers (`Started`), which
`RiskInv` adds. Each operation of the class has a lemma on records
(`ResetDayFacts`, `SeenFacts`, `HaltFacts`, `UpdateFacts`, `RecordTradeFacts`,
`InitializeFacts`, `LoadFacts`); what makes the theorem true is that both checks run after the reset of a new
day, in either order (`DrawdownThenLoss`, `LossThenDrawdown`), so that a halt the day lifted is set again. For a
session `GateInv` says that the manager's sum is the change of the equity the session knows since the day began, until
`refresh` has swallowed a change, and that a sum at the limit has halted.

`ResearchStore_proofs` proves, from `StoreAssumption` and `Healthy` (no process dies or stalls; writes and
saves may fail, and waits time out), for any processes, threads and mutations:

- `Exclusive`: `Healthy => (Spec => []MutualExclusion)`, `Unlocked` the same of `NoLeak`, `NothingLost` of
  `NoLostUpdate`
- `StoreRefines`: `Healthy => (Spec => Implements)`

`LockInv` says that the lock file is there exactly while a thread is inside and names that thread, and
`StoreTypes` that it never becomes old, so no waiter unlinks it; `CopyInv` that what the holder loaded is
still the record when it saves; `EntryInv` that a mutation writes its entry once. With these a save is the
abstract mutation and every other step a stutter. `Healthy` cannot be dropped: `StoreTakeover` refutes
`NoLostUpdate` when a process dies; that two processes with a death are still safe is model-checked
(`StoreShared`).

The smaller parts, each from the assumption its module names, which only says of the constants that they
are numbers, functions or records of the right kind:

- `LiveParts_proofs`: `NoneOrAll` (`AllOrNothing`) and `HaltHolds` (`PortfolioHaltHolds`). `OrcInv` adds how far
  a start has come (`Starting`: the systems before `step` are up, those after it untouched), that an
  undo or a stop is over with every system after `step` (`Ending`), and that on the day the portfolio halted an engine that
  is not stale is halted, is in the day and has had a bar of it (`Held`), without which its next bar could lift the halt.
  `NoneOrphaned` (`NoOrphan`): `ManagerInv` adds what the holder of the lock is about
  (`JobOK`), that a session outside the dictionary is the one being created or one whose disconnect
  raised (`Accounted`), and that `halt_all` is over with the sessions it no longer waits for (`HaltDone`).
  `FilesAreWhole` (`FilesWhole`): `StorageInv` adds that a task that writes has the lock of its
  directory, also when it was cancelled (`TaskOK`), and of a directory whose lock was never let go under a thread (`DirOK`) that a thread at work there
  has a task that waits for it, so that there is one at a time (`WorkOK`), and that what a thread has done is there until its
  call returns (`DoneOK`).
  `DoneStaysDone` (`OrdersStayDone`, an action property): an order of `PaperBook` that is done stays exactly as it is,
  in every submit, cancel, amendment and match.
  `BooksAlwaysBalance` (`BooksBalance`): `BookInv` is the equation at every price, not only at those the bars show.
  `FillBalances` shows for one fill, case by case (addition, partial exit, exit, reversal), that cash and position at
  any price change by what the fill is worth there. What all orders have earned is a recursive sum over the
  history: that it exists (`SumsExist`), and what one order more or another order in the place of one does to it
  (`AppendEarns`, `PutEarns`), follows by a least counterexample (`LeastOne`), as the library's induction
  theorems cannot be used. The hypothesis `[][ExactAverages]_bookVars` says that
  no average entry leaves a remainder: the model's prices are whole numbers where the code has floats. Every step of
  the instance of `Desk` satisfies it (TLC).
- `Feeds_proofs`: `NoneSkipped` (`NothingSkipped`). `FeedInv` adds that one poll at a time has the lock, that the
  bars it has still to deliver are the last of its answer without a gap, and that a handler has those before them
  (`DeliveryOK`), so that `lastEmitted` may move to the last of them at the end and not before.
  `BarsAreTrue` (`BarsTrue`): `CandleInv` adds that the bar being built is the fold of the ticks of its bucket, and that a
  bucket that had a tick is the current one or was answered (`Placed`).
  `StreamsAreWhole` (`StreamsWhole`): `StreamInv` says of the queue and the frames of a client together that their numbers
  follow one another, but for a client whose full queue dropped some, that they end with the last event, and that
  a closed stream ends unless it was opened after `close()`.
- `Requests_proofs`: `SlotsAreSpaced` (`SlotsSpaced`), where `SlotInv` adds that the next slot lies after the
  delay of every slot given out, and `SpansAreCovered` (`SpanCovered`), where `SpanInv` says that the rows have every
  time after the chunk at work. Time 0 is the one a span can miss: the loop of chunks stops at it.
  `AmendedAsAsked` (`AsAsked`) has the hypothesis `Careful`: one task uses the adapter, and looks an order up after an
  amendment that failed; TLC refutes it without either. `BinanceInv` adds that the receipt of an order agrees with
  the venue unless it is doubtful or being amended (`Fresh`), and what each phase of a call knows (`CallsOK`).
  `DecidedOnce` (`OneDecision`) has the hypothesis `~Overlap`: no two backtests use a signal object at once; TLC refutes it
  otherwise. `SignalInv` relates the cache, the log and the decisions of each backtest.
  `AlwaysRankedAlike` (`RankedAlike`): `OptInv` says that a row is missing, its own set's result or the error of a
  broken pool (`RowsOwn`, `FuturesBroken`), and what may be missing in each phase (`PhaseOK`). Two facts make it the theorem: the grid
  of the combinations is a sequence of parameter sets (`GridLists`, by a least counterexample), and the rows ranked above each take every place of
  the leaderboard exactly once (`PlacesTaken`), so the order of the answers cannot show.
  `ReportsAreTrue` (`ReportTrue`): `WfInv` says of a walk-forward under way that the equity is the first one and the sum of the legs' gains, that the
  windows count the positions that were closed (`WfEquities`; `TotalJoins` adds up the legs of one more window), and that the curve climbs, ends with the equity and ends inside the last window
  (`WfCurve`): the next window's last bar is then later, so its point is stitched on unless nothing was traded. What is said of the
  winners follows from the windows alone: each seat of the leaderboard has one winner (`WinnersSeated`, by the same ranks
  as above), whose windows are a partition of all of them (`HeldFacts`), which the sums of wins and trades add up; stability and
  repeats both say that each window has the winner of the one before (`AlikeStable`, `AlikeRepeats`). Sums and stitching are recursive
  functions: that they exist is proved by counting up inside a set (`CountsUp`).
- `Backtest_proofs`: `HaltsAreFlat` (`HaltFlattens`): what `force_exit` leaves alone is a runner that has seen no bar, and
  `PortInv` adds that such a runner has no position. The lemmas `...Marks` say what each rule of `BarRules` keeps of the
  record, `...Flat` when nothing is left open.
  `StopsBind` (`StopBinds`) and `StopsTighten` (`TighteningKeepsStop`), both action properties, from `SizesOK`: every option
  record has a positive minimal quantity. With a minimum of zero the code may open a position of no size, and divides by it
  when it closes. `Tightened` says what break-even, trail, scale-out, pyramid entry and cut may do to a position,
  `Managed` follows it to the exits. `StopsTighten` has `Unclamped` besides: it is the complement of the violation that
  `BacktestStops` finds, and shows that the clamp is its one reason.
  `RunnerBooksBalance` (`BarBooks`) has `SizesOK` and `CommissionsProportional`: commissions are amounts per unit, without which the code
  does misallot fees (TLC, see below). `LedgerInv` says that an open position's fee is then that of all its units ever, which makes the share
  of a leg exact (`ExactShares`), and that the equity is the cash and the stake of the position; each rule of a bar either leaves the stake
  alone (`SameStake`) or moves it with the cash. `ExactAdditions` has the place of `ExactAverages`: no averaged fill leaves a remainder.
  Every step of the instance of `Desk` satisfies it (TLC).
  `TicksAlwaysAddUp` (`TicksAddUp`): `TickInv` carries the equation of equity, cash and position at cost (`AtCost`)
  through fills, exits and expiries.
  `SharesKept` (`CapitalShared`), the action property of the shared capital, has the hypothesis `PortPlain`: sizes and
  prices are positive and fills cost the price of their order, without which TLC refutes it (see below). `Sound` says that
  every price of a runner is positive; of each rule of a bar, a lemma `...Shrinks` or `...Spends` bounds what the position
  then cost by what it cost before and the room at hand. One room serves a whole bar, with its
  addition, exits and entry: an entry follows only where nothing is open, so what was added is locked no more (`StepSpends`).
  The sums over the systems are unfolded by a least counterexample (`SumsCover`, `SumsDiffer`).

Only model-checked, and why:

- The research store when a process dies; of sessions whose orders are refused, `ExitsReduce` is neither run nor proved.
- All liveness, which is beyond the prover, as is everything about recursive operators.

## What the code does beside its documents

Steps the models take as the code does, of which no document says otherwise, and which a reader of the
code may not expect. Those marked TLC were found as refutations of a stronger property, or of the property named
under other constants.

- Live engine. An entry whose submit raised, or whose cancel failed in a veto, is forgotten although it may be
  working (engine.py:609, 682). An exit that is rejected leaves its client id on the position, so no other
  is sent until a restart (engine.py:554). With a full candle buffer the bar index stands still: entries
  never expire and TIME exits never fire (engine.py:424). The totals loaded into the risk manager at a start are those
  of the engine's life, not of the day (engine.py:809), and a start lifts every halt (risk.py:120).
- Risk. A bar of yesterday that comes after an exit of today moves the day back and
  resets its counters (risk.py:123-130): with late bars a day may have more entries than `max_daily_trades` (TLC).
- Orchestrator. A portfolio that has halted its engines does not halt them again that day. The first bar of today of an
  engine that had none at the halt, a late bar of yesterday, or an exit the venue dates on an earlier day lifts the engine's halt, and it
  trades on (orchestrator.py:240, risk.py:123-131; TLC for `PortfolioHaltHolds` without the exception).
- Storage. `_complete_io` says that it keeps the lock while a cancelled thread mutates the disk (storage.py:57). A second
  cancellation ends `await task` inside of `suppress`: the lock is free
  while the thread writes, lines mix and an older state may overwrite a newer one (storage.py:62-65; TLC for `FilesWhole` without the
  exception). Behind a line that was cut off the next one is appended, on the same line of the file, and `load_trades`
  raises from then on (storage.py:144-175).
- Session. A second entry in a symbol overwrites the bracket of the first (session.py:744; `Pyramids`, TLC). Two callers
  can close a position between its fill and its bracket, whose leg then opens one (session.py:358; TLC). A stop
  whose flatten raised has marked the session stopped, so a retry does nothing (session.py:473-488); `halt_all`
  forgets such sessions. `record_trade` is called for each change of equity (session.py:754), and `refresh` swallows
  one (session.py:876; TLC for `LossHalts` without the exception).
- Feeds. A bar of a failed poll that leaves the window of `default_bars_per_poll` is never delivered; a handler that
  unsubscribes during a poll still gets the current bar (polling.py:111-121).
- Dashboard. An event that `json.dumps` refuses is among the recent ones before the call raises, and breaks off every stream that replays
  it (dashboard.py:93-105). A stream opened after `close()` is never told to end (dashboard.py:101-113).
- Brokers. Binance completes an amendment from its cache, which is stale when callers overlap or an amendment
  raised after the venue took it (binance.py:312; TLC for `AsAsked` with two callers or without the look-up), and
  the cache is keyed by the order id alone. Interactive Brokers changes the shared order object before
  placing it (interactive_brokers.py:235-245).
- Backtest. With a commission per order or per price, an addition to a position after a partial exit misallots the entry fees
  (backtest.py:542; TLC for `BarBooks` with `perOrder` positive). Only a leg closed by its stop starts the post-loss
  cooldown (backtest.py:1001). Financing charges added units since the first opening (backtest.py:545). Daily limits
  turn at New York midnight in portfolios and live, and at UTC midnight in tick backtests and in intrabar bar backtests
  that do not flatten (backtest.py:1026-1030, backtest_ticks.py:428).
- Portfolio. An entry is sized at its order price and locks what its fill costs, so slippage and spread take it beyond the system's share
  (portfolio.py:325, backtest.py:502; TLC for `CapitalShared` with `slip` positive). A system of weight zero, when another
  has a positive one, is limited by no share (portfolio.py:66; `Cap`, and `SharesKept` holds for it).
- Walk-forward. Overlapping test windows count their trades twice, while the stitched curve uses each time once
  (walk_forward.py:81-113).
- Signals. A signal object used by two backtests at once may decide one bar twice and differently (async_signal.py:115; TLC
  for `OneDecision` with `Overlap`), one shared by two symbols returns the other's decision, and with `on_error = "throw"`
  a retry of the bar that raised silently returns no decision.
- Data. A span stops being fetched at two million rows (yahoo.py:355), without saying so. Rows of a CSV file are cached under the key a later request to Yahoo reads (facade.py:79-91).

## Not modelled

Of the engine: the candle buffer and the bar index on which expiry and TIME exits depend, prices,
quantities (a size mismatch on restart is modelled only as a wrong direction), the equity and
trade logs, symbols other than its own, tasks canceled from outside the engine, and writes of the
state file that fail. Of the session: prices and quantities of entries, several symbols, its
history. Of the research store: corrupt records, process ids that are used again, and, though
`ResearchStore` has it as the fault "slow", a live process that stalls beyond the staleness limit
between creating the lock file and writing its id into it, and so loses the lock. Of PaperEngine: historical bars, several
symbols and step rounding. Of the bar engine: basis points of prices, the lookahead guard, MFE and MAE
statistics, replay frames and the rendering of trades; of the portfolio `max_allocation_pct`, a limit that up to 1 could only lower the cap; of the tick engine its hash, which is any choice.
Of the Yahoo client the cap of two million rows (yahoo.py:355) and the sleep before a slot; of the dashboard an event that `json.dumps` refuses
(dashboard.py:94), see above; of the storage its loads. Of
a walk-forward, the search's own metrics of a training backtest and positions beyond `MaxLegs` legs in the checked instance (the proof has any number).

Left out for good: requests and responses of the REST adapters but for Binance's cache, parsing of candles and the candle cache, the
event bus (its handlers run inside the actions of its users), clock, notifications and logger, and what is a real-valued function or
rendering: research statistics, metrics, reports, indicators, strategies, the MCP server and the command line.

## Plan

1. Proofs: `ExitsReduce` when orders are refused.
2. CPCV splits and combinations as pure algorithms against reference definitions.
