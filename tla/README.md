# Formal models of the GIDH backend

GIDH is a single Go process that takes market ticks from the Kite websocket (live) or from
TimescaleDB (backtest), enriches them, aggregates bars and volume profiles, lets a strategy engine
decide on trades, and keeps orders and positions with local take-profit and stop-loss thresholds.
The models here follow a tick through all of it: the sources, the stream manager, the stages of the
pipeline, the agent (strategy engine and risk manager), the two order managers, the websocket hub
they broadcast through, the writer that stores the rows, and the handlers that start and stop it all.
Prices, volumes and text are abstracted; control flow, locking, failures and ordering are kept.

Paths below are relative to `src/internal/service/` unless they start with `src/`.

## 1. The system

| Part | State | Operations | Talks to |
|---|---|---|---|
| Paper order manager (`order/paper_manager.go`) | order book, positions by `symbol:product`, last prices, simulated time; one mutex | place, modify, cancel, exit, thresholds, price tick (fills and watchdog), clear | called by the enrichment stage, HTTP handlers, risk manager; writes rows through the DB writer, broadcasts through the hub with its mutex held, calls the risk manager back in a goroutine |
| Live order manager (`order/live_manager.go`) | the same in RAM, as a copy of the broker's | HTTP calls to the broker, order updates of the ticker, background syncs, watchdog, restart from rows | broker, ticker, DB writer, hub, risk manager |
| WebSocket hub (`ws/`) | clients, subscriptions, one buffered channel per client | register, unregister, subscribe, broadcast, stop; read and write pumps | everything that broadcasts |
| Stream manager (`stream/manager.go`) | context, channels, wait group | start, dispatch, process, stop, done | source, pipeline, handlers |
| Live tick source (`stream/live_source.go`) | ticker, connection flag, mutex | connect, tick and order callbacks, close | stream manager, live order manager |
| Backtest sources (`stream/db_backtest_source.go`, `file_...`) | prefetch buffers, speed | merge of depth into ticks, pacing, pause | database, stream manager |
| Pipeline (`app/pipeline.go`, `pipeline/`) | per token locks, last volumes, rolling windows | archive, enrich, profile, bars, agent | order manager, DB writer, risk manager |
| Volume profile, bar manager, scout (`pipeline/`) | buckets; working bars of five timeframes; alerts | tick, close of a bar, rehydration, asynchronous saves | hub, database, strategy engine |
| Strategy engine (`strategy/`) | per symbol and strategy state | evaluate on a clone, commit, ingest a closed bar | DB writer; called by risk and bar managers |
| Risk manager (`risk/`) | own copy of positions, charges, circuit breaker | tick, sync callback, orders from goroutines | order manager, strategy engine |
| DB writer (`writer/db_writer.go`) | three batches, flush timer | add, flush, close; synchronous upserts of orders and positions | database |
| Application (`app/app.go`, `app/web.go`) | current managers, backtest queue; one mutex | start and stop of backtests, multi-day runs, shutdown, restart state | all |
| Readers, pool, config, logger, records | none that changes | SQL, parsing | - |

What is hard here: every tick may fill orders and trigger exits in one critical section; the live
manager releases its mutex around each broker call, so answers, order updates and syncs come back in
any order; thresholds live only locally and must not outlive their position; rows are written by
hand next to RAM and a restart trusts them; the hub is called with mutexes held; start and stop of
streams race. `PROJECT.json` lists the hazards line by line. What makes each part correct:

* order managers - exposure is the sum of fills; thresholds never outlive or contradict a position; an
  exit flattens exactly; final orders stay final; rows follow RAM; the live book follows the broker;
* hub - channels are closed once, nobody waits for a client, connections are released;
* stream - order per instrument, nothing lost unless stopped, nothing processed after a stop;
* sources - every tick is sent with its own depth, the speed set is obeyed, a paused replay can be
  resumed and stopped;
* pipeline stages - no traded volume lost or counted twice, one bar per window, profiles that are what
  their definition says, also after a restart;
* risk and strategy - stops are honoured at every tick, limits hold over interleaved instruments, the
  agent's positions agree with the order manager's;
* DB writer - no row lost on its way to the table, none written twice, also at shutdown;
* application - one stream at a time, a stop ends the run it was meant for.

All parts of the table are modelled, most of them with parts left out, except the scout and the last
row; section 5 gives the reasons.

## 2. Modules

| Module | Models | Composes |
|---|---|---|
| `PositionRules` | rules 4.1-4.3 of `src/docs/order_manager.md` as an abstract specification of positions and thresholds; a constant says whether rule 4.2 is followed when a position is scaled | |
| `PaperManager` | `order/paper_manager.go` and the rows it persists | refines `PositionRules` with `ScalingKeeps` TRUE |
| `MCPaperManager` | its small instance | `PaperManager` |
| `PaperManagerProofs` | theorems about `PaperManager` | |
| `LiveManager` | `order/live_manager.go` in execution mode, the broker, the ticker, crash and restart (`app.go` `initLiveState`) | |
| `MCLiveManager` | its small instances | `LiveManager` |
| `LiveManagerProofs` | theorems about `LiveManager` | |
| `WsHub` | `ws/hub.go`, `ws/client.go`, `ws/server.go`, goroutines that broadcast | |
| `EdgeProofs` | theorems about the two edges of the service, `WsHub` and `Replay` | |
| `TickDelivery` | what the stream manager promises: ordered delivery per instrument, a completion, rest after `Stop` | |
| `StreamManager` | `stream/manager.go` and what it relies on of its sources | refines `TickDelivery` |
| `StreamManagerProofs` | theorems about `StreamManager` | |
| `RowLog` | what the writer promises: whole batches, once, nothing owed and nothing written after `Close` | |
| `DBWriter` | `writer/db_writer.go`: batches, timer, inserts, `Close` | refines `RowLog` |
| `DBWriterProofs` | theorems about `DBWriter` | |
| `BacktestLifecycle` | start, stop, status and multi-day run in `app/web.go` and `app/app.go` | stream managers, as `StreamManager` promises them |
| `BacktestLifecycleProofs` | theorems about `BacktestLifecycle` | |
| `Replay`, `MCReplay` | `stream/db_backtest_source.go` | |
| `Enrichment` | `pipeline/enrichment.go`: volume differences, announced prices | |
| `VolumeProfile` | `pipeline/volume_profile.go`: buckets, point of control, value area, rows; reference `IsValueArea` | |
| `BarManager` | `pipeline/bar_manager.go` and what `bar_analytics.go` keeps | |
| `TickPipeline`, `MCTickPipeline` | `app/pipeline.go` and restarts | `Enrichment`, `VolumeProfile`, `BarManager`; the exchange and the tables around them |
| `TickPipelineProofs` | theorems about `TickPipeline` and its parts | |
| `StrategyEngine` | `strategy/strategy.go`, `router.go`, `helpers.go`, the rules of the registered strategy | |
| `RiskManager`, `MCRiskManager` | `risk/` and an order manager as the agent relies on it | `StrategyEngine` |
| `RiskManagerProofs` | theorems about `RiskManager` | |

A definition called a mutant in its comment is no part of a specification: it is the definition
after it with a plausible mistake, kept to show that a property notices the mistake.

### PaperManager

Every exported method of the Go type holds `mu` from its first line to its last, so each is one
action; its errors and early returns are guards. `OnPriceUpdate` runs long under that lock: it is
`TickArrives`, one `FillLimit` per limit order the tick crosses, in book order, then `ScanMIS` and
`ScanCNC`. The variable `scan` is the lock held by it. `pos` and `held` are `activePositions`, `book`
the order book, `ledger` and `snap` the tables `gidh_orders` and `gidh_positions` with the upserts of
`writer/db_writer.go`, and `told` what the position callback was last given. `AfterFill` is
`updatePositionState` without average price and P&L. `PositionRules` has a constant `ScalingKeeps`: FALSE is
chapter 4 of the document, TRUE the document less half a sentence of rule 4.2, namely that the thresholds of
a position default to 0 when a fill scales it. The code keeps them (`order/paper_manager.go:380-389`), so the
paper manager implements the variant TRUE only; TLC refutes the other one with two placements and an
assignment of thresholds between them. `ClearPositions` begins a new session, whose
rows are keyed by another date. `ReconstituteState` and `SeedLastPrices` have no caller that reaches
a paper manager.

### LiveManager

`mu` is not held during a broker call, so `PlaceOrder` and `CancelOrder` are two actions, before and
after the answer (`replies`); `ExitPosition` and the watchdog leave a request in `calls` that a later
`SendCall` or `CallFails` takes out. A `SyncExchangeState` goroutine is a slot of `sync` that goes
through its four critical sections: fetch orders, apply them, fetch positions, apply them; slots
overlap freely, and each fetch sees the broker at its own moment. An accepted cancel is a flag on the broker's
order (`cancel`): the exchange may cancel the rest (`BrokerCancel`) or fill it, before or after the answer is
handled, and `OrderCancelled` overwrites the entry whatever it says by then. A request carries the tick's
price that set it off (`trigger`), which no step reads. The broker is the environment:
`broker` and `net` are its order records and net positions, `wire` the order updates on their way,
which arrive in order, may be lost with the connection, and are lost in a crash. `Crash` drops RAM,
`Restart` reads `snap` and syncs as `initLiveState` does. An order update that reports an execution
starts a sync.

### WsHub

Run's unbuffered channels are rendezvous: a sender waits in `reader` ("register", "subscribe",
"unsubscribe", "unregister") or in `call` until the hub's step takes it. A send buffer is a count.
`RemoveSlow` is a step per client because the loop over slow clients takes and gives back the lock,
which lets `Stop` in between. A send on, or a second close of, a closed channel sets `panic`.

### StreamManager

`kind` says which source it is, and with it what `Connect` may come to and what a full channel does: a
replay waits for room (`Emit`), the ticker's callback drops the tick (`OnTick`). The live source's
callbacks may also give up and close it with its mutex held (`GiveUp`, `locked`), or send once more after
the channel was closed (`LateTick`). Channels are sequences with room for `Cap` ticks, a worker holds the
tick it is processing from `Take` to `Finish`, and a `select` with several ready cases takes any.
`Stop` may happen at any time, also before or in the middle of `Start`, since `web.go` starts streams
in a goroutine of their own; the live application stops only after its start has returned.

`TickDelivery` says the same without channels, workers and sources: the ticks `sent`, being processed
(`busy`, refined by the workers' hands) and `processed`, and three flags, for a call of `Stop` (`cut`), a
closed `done` and a returned `Stop` (`quiet`). Processing a tick begins when all earlier ones of its
instrument have been processed, and never after `done` or `quiet`, which find nobody busy. Ticks in
channels are seen there as sent only.

### DBWriter

A row is the number of its `Add`; `batch` is what waits in memory, `inserting` the batches in the
hands of goroutines, `written` counts copies of a row in its table and `dropped` the rows of inserts
that failed or were skipped. Swapping a full batch, the timer's swap of all batches and the copy that
`Close` makes are each one critical section of the code and one action. `CopyFrom` stores all rows or
none; the key of `gidh_bars` refuses a batch that holds a stored bar, ticks and depth have no key.
`Close` follows the end of the stream as in `App.Stop`, so no row is added after it.

`RowLog` is the writer as seen from its tables: groups of rows are stored or lost, a row once, a closed log
owes nothing and moves no more, which matters because `App.Stop` closes the database pool next. What
`Close` finds in the batches and leaves there is `again`, refined by `copy`: only those rows may be
handled twice.

### BacktestLifecycle

`lock` is `managerMu` and says whose critical section it is, `current` the field `a.StreamManager`,
`manager` the state of every manager made so far. A handler takes the lock and cancels what runs in
one action, waits for it under the lock, and then makes the new manager or fails. `LaunchReads` is the
goroutine of `/start`, which reads the field without the lock; a run of several days is a goroutine
`run[r]` with one action per critical section. A panic in a goroutine ends the process (`crashed`); the
one in the status handler is recovered by the HTTP server and leaves the mutex locked (`stuck`).
`mixed` remembers that a start met a run, or two runs met, since the code does not exclude it and
what it guarantees then is less.

### Replay

Two prefetchers fill buffers with the day's ticks and order book rows; `ReadTicks` joins each tick with
the rows due by then (`JoinRow`), sends it and turns the pace loop (`ReadSpeed`, `Pause`, `Pace`,
`TimerFires`, `Wake`), which counts from anchors set when the speed changes. `SetSpeedFactor` stores the
speed and then signals: two steps, with a signal dropped when one waits. `errPrefetch` is read without
synchronisation, so `NextTick` may miss an error unless a closed buffer has told of it. Real time passes
by `Elapse`; `rushed` and `held` are observations and say that ticks went by unpaced, and how long a pause
lasted, since the anchors were set. A change to another speed moves the anchors to the tick that is waiting,
which then goes out at once: the rest of its wait is dropped rather than worked out anew, and the model does
the same.
A book is the sequence of its rows' numbers, whichever their side.

### TickPipeline

A tick runs under the lock of its token through all stages, so it is one step. `Enrichment` turns the
exchange's cumulative volume into the volume since the last tick and tells the order manager of a changed
price; `VolumeProfile` and `BarManager` use that volume. Beside the stages go the goroutines that save
profiles (`saves`, which arrive in any order or fail) and the bar rows on their way to their table
(`queue`; a batch with a stored key is refused whole). `Restart` is a crash in a live session: memory is
read back from the two tables as `LoadExistingProfiles` and `WarmupEngineState` do. `market` is the
exchange, which trades on while ticks are dropped. `base`, `heard`, `lost`, `carried`, `orphaned` and `warmed`
are observations that no step reads: what the exchange had traded before the first tick the stages ever
got (set once), the cumulative volume this process heard last, what the stages have let go of since `base`,
what the loaded profile held, how much of that came without buckets, and how many bars were read back. Any
set of instruments may have DNA. The exchange's counter never falls here, so the branch of the enrichment for
a cumulative volume below the last one is translated but not met.

### RiskManager and StrategyEngine

`ProcessSequentialTick` has two critical sections with the strategy's result in between (`Look`,
`Handle`, `hand`); ticks of other instruments come in there. `UpdateContext` works on a clone of the
engine's state, which is kept only if the risk manager commits it; the profit's high-water mark is
written to the real state. Orders are in the hands of goroutines (`orders`) and the order manager's
callback too (`notices`), so both arrive in any order. `agentPositions` has two keys per instrument: `pos`
is the one ticks use and `synced` the one the callback writes. Charges are counted in legs, since their
brokerage is capped and the capital per stock fixed. When to enter is a choice, as it is the strategy's
(the registered one never does); when to leave is not. `best` is an observation, the best profit a stop
has been shown since the entry or the last closed bar. `UpdateContext` is modelled without the block that
resets a state in an active trade whose position has become flat (`strategy.go:115-121`): the position it
looks at becomes flat by the agent's own exits only, which commit their state in the same critical section,
since the callback writes under another key (`risk/helpers.go:43`).

## 3. Runs

Each property's mutants are in `PROJECT.json`.

| Run | Question | Bounds, and why they are enough |
|---|---|---|
| `paper` | Do positions, book, thresholds, rows and the listener stay consistent, are the position rules implemented, does each tick end settled? | one symbol (symbols share only the lock), both products, quantities 1 and 2, prices 1 and 2, two orders of callers, two tick times: a partial close, an exact close, a reversal, two fills and a liquidation by one tick all occur; brackets include the wrong way round |
| `live` | Does the book follow the broker, does an undisturbed sync reconcile, is a completion shown, do rows and RAM agree, who moves thresholds, what does the watchdog send? | one position, two broker orders, two syncs at a time, one fault; quantity 1, so that an order is open, cancelled or filled: cancels meet fills, updates and both syncs |
| `live_reversal` (violation) | Does a reversal disarm the position, as rule 4.3 says? | two orders of quantity 2, filled in parts, one sync at a time, no faults |
| `live_stale` (violation) | Do RAM positions end equal to the broker's once everything is quiet? | two overlapping syncs, no faults |
| `hub` | Channels closed once, connections released, callers and pumps let go? | two clients, one topic, buffer 1, one caller: slow and fast clients side by side, every order of disconnect, slow removal and Stop |
| `stream` | For both kinds of source: is this the ordered, complete and at last quiet delivery of `TickDelivery`, does the pool never wait on itself, do all goroutines end? | three tokens on two workers (two share one), three ticks, channels of one: every channel fills, and ticks of one token wait in different places |
| `writer` | Is the writer the log of `RowLog`, with every row accounted for, whole and stored once, is everything flushed, does Close return? | ticks (no key) and bars (key), three rows of each, batches of two: full and partial batches, both flushed by the timer, by `Close` and by both |
| `lifecycle` | Is what streams the manager that a stop would find, and is the mutex released? | three requests of any kind, runs of one or two days: start against start, stop against start, a run against a stop or a second run |
| `lifecycle_stop` (violation) | Does a stop end every stream before positions are cleared? | as `lifecycle` |
| `pipeline` | Is volume conserved, are profiles and bars exact, does the order manager see prices, over drops and a restart? | one instrument (each has its own lock and state), four ticks at 09:14, 09:15, 09:22 or 09:26, three prices, 0 or 2 traded between ticks, timeframes of 1 and 10 minutes (aligned to midnight and not), a save at every second trade, one restart, ticks before the first trade of the day among them: profiles with one to three buckets, saves overtaking each other, bars closed, refused and closed again |
| `replay` | Is the day sent as recorded, is the speed obeyed, does it end? | two instruments, days of three ticks with three book rows (two of one moment) and with none, buffers of one, speeds 0, 1, 2 and -99, two changes (a pause that ends at the speed it began with is two), one prefetcher that fails or is cut off, three units of real time: both prefetchers wait for room, pauses and waits are interrupted |
| `agent` | Are stops honoured, do the books agree, do the limits hold? | two interchangeable instruments, one concurrent trade, five ticks at prices around the tiers of the profit lock and times around the trading hours and the cooldown, one closed bar, one refused order or manual exit, a cap of three legs, at most two orders and callbacks under way (`UnderWay`) |

Deadlock is checked where the system cannot stop by itself. `CHECK_DEADLOCK FALSE` is in the runs whose
system may stop: a panic or a stopped hub (`hub`), a completed stream (`stream`), a closed writer
(`writer`), the last of the bounded requests, ticks or restarts (`lifecycle`, `lifecycle_stop`,
`pipeline`, `agent`), a replay that has returned (`replay`).

With quantity 1 no order of `live` is filled in parts and no position reverses; those happen in
`live_reversal` and `live_stale`, and for the safety properties of `live` the theorems cover every quantity and
every number of orders and syncs.

In `agent` the concurrent trades are 1, where the code has 10, so that the limit is reached; the trades
allowed per stock are 2, where the code has 1, so that an instrument is entered, left and entered again after
its cooldown, which takes the three legs of the cap and three ticks. The two ticks left, one of each
instrument, are those by which the cap may be overshot; a cap that lets one more leg through, a missing
cooldown or one trade too many each break `LimitsHold` in this instance. `UnderWay` cuts behaviours in which
more than two orders and callbacks are in the hands of goroutines at once: any two may still overtake each
other. `Horizon` in `replay` is as long as the longest wait that the recorded times and speeds can ask for.

### What the violations show

* `live_reversal`: a sync that finds a position reversed writes its quantity and side and leaves its thresholds
  alone (`live_manager.go:759`), though `src/docs/order_manager.md:91` says they are invalidated: the next
  tick may liquidate the new position by the stop of the old one. `ThresholdsChange` of the run `live` allows the
  promised clearing as well.
* `live_stale`: of two overlapping syncs the older answer may be applied last (`live_manager.go:631`)
  and nothing corrects it.
* `lifecycle_stop`: the reset after a day of a multi-day run sets `a.StreamManager` to nil whichever
  manager it holds (`app.go:488`). A day that `/start` began meanwhile streams on, unseen by a later
  stop, which clears positions under it; the comment in `web.go:200` promises the opposite.

Two outcomes in `lifecycle` are part of the model rather than findings, as no document speaks of
them: two starts in quick succession may start one manager twice or dereference nil
(`web.go:144`), and two runs may leave `CurrentQueueIndex` beyond the queue, on which the status
handler panics with the mutex locked (`web.go:51`). `OneStream` and `MutexReleased` say what holds
apart from these.

### Exceptions the passing properties name

Where the code does less than a reader would expect, the property says exactly how much less, so that a
further deviation is still noticed.

| Property | Exception |
|---|---|
| `PersistedStateCurrent` | an automatic exit takes its order id from the tick's time (`paper_manager.go:336`), so two exits on one tick share a row, though `src/docs/order_manager.md:34` promises the absolute history of orders |
| `RulesSpec` | a fill that scales a position keeps its thresholds (`paper_manager.go:380-389`), though rule 4.2 (`src/docs/order_manager.md:85`) has them default to 0 when an entry order "opens or scales a position" |
| `BookFollowsBroker`, `CompletionShown` | the answer to an accepted cancel sets CANCELLED whatever the entry says (`live_manager.go:286`), also COMPLETE when a fill beat the cancel (`CancelAnswered`); the executions stay counted, and only a later report of the order mends the status |
| `RowsCurrent` | the watchdog clears thresholds in RAM only (`live_manager.go:379-380`), so they stay in the row until the next write of it (`Disarmed`) |
| `VolumeConserved` | volume is lost in three ways: the part of a profile not saved before a restart; what is traded in the gap before the first tick after a restart, of which only the last trade is counted, which the loaded profile may hold already (`enrichment.go:96`); and likewise the gap between ticks with cumulative volume 0 and the first with more. `lost` counts exactly these (`Restart`, `Uncounted`) |
| `HubServes` | `Run` has no case for `unsubscribe` (`ws/hub.go:57`), so a reader that sends one hangs for ever (`ws/client.go:64`); so does one that echoes a ping into a full buffer nobody drains |
| `StreamEnds` | a live source that gives up calls `Close` with the mutex held that `Close` needs (`live_source.go:265`): `Stop` then hangs, and what follows it, the last flush of the writer, is never reached |
| `LogSpec` of `DBWriter` | `again` of `RowLog`: `Close` does not empty the batches it copies, so a last firing of the timer stores ticks a second time (`db_writer.go:360`) |
| `StopsHonoured` | the best profit is forgotten at every closed bar (`strategy/helpers.go:73`), since the state committed with an entry still says FLAT; after 15:00 and before 15:15 no stop is looked at (`strategy/router.go:55`); the circuit breaker liquidates only the instrument that tripped it (`risk/risk_manager.go:72`) |
| `BooksAgree` | a refused order and a manual exit never reach the agent's own position (`risk/helpers.go:43`) |
| `LimitsHold` | concurrent trades are counted over both keys of an instrument (`risk/risk_manager.go:112`), so fewer than the limit may be allowed; the daily cap is one of charges alone, because `dailyRealized` is never assigned, though the comment at `risk_manager.go:70` speaks of net PnL: no losing trade ever breaks the circuit |
| `SentAsRecorded` | `rows.Err` is never asked (`db_backtest_source.go:138`): a lost connection shortens the day without an error |
| `SpeedObeyed` | the anchors move only when the speed differs from the one they were set for (`db_backtest_source.go:277`), although the comments there (`261`, `276`) speak of waits recalculated and anchors reset. After a pause that ends at the speed it began with, the pause counts as time played, and ticks go out unpaced until it is caught up (`held`). A stretch at -99 that begins and ends between two looks at the speed leaves them too: the wait after it is as long as all that was skipped (`rushed`). Durations are whole nanoseconds: what a wait loses by rounding down, up to one unit, the next one makes up for |
| `ReplayEnds` | after ticks that failed or were cut off the depth prefetcher may wait for room that nobody makes (`db_backtest_source.go:313`) |
| `BarsOnce` | 10m bars open at windows counted from 09:15 and close by windows counted from midnight UTC (`bar_manager.go:166`, `288`), so the first may overlap the second; the last bar of a warm-up is closed again by the next tick, and its row makes the database refuse a batch (`bar_manager.go:413`) |
| `ProfileExact` | a profile saved with fewer than three buckets comes back without them (`volume_profile.go:149`) |
| `OrdersSeePrice` | the first tick of an instrument without DNA is not announced (`enrichment.go:82`, `108`) |

### Fairness

* `PaperManager`, `TickPipeline`, `RiskManager`: none, their properties are about what steps do. That
  `OnPriceUpdate` ends is visible from `TickSettles` and the absence of deadlock.
* `LiveManager`: a sync goroutine, and the delivery of an update on the wire, go on; the broker is not
  obliged to execute anything, and faults are bounded.
* `WsHub`: pumps run, since reads and writes have deadlines. A sender on a channel of the hub is served
  if the hub could serve it again and again (strong fairness): Go's `select` chooses among ready
  cases at random and a channel serves its senders in turn.
* `StreamManager`: every goroutine that can go on does; the reader is only sure to end when cancelled,
  because a replay may be paused and a live stream has no end.
* `DBWriter`: the timer fires and sees its cancelled context, an insert ends within its timeout of 30
  seconds, `Close` goes on. Nobody has to add rows or to stop the application.
* `BacktestLifecycle`: a handler that holds the lock goes on, and a stream that was cancelled ends
  (`StreamEnds` of `StreamManager`); an uncancelled one may be paused. Nobody has to send requests.
* `Replay`: `ReadTicks` and the prefetchers go on where they can, a prefetcher closes its buffer at the
  end of its rows or when cancelled, a signal follows its store, real time passes. Nobody has to change
  the speed or to cancel.

## 4. Proofs

All theorems hold for every value of the constants under the named assumption of each module.

* `PaperManagerProofs`: `TypeCorrect`, `ThresholdsSafe`, `ImplementsRules`, `OrdersFinal`,
  `PersistedCorrect`, `LiquidationsExact`, `TicksSettle`, `FillsKept` (the run's `FillsAccounted`). Type
  correctness needs that a scan happens only after a tick has set the clock (`ScanTimed`), since the clock becomes an order id, and that the record
  of a fill is a position (lemmas on `AfterFill`). The refinement maps net quantities and thresholds to
  the rules' variables, with `ScalingKeeps` TRUE, so that it says nothing of rule 4.2 where that speaks of
  scaling; each action is a fill, a user's assignment, a reset or a stutter there.
  `OrdersFinal` rests on `AuditInv`: callers' order ids come from the counter (`IdsIssued`: no two orders
  of the book share one, none beyond the counter has a row), and the rows of such orders equal the book
  (`RowsCurrent`). Without the part on ids a new order could overwrite the row of an old one. The rest
  rests on `HeldInv`: positions outside `held` are flat and the snapshots of held ones are current.
  `FillsKept` is a sum over a book of any size. `Accounts` ties the exposure of each symbol to the total of
  its orders and says that a pending order has filled nothing; the lemmas on sums show that the fold over
  a finite set is the same in any order, so that a new or a filled order changes it by its own share.
* `LiveManagerProofs`: `TypeCorrect`, `RowsTrue` (the run's `RowsCurrent`), `ThresholdsKept`,
  `LiquidationsExact`, `SyncsReconcile`, `BookFollows`. The bound on the broker's orders counts the
  requests goroutines are about to send, which `SendCall` does not test. `SyncsReconcile` needs
  `Listings`: whatever a sync carries that is not flat was on the list it fetched. `BookFollows` rests on
  `BookInv`: the book, the updates on the wire, the order lists that syncs hold and the answers are all
  behind the broker (`Reports`), but for entries an accepted cancel has overwritten, and before the first fault
  the last update under way about a completed order announces the completion, or the book has its executions
  and no older update can follow (`Completions`).
  The loop over a list of orders (`Cache`) is unrolled by the first entry that goes wrong.
* `EdgeProofs` about `Replay`: `TypeCorrect`, `SentWhole` (the run's `SentAsRecorded`), `WaitsBounded`
  (`SpeedObeyed`). `Reached` says what the place of `ReadTicks` implies for what was received and sent, when a
  buffer may be closed, and that a wait has an anchor. `SentWhole` needs two more: `Books`, that the book
  of every instrument is the newest among the rows joined so far, and `Sendings`, that each tick sent
  had the newest book of a prefix of the rows after which nothing that belongs to it comes: a newer row
  stood next, or the buffer had been closed at its end. Every step keeps that (`RightStays`), the error included, which the closed buffer shows
  before the next tick. `SpeedObeyed` speaks of the tick before the one that waits, so it needs `Paced`:
  whenever a tick is awaited or worked on, the time since the anchors was enough for the one before
  it, but for what `held` and `rushed` excuse; what a division leaves over (`Quotient`) is the unit a wait may
  be longer.
* `EdgeProofs` about `WsHub`, whose names carry a prefix so that one module can extend both: `HubTypes`, `NoDoubleClose`, `ReadersRelease`, and from these two `ReleasedOnce`, which
  is the run's `ClientsReleased`. `ClosedOnce` alone is not inductive: `Register` could meet a closed
  channel. `Standing` says where a connection stands - neither registered nor closed before its
  registration, one of both afterwards - and `Asking` that a waiting subscriber names a topic.
* `StreamManagerProofs`: `TypeCorrect`, `LifecycleKept`, `OrderedKept`, `PoolKept` (the run's
  `PoolGoesOn`), `DoneMeansAll`, the safety half of `StreamEnds`, `ImplementsDelivery` (`DeliverySpec`), and two
  properties that no run states since `DeliverySpec` covers them: `QuietKept` (`QuietAfterStop`) and
  `TokenOrderKept` (`TokenOrder`). The
  lifecycle is four invariants: `Phases` relates the progress of `Start` and `Stop` to reader,
  dispatcher and workers, `Closings` says that a channel is closed only by an owner that has finished,
  `Silence` that no tick is anywhere before the source reads, and `Stops` that a `Stop` that returned came
  after the pool was empty or, in a backtest, before anything was read. `Ordered` lays the ticks out: what the dispatcher has handed over is a prefix of what was
  sent (`Frontier`), and each worker's share of it is, in order, what it has processed, holds and has
  waiting. `TokenOrder` alone says nothing about ticks under way, so it is not inductive. `Ordered` also carries
  the refinement: the tick a worker takes is the next of its instrument (`DeliveredFirst`), no two
  workers hold the same one, and `Stops` excludes that one is taken after `done` or after `Stop`. `PoolKept` is what of the
  termination in `StreamEnds` can be said of a state: whoever waits, somebody can go on.
* `DBWriterProofs`: `TypeCorrect`, `NothingLost`, `RepeatsBounded`, from these two `StoredOnce` (`RowsOnce`,
  which no run states since `LogSpec` covers it), and `ImplementsLog` (the run's `LogSpec`). That a row is inserted once is not inductive without knowing where rows are:
  `Stages` relates Close's progress to the timer and the stream, `Numbered` says that rows beyond the
  counter are nowhere, `Apart` that a row waits in one place only (the batch or one goroutine), `Once`
  bounds its copies in the table by where it still waits, `Kept` says that what does not wait is
  settled, and `Copied` that what is left in the batches while `Close` inserts is in its copy, and what
  it is done with is settled. The refinement needs one more (`Untouched`): what waits and was not copied by
  `Close` is neither stored nor lost yet.
* `BacktestLifecycleProofs`: `TypeCorrect`, `SingleKept`, `OneStreamKept` (the run's `OneStream`). The number
  of managers is bounded by nothing that makes one: `Budget` pays for each with a pair of a request and
  a day, of which there are enough. `OneStream` alone is not inductive, since what is about to be started
  counts as well: `Halted` says that who holds the lock to replace a stream has cancelled it, `Alone` that
  a run under way is alone until a start and a run or two runs meet, and `Aimed` that what is about to
  be started is in the field or was cancelled, and that between two days nothing streams.
* `RiskManagerProofs`: `TypeCorrect`, `AgentSound`, `StopsKept` (the run's `StopsHonoured`), `LimitsKept`
  (`LimitsHold`), `BooksKept` (`BooksAgree`). Between `Look` and `Handle` other instruments' ticks, orders
  and callbacks come in: `AgentSound` says per instrument that the result still fits the position
  (`ResultFits`), that engine and risk manager know of the same last exit (`ExitKnown`), and that the
  engine's high-water mark is the best profit a tick has shown (`MarkTrue`). The daily cap may be overshot
  by the ticks under way; `Overshoot` counts those, and the proof bounds it by the instruments that have none. `BooksKept` needs an account per instrument: a
  function from legs to quantities that begins with what the order manager holds, ends with what the
  agent believes, and moves exactly at the legs whose order is still on its way.

* `TickPipelineProofs`: `TypeCorrect`, `PricesSeen` (the run's `OrdersSeePrice`), `VolumeKept`
  (`VolumeConserved`), `BarsKept` (`BarsOnce`), `ProfileKept` (`ProfileExact`). Volume needs two invariants:
  profile, losses and what the exchange had traded by the last tick heard balance (`Counting`), and the bars of a timeframe add up,
  each beginning with what the one before has left (`Chained`, `Fill`). Bars need what a
  manager remembers of the last one (`Remembers`), that the rows on their way fit the table
  (`RowsFit`), and when the table refuses a batch (`Refused`). `ProfileKept` includes that the loop of the
  value area ends and what it returns: the buckets left outside (`Room`) get fewer with each round,
  and a window that could be narrower or was widened to the wrong side (`Good`) never comes about. It
  assumes that no price is below the bucket size, because the code takes a point of control of
  0 for none (`volume_profile.go:93`).

Recursive functions and folds over data of any length are handled with well-foundedness of < on the
natural numbers: if a claim about all lengths failed, it would fail at a least one. The induction theorems
of the library, which take an operator, cannot be used with this prover.

Only model-checked: the liveness properties (`CompletionShown`, `HubServes`, `StreamEnds`, `WriterEnds`, `MutexReleased`, `ReplayEnds`).
Liveness under fairness and `ENABLED` are beyond the prover used.

## 5. Not modelled

* Average price, P&L of orders, charges, tick sizes: arithmetic without influence on control flow.
* In `LiveManager`: the dry-run branch, in which placements are simulated while exits and
  liquidations are still sent to the broker; `ModifyOrder`, which changes only a price; failing
  database writes, which are logged and otherwise ignored.
* In `WsHub`: payloads and keepalive timing, represented by a connection that may break at any time.
* In `StreamManager`: the contents of a tick, the connection flag that only the log and the status
  show, the ticker's own reconnections.
* In `Replay`: the sides and prices of a book. The file source, which the application never constructs.
* In the pipeline: ranks, direction and the rolling buffer, which decorate a tick; a profile's extrema
  and a bar's indicators, which are for display or for strategies that do not exist yet; three of the
  four anchored VWAPs, which work as the one modelled. The scout, an alert that is switched on or off
  at the close of a bar in one critical section.
* In `RiskManager` and `StrategyEngine`: the strategy's choice of an entry, its bar history and ADR bounds,
  the rows of its transactions.
* In `DBWriter`: `PersistStrategyTransaction`, one insert from a goroutine nobody waits for.
* In `BacktestLifecycle`: the startup sequence, the speed handler, the read of the field in `App.Stop`
  without the lock, and the handlers that decode a request and call an operation modelled elsewhere.
* Readers, database pool, records, configuration and logging: SQL, parsing, nothing that changes.

Three hazards in `PROJECT.json` have no property: no document or comment promises a retry of a failed
liquidation, or the absence of a panic after a late tick or a late subscription. The models contain all
three (`CallFails`, `LateTick`, the `"send"` panic of `WsHub`).

## 6. Plan

Theorems: every invariant, action property and refinement of a run is stated by one; what a later step
could add is the safety half of `WriterEnds`, `HubServes` and `ReplayEnds` (who waits, somebody can go on),
as `PoolKept` does for the stream.

Models: the dry-run branch of the live manager.
