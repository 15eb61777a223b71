# TLA+ models of CryptoAITrader

CryptoAITrader is a desktop application that analyses crypto markets, scores
signals and trades them automatically, on paper or through an order gateway of
an exchange.  This directory models its trading core (the automatic trading
engine, the trade table it writes, the live orders it sends, and the commands the
user gives it while it runs) and the concurrent parts around it: ticks, streams,
candles, the trade monitor, the runner of background work, the verdicts on the
connection, the switch of the exchange, the tracking of signals and the chat.  TLC
checks the models on small instances; TLAPS proves the safety properties, of the engine
and of the parts, for every instance.

Contents: 1 the system, 2 the modules and how they correspond to the code,
3 the properties, 4 the runs and their bounds, 5 fairness, 6 disagreements between
code and documents and other observations, 7 the proofs, 8 what is not modelled, 9 the plan.


## 1. The system

Two threads matter.  The **user interface thread** (Qt) runs the controller and its
timers.  The **network thread** runs one asyncio loop, in which every coroutine of
the engine, the feeds and the exchange clients runs; the code between two awaits
is atomic with respect to the other coroutines.  The interface hands coroutines to
the loop with `AsyncRunner.submit`.  The database is SQLite, used from both threads.

| Component | State | Operations | Talks to |
|---|---|---|---|
| Automatic engine, `trading/auto_trader.py` | `_running`, `_task`, `_scan_task`, `_open`, `_closing`, `_entry_lock`, `_daily_cache`, `_tick_check_pending` | `open_trade`, `close_trade`, `check_open_trades`, `check_symbol`, `_scan_for_entries`, `start`, `stop`, `close_all`, `emergency_exit_all`, `apply_config` | table, gateway, tick engine, candidate source, controller |
| Trade table, `trade_repository.py` | rows with id, symbol, status, result | `open_trade`, `close_trade`, `partial_close`, `cancel_trade`, `clear_history`, `daily_realised_pnl` | engine, controller, monitor |
| Order gateway, `trading/execution.py` | none; the executor is supplied from outside | `open_position`, `close_position` | the exchange |
| Controller commands, `ui/controllers/main_controller.py` | none of its own about trades | enter, record, close, emergency exit, clear, switch on/off, switch exchange | engine and table, through the async runner |
| Trade monitor and staged targets, `trade_monitor.py`, `staged_targets.py`, `paper_execution.py` | `_trade_monitor_busy`; reached targets per row | a timer round that closes, partly closes or moves the stop of the user's paper rows; the manual close | table, prices, engine |
| Tick engine, `trading/price_cache.py` | last quote per symbol, its book, clock samples and offset | `record`, `record_book`, `observe_exchange_clock`, `is_stale`, `book_fresh` | feeds, engine |
| Async runner, `async_runner.py` | running coroutine per key, handles | `submit`, `cancel`, `_wrap`, delivery of signals | everything |
| Connection supervisor, `market/resilience.py` | `_reviving`, shown state | watch, evaluate, revive | live feed |
| Redundant stream, `market/redundant_stream.py` | two connections, their last words, last tick and candle per symbol | subscribe, accept, watch for silence | tick engine, market engine |
| Live feed, `market/live_feed.py` | `_streamed`, `_explicit`, poll task and its flag | set the streamed symbols, poll | market engine, tick engine |
| Market engine, `market/engine.py` | cache, shared requests, live candles, failures, subscriptions | `get_candles`, `set_watchlist_subscriptions`, keepalive | exchange clients, cache, storage |
| Exchange switch, `application.py` and the controller | active exchange, its market engine, feed, supervisor | `apply_exchange_switch`, `switch_exchange` | all feeds, engine, table |
| Signal outcome tracker, `outcome_tracker.py`, `outcome_repository.py` | a record per signal: status, targets hit, last check | enter, backfill, a timer round that checks a batch against prices | market engine, table of signals |
| AI chat, `chat_agent.py`, `providers/manager.py`, `chat_page.py` and the controller | `_history`; `_conversation_id`; the waiting bubble | send, open, start, delete; rounds of a turn; fallback between providers | async runner, providers, tools |
| Exchange clients, rate limiter, caches | connections, buckets, answers | fetch, subscribe, reconnect | exchanges |
| Signals, indicators, prediction, scalp services | statistics on candles | score candidates | engine (as the candidate source) |
| AI providers and analysis agents, accounts, logging, backup, reports, interface, mobile app | own files and tables | | outside the trading core |

`PROJECT.json` lists every component with its source files and whether it is modelled.

### What makes each component correct

- **Engine.** One trade per symbol and no more trades than the capacity, although an
  entry is admitted before it awaits its price and its order.  One exit per trade at a
  time, although four callers may ask for it.  A trade leaves the engine only when its
  row is closed; a live row is closed only after the exchange accepted the order; a
  failed step leaves the trade managed.  The loss limit halts entries in the very step
  that reaches it.  A stopped engine has no scan left but goes on protecting its trades.
- **Table.** A row is closed once; the day's result is the sum over the rows closed that
  day; clearing it does not confuse what the engine still manages.
- **Gateway.** External.  What matters is what the engine makes of a refusal, a lost
  reply and a cancelled wait.
- **Controller and runner.** A second command of the same kind must not undo the first
  one half way.
- **Monitor.** What it decided on a snapshot must still be right when it writes; the
  quantities it closes add up to the quantity of the trade; it leaves alone what the
  engine manages and what is live; what is due is sold at last.
- **Ticks.** The price of a symbol never goes back in time; a stale price or book is
  recognised as stale whatever source delivered it and whatever the clocks say.
- **Streams.** What the program wants is what every connection delivers, after every
  loss and revival.
- **Candles.** Answers never go back, and a live candle continues the series it is
  merged into.
- **Runner.** Older work never overwrites newer work of its key; every end is told.
- **Verdicts on the connection.** They follow it, both ways; a dead loop is revived.
- **Exchange switch.** Afterwards the feed and the automatic trader belong to the active
  exchange, also when the switch failed, was replaced or cancelled; it ends.
- **Outcomes.** A result is one of the signal's own life, the worse one where the data
  cannot tell; no signal waits for ever.
- **Chat.** An answer knows its own conversation and no other; text on the page is of one
  attempt.

### What is hard

Hazards are listed in `PROJECT.json` at the line where they bite.  The recurring ones: a
check and the act it justifies lie on two sides of an await (`open_trade`, the monitor);
several callers for one exit; a task reference that is read, awaited and then
overwritten (`stop`); orders whose reply is lost or whose waiter is cancelled; state in
memory (`_open`) that a restart loses while the table keeps it; row ids that SQLite
hands out again after the table was cleared; a cached figure (`_daily_cache`) that
guards money; a coroutine replaced by a second `submit` with the same key; two sources
of the same data that overtake each other; clocks that differ; an interface that the
user goes on using while an answer to an earlier question is on its way.


## 2. Modules

| Module | What it is |
|---|---|
| `AutoTrader.tla` | the engine with the table, the gateway and the commands; all properties of the engine |
| `TradeLedger.tla` | what the engine promises about its trades, as a machine of its own |
| `MCAutoTrader.tla` | definitions the configurations use: value sets and symmetry |
| `TickEngine.tla` | the quote of one symbol under late, repeated and reordered ticks and two clocks |
| `Streams.tla` | which symbols the two connections deliver: feed, market engine, redundant stream, clients |
| `MarketData.tla` | the candles of one symbol: cache, shared request, stored answer, live candles |
| `TradeMonitor.tla` | the monitor's rounds, staged exits and manual closes beside the engine |
| `StagedTrades.tla` | what the trade table promises of every trade, as a machine of its own |
| `AsyncRunner.tla` | submissions under keys, cancellation, signals |
| `Connectivity.tla` | three judges of the connection, the poll loop and its revival |
| `ExchangeSwitch.tla` | switches of the exchange that fail, replace and cancel one another, beside the commands and scans of the trader |
| `Outcomes.tla` | the rounds that check signals against prices |
| `Chat.tla` | conversations, turns of the assistant and what comes back to the page |
| `PartsSafety.tla`, `PartsProgress.tla` | the parts above for TLC: one run of their safety, one of their liveness properties |
| `*.cfg` | one configuration per run |
| `TradeLedgerProofs.tla` | the promises of the ledger, proved |
| `AutoTraderProofs.tla` | type correctness, the refinement of the ledger, and what follows from it |
| `AutoTraderExitProofs.tla` | single-flight exits, proved |
| `AutoTraderTableProofs.tla` | the table and the managed trades: agreement, protection, the order before the close, one row per symbol, no second close order |
| `AutoTraderLimitProofs.tla` | the loss limit and the stopped engine |
| `PartsFeedProofs.tla` | quotes, subscriptions, candles, and the types of these and of the connection |
| `PartsTradeProofs.tla` | the exchange switch, the trade monitor, the results of signals, their types, and the refinement of the staged trades; extends the module before |
| `PartsWorkProofs.tla` | the runner's submissions, the conversations of the assistant, and the types of all parts together; extends both |

### `AutoTrader`: state

| Variable | In the code |
|---|---|
| `running`, `loop`, `round` | `_running`; `_task`: absent, asleep, or in a round of `check_open_trades`; the trades that round has left |
| `scanTask`, `stopping`, `cancelled` | `_scan_task`; the calls of `stop()` that await a scan, by caller; scans with a `CancelledError` to come |
| `at`, `target`, `left` | where an entry coroutine is suspended, the symbol it works on, the candidates its scan has left |
| `entryLock` | `_entry_lock` (an entry that finds it held stays at `"lock"`) |
| `open`, `closing`, `exit` | `_open`; `_closing`; the suspended `_close_trade_once` coroutines, by caller and row id, each with the trade it holds |
| `row`, `realised`, `dailyCache` | the table; the result of the day's closed rows; `_daily_cache` |
| `cap`, `fresh`, `pending` | `config.max_concurrent`; symbols whose quote is not stale; `_tick_check_pending` |
| `closeOrders`, `stray`, `faults` | history: close orders the exchange accepted per trade, positions nobody tracks, failures so far |

### `AutoTrader`: actions

An action is the code from one suspension point to the next, with every call on the way.

| Actions | Code |
|---|---|
| `ManualEntry`, `Refreshed`, `Reject`, `Admit`, `Priced`, `Ordered`, `OrderFails` | `open_trade` and `_open_trade_locked`: the refresh of a stale quote before the lock, the guards under it, the price, the order, the row and the registration (`Record`, `RecordFails`) |
| `Candidates`, `Pick`, `ScanCancelled`, `CancelSwallowed` | `_scan_for_entries` and `_run_scan`, and how a cancellation reaches them |
| `Start`, `Stop`, `StopReturns` | `start`, `stop`; `BeginStop` is the synchronous part of `stop`, which a close at the loss limit also runs |
| `UserCloses`, `PanicCloses`, `PanicAgain`, `TickCloses`, `RoundCloses`, then `ExitPriced`, `ExitGivesUp`, `CloseOrdered`, `CloseOrderFails` | `close_trade` and `_close_trade_once`, by caller; `Commit` is everything from the known price (and accepted order) on: close the row, drop the cached figure, leave `_open`, look at the limit, stop |
| `Tick`, `GoStale`, `TickChecked` | `_on_tick`, `_schedule_tick_check`, `check_symbol`, `TickEngine.is_stale` |
| `BeginRound`, `RoundPasses`, `RoundRefreshes`, `EndRound`, `EndLoop` | `_loop` and `check_open_trades` |
| `ApplyConfig`, `CacheExpires`, `NewDay` | `apply_config`; the one-second life of the cached figure; midnight UTC in `daily_realised_pnl` |
| `UserRecords`, `RowCloses`, `ClearHistory` | `record_paper_trade`; the monitor or the user closing a paper row the engine does not manage; `clear_history` |
| `Restart` | the process dies and starts again: the table and the exchange survive, the rest does not |

Where the code calls something synchronous (a quote that is fresh, a paper trade that
needs no order), the action runs on to the next real suspension: with a tick engine a
paper entry is admitted, recorded and registered in one step, as it is in the code.

What is abstracted: prices, sizes, fees, levels, candidate quality and the audit log.
A guard that depends only on these is a free choice (`Reject`, `RoundPasses`, the
`edgeLost` of `Commit`), a trade's result is a member of `Results`, and which of the
two execution modes `live_execution_allowed` answers is a free choice from `Modes`.

In every module a few definitions have a broken variant beside them (`NoLock` by
`LockFree`, `MayExitTwice` by `MayExit`, ...), introduced by the word "Variant".  The specification does not use them.  They say what
the code would do with a plausible bug, and with the variant in place of the definition
TLC finds the property named for it in `PROJECT.json` violated.

### `TradeLedger` and how the engine implements it

The ledger knows two things: `book`, the managed trades, and `claim`, the symbol that
was admitted and is not yet entered.  Its guards look at the book once, at the
admission; its promise is that they are still true at the entry.  The mapping is

    book  <- [i \in DOMAIN open |-> open[i].symbol]
    claim <- {target[e] : e \in Waiting}      Waiting: entries at "price" or "order"

`KeepsLedger` says that the engine under this mapping does only what the ledger does:
`Admit` maps to an admission, or to an entry when the code does not suspend; `Priced` and
`Ordered` to an entry, a withdrawal or a stutter; `Commit` to a settlement; a
cancellation or an exception to a withdrawal; a restart to forgetting.  Everything else
stutters.  The substance is the lock: without it two entries would be admitted
beside each other, and the mapped claim would hold two symbols.

### `StagedTrades` and how the table implements it

The trades of the monitor's table, without rounds, copies, prices and the engine: a trade
is entered, sold by one equal share per target in the order of the targets, and closed
with what is left; a live one is closed by the engine alone.  The mapping takes of each row
what it says of its trade (`TradeOf`: status, mode, targets, the next one, what is left
and sold, and who closed it) and forgets its stop and the number of its parts.

`KeepsTrades` says that under this mapping the steps that write a row do only what a
staged trade does.  `PartialClose` maps to `SellTarget`, every close, whoever asks for
it, to `Close`, `UserOpens` and `EngineWrites` to `Enter`, `ClearHistory` to `Clear`; what
finds the row closed writes nothing.  The substance is that a round sells the target, and
the share, that the row had before the await: the guards of `partial_close` see that the
row is open and has more than the share left, not that the target is still the next one.

### The parts around the engine

Each is a module of its own, with its own variables and its own `Next`; section 3 has
their properties.  "Step" below is the code between two awaits on the network thread,
or one event on the interface thread.

| Module | State and the code it stands for | Steps |
|---|---|---|
| `TickEngine` | `now`, `skew`: true time and how far the local clock is ahead; `samples`, `offset`: `observe_exchange_clock`; `quote`: `TickQuote` with its three times and its book | `record` from the web socket and from the REST poll with any delay, `record_book`, clock samples, the clock being set, `clear` |
| `Streams` | `held`, `streamed`, `explicit`: wishes of the feed; `watch`, `tickers`: what the market engine and the redundant stream believe; `subs`, `again`, `line`, `server`: the clients; `call`: the call under way, await by await | `_stream_symbols`, `set_streamed_symbols`, `set_watchlist_subscriptions`, subscribe and unsubscribe at each client, `_resubscribe_all`, watchdog |
| `MarketData` | `exchange`: version of the series; `calls`, `inflight`, `waits`: shared requests; `cache`, `stored`, `live`, `at`; `answer`: last answer per caller | `get_candles` with hit, join, request, time-out, failure and stored answer; live candle from either connection; expiry |
| `TradeMonitor` | `rows`; `managed`, `entering`: the engine; `round`, `seen`: a round and the rows it read; `manual`: closes under way; `price`, `fresh` | `_trade_monitor_tick` in its three stages, `evaluate` and `staged_exit` per row, `close_row`, the engine writing, registering and closing |
| `AsyncRunner` | `task`, `keyOf`, `cancelled`, `active`; `signals`: the event queue; `shown`: what each submission told | `submit`, `cancel`, `_wrap` begin and end, delivery |
| `Connectivity` | `rest`, `link`, `heard`: the world; `told`, `failures`, `restAlive`, `status`: stream and engine; `poll`, `polled`, `ticked`, `guard`, `state`: feed and supervisor | `_check_health`, `_handle_ws_status`, `_mark_rest_alive`, `keepalive`, `_poll_loop`, `_watch_loop`, `_revive`, a tick that is refused, `unsubscribe_all` (silence is no failure without subscriptions) |
| `ExchangeSwitch` | `market`, `feed`, `running`; `pc`, `target`, `holders`, `doomed`: the switches, the feed each has found and the cancellations on their way; `submitted`, `switching`; `engine`, `admits` (its `is_running`), `scanning`, `keys` (pending commands), `open`: the trader and the trades | `apply_exchange_switch` and `switch_exchange` await by await, errors before and after the market is replaced, replacement and cancellation by a newer switch, start, stop and scans of the trader, entries, trades of the user, closes with their halt |
| `Outcomes` | `path`: the prices of the last day; `outcome`: signals with their records; `waiting`: the order of `open_outcomes`; `batch`: the round under way | the price moves, `_track_outcome`, `_run_outcome_check`, `refresh_outcomes` with `_outcome_prices`, restart with `backfill` |
| `Chat` | `current`, `records`: `_conversation_id` and the table; `busy`, `pending`, `streamed`: the page; `memory`, `turns`: the assistant; `wire`: the event queue | `send_chat_message`, `open_conversation`, `start_new_conversation`, `delete_conversation`, delivery of pieces and outcomes; rounds, tools, fallback, failure and time-out of a turn |

What they abstract.  Time in `TickEngine` is counted in units, a price is known by the
time it was made.  A candle series is known by a version, of which the last candle is
closed when the version is odd.  Prices in `TradeMonitor` and `Outcomes` are levels (at
the stop, the entry, each target), for a long trade; a short one is its mirror image.
A message of the chat is known by its turn, a piece of text by the attempt it came from.
Variables that only properties use (history) are named as such: `raced`, `overtaken`,
`replaced`, `unheard`, `steps`, the `low`, `high`, `gap` and `blind` of a signal, the `home` and
`left` of a turn.

The parts share no variable.  `PartsSafety` and `PartsProgress` instantiate them, and a
variable `part`, chosen at the start, says which one runs; the others rest.  An
execution of a `Parts` module is one of a single part, and its states are the sum of
those of the parts and not the product: the runs show of each part what a run of its
own would show.  Where two parts meet in the code, each models what it sees of the
other: `TradeMonitor` and `ExchangeSwitch` the engine, `ExchangeSwitch` and `Chat` the
runner, `MarketData` and `Streams` the connections.


## 3. Properties

| Property | What would break it |
|---|---|
| `TypeOK` | a variable outside its type; a coroutine that works on a candidate without a symbol |
| `OneTradePerSymbol` | two entries that both passed the duplicate check before either registered |
| `OneAutoRowPerSymbol` | the same across a restart, which empties `_open` and not the table |
| `CapacityRespected` | an entry that counted before another one registered |
| `SingleExit` | two of tick, loop, user and emergency button closing one trade |
| `CloseOrdersExplained` | a second accepted close order that no lost reply and no failed write explains |
| `ClosedMeansOrdered` | a live row recorded as closed with the position still open |
| `RowsProtected` | an open row of the engine that the engine has forgotten |
| `BookMatchesTable` | a managed trade whose row is closed, missing, or another trade's |
| `StoppedMeansNoScan` | a scan that `stop()` could not reach, or that outlives it |
| `LossLimitHalts` | the limit is reached on a cached figure, and entries go on |
| `AdmissionWithinLimit` | an entry admitted on a figure better than the table's |
| `KeepsLedger` | any interleaving that enters a trade without a valid admission |
| `StopEnds`, `EntriesAnswered`, `TradesClose` | a stop, an entry or a trade that hangs for ever |
| `FreshMeansRecent` | an old quote or book that counts as fresh: a clock ahead of the exchange, a wrong offset, a book carried from tick to tick |
| `NeverGoesBack` | a late tick of the other source that is taken |
| `ClientsAgree` | a connection that was lost during a change of the subscriptions and kept the old ones |
| `UpIsServed` | a subscription between the copy a reconnection works on and the calls it makes |
| `AnswersAdvance` | a slow request, abandoned by its caller, that comes after a newer one |
| `SeriesReachesLive` | a live candle merged into a series that ends before it: the candle between the two is never seen closed |
| `SoldOnce` | monitor, manual close and engine selling the same part, from rows read before an await |
| `KeepsTrades` | the same, of each sale by itself: a target sold twice or out of order, a share of another number of targets, a write after the close |
| `ManagedUntouched` | the monitor closing a trade of the engine |
| `LiveNotSimulated` | a live row closed without an order, restarts included |
| `DueIsSold` | a round that never gives the monitor back |
| `LatestWins` | the answer of replaced work shown over the newer one |
| `EveryEndIsTold` | work that is cancelled before its first step and tells nobody |
| `DeadPollRevived` | a flag that says the loop runs |
| `VerdictsFollow` | a verdict that stays what it was: failures and losses counted in an unlucky order, a silent socket |
| `FeedFollowsMarket` | a switch that failed or was cancelled half way, with the feed stopped or bound to the other exchange; two switches that found the same feed |
| `TraderFollowsMarket` | an engine that is made, or kept, for the exchange before: by a command on its way when the guards were read, or between the end of a replaced switch and the next |
| `NoEntryDuringSwitch` | a start or an entry on its way when the guards were read, or one that is submitted while the switch awaits |
| `SwitchEnds` | a switch whose end nobody hears |
| `TargetMeansNoStop` | stop and target in one window, the target looked at first; a restart in the middle of a round |
| `NoneForgotten` | records without a price in front of the queue, partial rounds, restarts |
| `MemoryApart` | the memory of one conversation given to the model in another |
| `OneVoice` | the text of a provider that broke left in front of the next one's |

Some have a premise, which is part of the statement and not of the model.
`BookMatchesTable`, `RowsProtected` and `ClosedMeansOrdered` are claimed while the
history is not cleared: clearing removes the rows of managed trades.
`RowsProtected` is claimed while the process lives: after a restart the engine does not
take its rows back.  `AdmissionWithinLimit` is claimed when only the engine closes
rows: a row the monitor closes does not drop the engine's cached figure, so for up to
a second an entry may pass on the older figure.

The same holds of the parts, and section 6 says what happens beyond each premise:
`FreshMeansRecent` until the local clock is set, `SeriesReachesLive` until a live candle
overtakes an answer, `ClientsAgree` until a call is replaced, `ManagedUntouched` until
the interface thread looks between a row and its registration, `TargetMeansNoStop` for
signals whose whole course was seen, `NeverGoesBack` while the offset of the clocks is zero (a change of it between two ticks
makes their corrected times incomparable), `FeedFollowsMarket` and `TraderFollowsMarket`
unless a switch has replaced the market and nobody heard of its success (`unheard`),
`NoEntryDuringSwitch` of all entries but that of a scan which outlived the halt of its engine,
`NoneForgotten` while fewer records lack a price than a round reads, `MemoryApart` for turns whose conversation was not left, `OneVoice`
for one turn at a time.

`StoppedMeansNoScan` is claimed for a `stop()` that returned.  A second press of the
emergency button may cancel the first one inside its `stop()`, which then has not
returned; the run that checks the property has `MaxPresses = 0` for this reason.


## 4. Runs

Constants are those of the `.cfg`; what is not named is off or empty.

| Run | Instance | Distinct states | Question |
|---|---|---|---|
| `AutoTraderPaper` | 2 symbols, 2 scan identities, ticks, paper, 2 rows, restarts, history cleared | 0.5 million | do competing exits and scans that are started, cancelled and awaited keep to one exit per trade, and does a stopped engine stay stopped? |
| `AutoTraderExits` | 1 symbol, live, ticks, 2 faults, 2 rows | 1.2 million | what do lost replies and failed writes around an exit leave behind? |
| `AutoTraderEntries` | 2 symbols, a manual entry and a scan, price awaits, both modes, the user's own rows, restarts | 1.5 million | do guards that were checked before the awaits still hold when the trade is registered? |
| `AutoTraderLoss` | 2 symbols, live, results -1 and 1, limit 1, capacity 1, button pressed twice | 1.6 million | do the cached figure, midnight and a replaced emergency exit respect limit and capacity? is the engine a ledger? |
| `AutoTraderProgress` | 1 symbol, both modes, ticks that may cease, fairness | 26 thousand | does everything that began end? |
| `PartsSafety` | the parts, each with its bounds below | 1.7 million | the safety properties of the parts |
| `PartsProgress` | the parts that promise something, smaller | 0.2 million | their liveness properties |
| `AutoTraderTwoScans` | 1 symbol, 2 scan identities, `start()` during a `stop()` | violation | section 6 |
| `AutoTraderStray` | 1 symbol, live | violation | section 6 |
| `AutoTraderPanicTwice` | 1 symbol, live, button pressed twice | violation | section 6 |
| `StreamsWanted` | 2 symbols, 2 connections | violation | section 6 |
| `OutcomesSinceMade` | 2 signals | violation | section 6 |

### Bounds

- `MaxTrades` (1 or 2): rows the table holds at once.  The model deletes no row on its own,
  so this bounds the trades between two clearings; with `MayClear` ids return and the
  runs are unbounded in time.  Two rows are what the interesting cases need: two trades
  of one symbol, one trade open and one closed, one managed id handed out again.
  `UserRecords` leaves one id free, so that the bound never blocks an entry that holds
  the lock.  An entry is admitted only when an id is free.
- `MaxConcurrent` (1 or 2): 1 makes capacity bite at the first entry, 2 lets two trades
  compete; `cap` moves between 1 and it at any moment.
- `MaxFaults` (0 or 2): failed writes and lost replies.  Two let a retry fail too.
- `MaxPresses` (0 or 1): the emergency button is pressed again only while a trade has
  had fewer close orders than this.
- `LossLimit`, `Results`: limit 1 and results of one unit up or down reach the limit,
  leave it and reach it again.
- `Manual`, `ScanTask`: one manual entry against one scan is the smallest contest for the
  lock; two scan identities are needed to see a second scan beside the first.  A task
  identity is used again when its task is done and nobody awaits it.
- A scan's candidate list is any subset of `Symbol`, in any order.

Of the parts:

- `TickEngine`: `MaxTime` 6 with delays up to `MaxLate` 3, a staleness of 2 and a book's
  life of 2 let a quote grow stale and be renewed by late ticks; skews 0 and 4 are below
  and above the tolerance of 2; the clock is set once; one sample makes every offset the
  code can compute reachable at once.  `StreamStamps` is both TRUE and FALSE: the web socket of
  LBank sends no exchange time.
- `Streams`: two symbols, two connections, a list cut at one.  `MaxReplace` 0: no call
  replaces another (section 6); `StreamsWanted` uses the same.
- `MarketData`: two callers, one of them a bulk scan, and versions 0 to 2: an open candle,
  the same candle closed, the next one.
- `TradeMonitor`: two rows of quantity 6, divisible by the shares of three targets, one
  restart.  `ClearBusy` FALSE: the history is not cleared while rows are worked on
  (section 6).
- `AsyncRunner`: three submissions, two keys and submissions without one.
- `Connectivity`: two connections, a tolerance of 2 as in the code.
- `ExchangeSwitch`: two exchanges, one trade, three switches (two for liveness).  One switch
  may be told, the next under way and the third waiting for its turn, which is all that one
  switch can meet: a newer one is submitted before the older is heard, and only the last is
  ever queued without being cancelled.  The commands of a kind are one pending command: two
  that overlap are one that takes longer.
- `Outcomes`: for safety two signals, a day of two moves and a life of three, so that a gap may
  be longer than the day and a signal may outlive several checks; for liveness three signals,
  one without a price, and a round that reads two.  Four levels of price, with jumps.
- `Chat`: two conversations, both of which may exist from earlier sessions, two turns of
  two rounds and two providers.  Two turns are never under way at once with two turns in
  all; with three they are, and the premise of `OneVoice` is then needed.

The liveness run has fewer values: two rows, two targets, one key, two exchanges.

Deadlock is checked in every run of the engine.  The parts may really stop: time ends
in `TickEngine`, and nothing need happen once submissions and turns are used up.


## 5. Fairness

`FairSpec`, used by `AutoTraderProgress`, asks for this and no more:

- Weak fairness of the loop's rounds, of a scan's steps, of an entry that waits for a price
  or an order, of an exit that waits for one, and of the return of `stop()`: asyncio runs
  every coroutine that is ready, price requests carry timeouts (`asyncio.wait_for`), and a
  gateway call returns or raises.  The last is an assumption about the executor: the
  engine puts no timeout around it (see the hazards).
- Strong fairness of an entry that finds the lock free: `asyncio.Lock` serves its
  waiters in order, so it is not overtaken for ever.
- Strong fairness of `ExitPriced` and `RoundRefreshes`: a price asked for in every round
  is answered with a fresh quote at last; of `CloseOrdered`: a close order that is sent in
  every round is accepted at last; of `RoundCloses` while the price is not stale: a trade that every round looks at
  with a usable price passes its holding time, and `should_close` returns `"timeout"`.

Not assumed: ticks, user commands, gateway calls that open positions, midnight.
`TradesClose` therefore shows that the poll loop alone closes every trade, also after
`stop()`, without a tick ever arriving again.

Each part of `PartsProgress` runs under the fairness its own module states.  There the
fairness is a premise of each property, and not of the specification, so that TLC looks
at each part under its own alone; the two say the same.

- `MonitorFairness`: the timer ticks, prices are answered (the request has a time-out and
  its failure is an answer), the loop over the rows goes on, the engine registers what
  it wrote.  Not the price: the property is about a price that stays where a step is due.
- `RunnerFairness`: the event loop runs what was submitted and what has begun ends; the
  interface thread takes its events.
- `ConnFairness`: the watchdog, the keepalive, the poll loop while it is alive, the watch
  loop and the revival.  The world (`rest`, `link`, ticks) is free.
- `SwitchFairness`: every await of every switch returns or raises, events are taken.

Two orders in `ExchangeSwitch` are those of the event loop, and are guards.  A cancellation is
handed to the loop before the switch that replaces it is, and is delivered before that one
begins.  Two switches that wait for the same supervisor and feed to stop go on in the order in
which they began to wait.

- `OutcomesFairness`: weakly, time passes and the timer ticks; strongly, a request for
  prices is answered in full again and again.  Restarts are free, and may interrupt any round.


## 6. Disagreements between the code and its documents, and other observations

- `AutoTraderTwoScans` violates `UniqueScan`.  `stop()` awaits the cancelled scan and
  then sets `_scan_task = None`, whatever it refers to by then (`auto_trader.py:1860`).
  If the user starts the engine again meanwhile and the loop has created a scan, that scan
  is forgotten and the loop starts another one beside it.  The release notes of 2.3.0
  promise one independent and unique scan task.
- `AutoTraderStray` violates `NoStrayPosition`.  `stop()` cancels a scan that awaits
  `open_position`.  The order may fill; no row is written and no trade registered.  The
  comment in `stop()` says that stopping must not abandon protective exits.
- `AutoTraderPanicTwice` violates `CloseOrdersExplained`.  The emergency button submits
  under one key, and `AsyncRunner.submit` cancels the running coroutine of that key.  An
  exit that awaits its close order is cancelled, its trade leaves `_closing`, and the
  new coroutine sends a second close order.  The same release notes promise a
  single-flight exit for every position.

- `StreamsWanted` violates `WantedIsSubscribed`.  `set_streamed_symbols` stores the new list before
  the subscriptions are made.  Told without a web socket, it makes none; told the
  same list again when the socket has come, it returns early (`live_feed.py:188`).
- `OutcomesSinceMade` violates `ResultSinceMade`.  The window a signal is checked against is the
  exchange's range of 24 hours (`application.py:1286`), which holds prices from before the
  signal was made; `outcome_tracker.py:99` says that it is the range since the last check.

Each is a behaviour of the modelled code with a step that the environment may
really take; none needs a failure of the database or the network.

Beyond the premises of the properties, and found by setting the constants named or dropping the premise:

- **Row ids come back.** With `ClearBusy` TRUE `LiveNotSimulated` fails: the history is cleared
  while a close of a paper row waits for its price, SQLite hands the id to a live row of
  the engine, and the close is written to it (`paper_execution.py:3` says it never is).
- **The monitor's blind moment.** It reads the rows, then the engine's trades; a row whose
  trade is registered between is taken for the user's (`raced`).
- **The fee of a partly closed trade** is computed from the quantity read before the
  price was awaited (`paper_execution.py:36`).
- **A clock that is set** makes quotes and books look younger or older than they are until
  new ones come (`FreshMeansRecent` and the life of books need `steps = 0`).
- **A live candle that overtakes an answer** leaves the older series in the cache until it
  expires (`overtaken`; `engine.py:420` describes the invalidation that is meant to prevent it).
- **A market replaced unheard.** `switch_exchange` replaces `self.market` (`application.py:418`),
  closes the engine before, and then still builds what hangs on the market and writes the setting
  (441).  An error there, such as a `DatabaseError` of that write, reaches the `except` of
  the switch (`main_controller.py:4899`), which starts the old feed again, on an engine that is
  closed.  The user reads "Could not switch exchange; the previous one is still active"
  (`localization/en/settings.json:171`), while the new one is.  A switch that is cancelled at that
  point, or replaced by one that then fails, is not told either.  Feed and trader stay with
  the exchange before until a later switch is heard.  Without `~unheard` TLC refutes
  `FeedFollowsMarket` so: `Apply`, `Begin`, `StopFeed`, `StartEngine`, `Fails`, `Failed`.
- **A scan that outlives a halt.** A halt at the loss limit (`auto_trader.py:1381`) clears
  `is_running` without a command, while a scan whose cancellation was swallowed (as in
  `CancelSwallowed`) goes on; `open_trade` never looks at `is_running`.  The guards of the
  switch let it pass, and the scan may open a trade during the switch, although the release
  notes of 2.3.0 (line 67) say that an entry under way blocks it.  With FALSE for its conclusion TLC
  refutes `NoEntryDuringSwitch`: `EngineOpens`, `Closes` with the halt, `Apply`, `EngineOpens`.
- **Trades across a switch.** `record_paper_trade` looks neither at `_exchange_switching` nor at the
  guards: a paper trade the user records during a switch is there afterwards, which the note
  in `localization/en/trades.json:277` does not foresee.  An engine that `done` forgets is not
  stopped: between two switches one may be started (the first one's end clears
  `_exchange_switching`), and after the second it goes on, bound to the exchange before,
  where nobody can stop it (`open` counts its trades as others').
- **The backoff of the supervisor** is computed and logged, and nothing waits for it
  (`resilience.py:149`); the watchdog resets the clock of a silent connection, so that the
  status is good again for one period.
- **Records without a price.** As many of them as a round reads (60) stay at the head of
  `open_outcomes` for ever, since only a check renews `checked_at`; its comment says that no
  signal falls behind for ever.  A record that was not looked at for more than a day, or
  is checked by a single price, may have touched its stop unseen.
- **A conversation left during a turn.** The history stays enabled while the assistant
  answers.  The memory is cleared under the turn, which then appends its answer to the
  memory of the conversation that is open by then; the answer is shown and stored
  there.  If that conversation was deleted or is new, a record is made that holds an answer alone.
- **Two signals end a turn.** A message sent between them is unlocked by the second one, and
  a third can then be sent beside it: two turns write into one bubble.
- **A replaced submission** whose outcome is already on its way is still delivered; `LatestWins`
  holds because it comes before that of the newer work.
- `unsubscribe_symbol`, `cancel_trade`, `delete_trade`, `SignalOutcomeRepository.cancel` and
  `AutoScanScheduler.reset` ("after an exchange switch") have no caller.


## 7. Proofs

All theorems hold for every value of the constants that satisfies the assumptions
declared in the modules (`AutoTrader`: finite sets of symbols and coroutines, natural
bounds, integer results; each part its own, gathered as `PartsAssumption`); every run of
TLC evaluates these assumptions too.  A theorem about a part is a theorem about
`PartsSafety`, whose properties are those of the parts: a step of it is a step of one
part and leaves the others alone (`TickSteps`, `MonitorSteps`, ... at the head of each module).

### The engine

| Theorem | Statement | Argument |
|---|---|---|
| `TypeCorrect` | `Spec => []TypeOK` | `TypeOK` is inductive.  The one arithmetic fact is that `NextId` is a positive number: a non-empty finite set of ids has a largest element (`LargestId`) |
| `LedgerImplemented` | `Spec => KeepsLedger` | the inductive invariant is `TypeOK` and `LockHeld`: an entry that waits for its price or order holds `_entry_lock`.  With it, a free lock means an empty claim, so the engine's admission is the ledger's |
| `LedgerSafe` | the ledger keeps one trade per symbol and its capacity | `LedgerInv`: an admitted symbol has no trade, and capacity counts the pending admission.  Neither conclusion is inductive without these |
| `TradesDistinct`, `CapacityKept` | `Spec => []OneTradePerSymbol`, `Spec => []CapacityRespected` | the two before, together: what the ledger promises, read through the mapping |
| `ExitsSingle` | `Spec => []SingleExit` | `ExitInv`, below |
| `BookAgrees`, `RowsStayProtected`, `ClosesOrdered` | `BookMatchesTable`, `RowsProtected`, `ClosedMeansOrdered`, always | `TableInv`, the three and `ExitsKnown`: a suspended exit knows from the trade it was started with whether its row is live.  A new row's id is new (`NewId`), so that no exit can meet another trade's row |
| `AutoRowsDistinct` | `Spec => []OneAutoRowPerSymbol` | `RowsApart`: the symbol of a waiting entry has no open row of the engine.  The guard was evaluated before the awaits; `LockHeld` is why no such row is written meanwhile |
| `OrdersExplained` | `MaxPresses = 0` implies `Spec => []CloseOrdersExplained` | `OrdersCounted`: a trade that is still managed or being closed has had at most as many accepted close orders as there were faults; so one more is the one that is allowed.  Uses `ExitInv`: two exits of one trade would count it twice |
| `LimitHalts` | `Spec => LossLimitHalts` | a step that closes a managed row at the limit is a `Commit` of that trade, and drops the cached figure before it looks |
| `LimitAdmitsNone` | `Spec => AdmissionWithinLimit` | `LimitSeen`: once the table is at the limit, so is the cached figure if there is one; and no row is the user's.  Without the second, `RowCloses` would break the first |
| `StoppedWithoutScan` | `MaxPresses = 0` and no `start()` during a `stop()` imply `Spec => []StoppedMeansNoScan` | `ScanAccounted`: while the engine runs, `_scan_task` is the only scan that lives; once it is off, some `stop()` awaits each scan that lives |

`SingleExit` is not inductive.  An exit that reached the loss limit has left `exit` and
waits for `stop()`; only `_closing` keeps a second exit of that trade out, and only if
no other exit's end can remove the id.  `ExitInv` says so: every exit in flight, the
ones that wait for `stop()` included, has its trade in `closing`; there is one per trade;
and no exit is at both places.  The proof has one lemma per way an exit may change
(suspended, ended, gone on to wait for `stop()`, untouched) and one per piece of code
that does it.

`MaxPresses = 0` says that the emergency button is not pressed again while its exits are
in flight, and `~StartDuringStop` that the user does not start the engine while a `stop()`
waits.  Both are needed: `AutoTraderPanicTwice` and `AutoTraderTwoScans` (section 6) set
them otherwise, and what follows is a second close order and a second scan.

### The parts

| Theorem | States | Inductive invariant, and why it is needed |
|---|---|---|
| `FeedFollows` | `FeedFollowsMarket` | `SwitchInv`: of all switches only the newest may be queued without being cancelled, and a cancellation is pending only while it is (`SwitchOrder`); the feed is bound to the market, and it runs or some switch will start one again (`Restores`), unless the market was replaced unheard (`SwitchFeed`).  The switch that stopped the feed may be cancelled, and then a newer one restores it: hence the order |
| `TraderFollows` | `TraderFollowsMarket` | inductive: an engine is made for the market of that moment, the market changes only unheard, and the end that is heard forgets the engine |
| `NoEntryMeanwhile` | `NoEntryDuringSwitch` | `GuardsHold`: as long as the switch is not heard to have ended, what its guards saw of the trader stays so: it admits nothing, and no start or entry is pending |
| `SoldOnceAlways` | `SoldOnce` | inductive with `MonitorTypes`: every write of the table looks at the row again.  The theorem needs no premise |
| `LiveLeftToEngine` | `LiveNotSimulated` | `CopiesMatch`: what a round or a manual close read of a row before its await is still true of its mode, its targets and the next of them; past the filter no copy is of a live row |
| `TradesImplemented` | `KeepsTrades`, and with it `StagedTrades!Spec` under the mapping | `CopiesMatch`: the target and the share a round goes by are those of the row as it is now, so that its sale is the next one of the trade (`SellsTarget`); one lemma per kind of write |
| `TradesSoldInShares`, `TargetsSoldOnce` | what was sold of an open trade is one share for each target behind it; each target but the last sold one part | the first from the refinement: each step of a staged trade keeps it.  The second (`EachTargetOnce`) counts the calls that sold something, which the staged trades do not know |
| `EngineUndisturbed` | `ManagedUntouched` | with `EngineAlone`: a row the engine has written and not yet registered is already out of reach of rounds and manual closes, unless one of them looked between (`raced`) |
| `WonWithoutStop` | `TargetMeansNoStop` | `ResultInv`: of an undecided signal whose stop was touched, the touch lies in the part of the day since its last check, so that the next check sees it; a gap longer than the day makes it `blind` |
| `QuotesAge`, `PricesGoForward` | `FreshMeansRecent`, `NeverGoesBack` | `TickTimes`: until the clock is set, the times of a quote and of its book are those of their arrival plus one and the same skew, whatever the estimated offset |
| `UpServed` | `UpIsServed` | `LinesServed`: during a reconnection, what a client wants is at the server or in the copy it still works through |
| `ClientsAgreeAlways` | `ClientsAgree` | `CallInv`: at each await of a call, how far the wishes of the feed, the tickers of the stream and the sets of the clients are apart: by the symbols still to come, and for the clients still to be told by the symbol being told |
| `AnswersGoForward` | `AnswersAdvance` | `OneRequest` (one request at a time, none while something is cached), `NotAhead` (nothing known is newer than the exchange) and `Promises`: whatever a caller may be told next ends no earlier than what it was told |
| `SeriesReaches` | `SeriesReachesLive` | with `Reached`: the same of the cache and of an answer on its way |
| `NewestWins` | `LatestWins` | `RunnerInv`: older work of a key is over or cancelled once newer work has it (`OnlyTheLast`), and the signals of a key wait in the order of its submissions (`QueueInOrder`) |
| `EndsAreKept` | `NoEndIsLost`: of work that is over, the end is told or waits in the event queue, and so does its outcome unless it was cancelled | with `CoursesInv`: what was called of a handle's callbacks and what still waits make one course.  It is the safety that `EveryEndIsTold` rests on; what is left of that is that both threads go on |
| `OneConversation` | `MemoryApart` | `ChatInv`: turns under way and the memory are of the open conversation, unless the user left it |
| `VoicesApart` | `OneVoice` | `VoiceInv`: between the pieces of two attempts in the event queue, and between those and the text on the page, something takes the text back |

| `PartsTyped` | `PartsTypeOK` | below |

`PartsTypeOK` says more than types.  It is inductive for the ticks, the candles and the
connection; the other parts take the invariants of the theorems above and what those leave
open:

- the streams (`StreamTypes`): `CallInv`, and what the client and the call under way hold;
- the switch (`SwitchTypes`): with the number of the newest switch within its bound;
- the monitor (`QuoteTypes`): with `MonitorTypes`, the price and the restarts;
- the results (`QueueInv`, `AllBounded`): `waiting` holds the pending signals and no others, each
  once.  `Those`, which filters a queue, keeps what is in a set, each once (`ThoseOfQueue`), and
  joined queues without a common member are a queue again (`JoinedQueues`);
- the runner (`CoursesInv`): the calls of a handle's callbacks are one of `Courses`.  That needs to
  know of the signals that still wait: none before the end of the work, then at most an
  outcome and, behind it, the end;
- the chat (`PageTypes`, `TalkBounds`): a turn tries no more providers and rounds than there are,
  and the open conversation has a record.

What a queue filtered by `Those` holds, and that a window of clock samples has one in the middle
(`Median`, which is declarative for this reason), takes an induction.  The library's induction
theorems have an operator as a parameter, which the provers cannot instantiate.  The
proofs use a set in its place: the set of the numbers up to which the claim holds contains 0
and with each number the next, so that it holds them all (`NatSets`).  The assumptions
`IsFiniteSet(SignalIds)` and `IsFiniteSet(Symbols)` are there for `SetToSeqs`, the order in which
`backfill` enters its signals and the one in which a call goes through its symbols.

Premises of theorems, beyond those in the properties themselves (section 3):

- `LiveLeftToEngine`, `TradesImplemented`, `TradesSoldInShares`, `TargetsSoldOnce`,
  `EngineUndisturbed`: `~ClearBusy`, the history is not cleared while rows are worked on.

The runs have the same values; section 6 says what the code does beyond them.  They are
constants, and not assumptions: the modules allow both values.

The provers found one place where the model was wrong.  `update_outcome` returns a
closed outcome as it is; the model decided it anew, which no execution did, but which
`ResultInv` has to exclude.  `Updated` now has the early return.

### Only model-checked

- **Liveness**: `StopEnds`, `EntriesAnswered`, `TradesClose`, and all six properties of
  `PartsProgress`.  Fairness involves `ENABLED`, which these provers do not reason about.
- **What must fail**: `UniqueScan`, `NoStrayPosition`, `WantedIsSubscribed`, `ResultSinceMade`,
  which TLC refutes.

No module declares a `RECURSIVE` operator.  Every safety property of the passing runs,
invariant or action property, is stated by a theorem.


## 8. Not modelled

- **Numbers.** Levels, sizing, fees, indicators, prediction, backtests and paper-account balances
  are arithmetic on real numbers.  The models take whatever they decide.
- **Audit and display.** They observe and never change what they show.  The pages of the
  interface are most of the repository's lines; what the models hold of them is the
  part that locks, unlocks and submits.
- **The executor.** It is not part of the repository; `build_gateway` accepts one.  It is
  modelled from how `_open_trade_locked` and `_close_trade_once` call it.
- **Two threads on one row.** The monitor and the engine write the table from two threads.
  A table operation is atomic here, which SQLite's transactions give.
- **A straggler of an aborted round.** When an exception ends a round, exits it had
  started may still run; the model does not tell them apart from those of the next one.
- **Rate limiter and REST cooldown.** A bucket in real time behind one lock.  The market engine
  takes a refused request for a failed one.
- **Automatic scans.** The scheduler's flag is taken and returned on one thread around work of
  a guarded key; nobody cancels that work.
- **Parsing of exchange messages, addresses, delays.** The clients are modelled by what
  they subscribe and deliver; the other exchanges follow the interface of LBank's.
- **The chat's early returns and settings.** An assistant that is switched off, a history
  that is not saved, a memory cut at its length, an assistant rebuilt after a change of
  settings.  The words of a message and the actions it proposes.
- **The tracker's measures.** Floating profit and loss, and the review of closed signals.
- **Everything outside the core**, as listed in `PROJECT.json`: text generation,
  accounts, secrets, backup, reports, packaging and the mobile app.


## 9. Plan

All parts named in the first plan are modelled, and all their safety properties are proved.
What is left:

1. The safety behind the other liveness properties, as `EndsAreKept` is for
   `EveryEndIsTold`: for `NoneForgotten`, that a record which was checked goes behind all
   that were not (`QueueInv` says only that it is in the queue).
2. The theorems with `~ClearBusy` for the program as it is, once `clear_history` looks at
   the rows that are worked on.
3. The rate limiter, the scheduler of automatic scans and the settings of the chat
   (section 8), if they come to carry more than a flag.
