----------------------------- MODULE AutoTrader -----------------------------
(***************************************************************************)
(* The automatic trading engine (trading/auto_trader.py) together with the *)
(* two things it drives: the trade table (PaperTradeRepository) and the    *)
(* live order gateway.                                                     *)
(*                                                                         *)
(* The engine runs on one asyncio loop, so the code between two awaits is  *)
(* atomic and is one action here; every await that may suspend is a point  *)
(* where all the other coroutines may run.  The coroutines are             *)
(*   - entries: open_trade called by a manual entry (Manual) or by a scan  *)
(*     task (ScanTask), serialised by `_entry_lock';                       *)
(*   - exits: close_trade called by the tick path, by the poll loop and by *)
(*     the user, single-flight per trade through `_closing';               *)
(*   - the loop, the scan tasks it creates, and the callers of stop().     *)
(*                                                                         *)
(* Prices, quantities, sizes and fees are abstracted: a guard that depends *)
(* only on them is a free choice.  A trade's result is a number of Results.*)
(*                                                                         *)
(* Beside some definitions stands a broken variant (NoLock, MayExitTwice,  *)
(* ...): what the definition would be with a plausible bug in the code.    *)
(* The specification uses none of them; each shows that a property below   *)
(* would catch its bug.                                                    *)
(***************************************************************************)
EXTENDS Integers, FiniteSets

CONSTANTS
    Symbol,        \* tradable symbols
    Manual,        \* callers of open_trade from the opportunities table
    ScanTask,      \* identities for the asyncio tasks that run _run_scan
    None,          \* no task / no coroutine
    MaxTrades,     \* bound: rows the trade table may hold at once
    MaxConcurrent, \* largest value of config.max_concurrent (HARD_MAX_CONCURRENT)
    LossLimit,     \* config.daily_loss_limit, 0 = no limit
    Results,       \* net results a closed trade may have
    Modes,         \* outcomes of live_execution_allowed: {"paper"}, {"live"} or both
    TickFeed,      \* a TickEngine is attached
    UserTrades,    \* the user also records paper trades of his own
    MayClear,      \* the user may clear the trade history
    MayRestart,    \* the application may be killed and started again
    StartDuringStop, \* start() may be called while a stop() waits for its scan
    MaxPresses,    \* bound: close orders of a trade up to which the emergency
                   \* button is pressed again, 0 = never
    MaxFaults      \* bound: database write failures and lost gateway replies

ASSUME SetAssumption == /\ IsFiniteSet(Symbol)
                        /\ IsFiniteSet(Manual)
                        /\ IsFiniteSet(ScanTask)
                        /\ Manual \cap ScanTask = {}
                        /\ None \notin Manual \cup ScanTask
ASSUME NumberAssumption == /\ MaxTrades \in Nat
                           /\ MaxConcurrent \in Nat \ {0}
                           /\ LossLimit \in Nat
                           /\ MaxPresses \in Nat
                           /\ MaxFaults \in Nat
                           /\ Results \subseteq Int
ASSUME ModeAssumption == Modes \subseteq {"paper", "live"}
ASSUME FlagAssumption == {TickFeed, UserTrades, MayClear, MayRestart,
                          StartDuringStop} \subseteq BOOLEAN

VARIABLES
    running,     \* _running
    loop,        \* _task: "off", "sleep" or in the middle of a "check" round
    round,       \* trades the current round of check_open_trades has left
    scanTask,    \* _scan_task: the scan task the engine refers to
    stopping,    \* stop() calls that await a cancelled scan: caller -> scan
    cap,         \* config.max_concurrent
    at,          \* where each entry coroutine is suspended
    target,      \* the symbol an entry coroutine works on
    left,        \* candidates a scan has still to try
    cancelled,   \* scan tasks with a cancellation still to be delivered
    entryLock,   \* the holder of _entry_lock
    open,        \* _open: the trades the engine manages, by row id
    closing,     \* _closing
    exit,        \* suspended _close_trade_once coroutines, by <<caller, id>>
    row,         \* the trade table: row id -> row
    realised,    \* net result of the day's closed rows (daily_realised_pnl)
    dailyCache,  \* _daily_cache: {} or the one figure it holds
    fresh,       \* symbols whose last quote is not stale
    pending,     \* _tick_check_pending
    closeOrders, \* close orders the exchange accepted for the trade of an id
    stray,       \* symbols with a live position no coroutine and no trade tracks
    faults       \* database failures and lost replies so far

entryVars == <<at, target, left, cancelled, entryLock>>
exitVars  == <<closing, exit, closeOrders>>
loopVars  == <<running, loop, round, scanTask, stopping>>
dataVars  == <<fresh, pending>>
moneyVars == <<realised, dailyCache>>
vars == <<entryVars, exitVars, loopVars, dataVars, moneyVars,
          cap, open, row, stray, faults>>

Id      == 1..MaxTrades
Entry   == Manual \cup ScanTask
Caller  == {"tick", "loop", "user", "panic"}
ExitKey == Caller \X Id
UserStop == <<"stop", 0>>      \* the key of a stop() called by the user
Position == [symbol: Symbol, live: BOOLEAN]
Exit     == [phase: {"price", "order"}, symbol: Symbol, live: BOOLEAN]
Row      == [symbol: Symbol, live: BOOLEAN, auto: BOOLEAN, open: BOOLEAN]

-----------------------------------------------------------------------------
(* Python dictionaries *)

Put(f, k, v) == [x \in DOMAIN f \cup {k} |-> IF x = k THEN v ELSE f[x]]
Drop(f, k)   == [x \in DOMAIN f \ {k} |-> f[x]]

OpenRows == {i \in DOMAIN row : row[i].open}

(* SQLite gives a new row the largest id in the table plus one, so an id   *)
(* comes back after the rows above it were deleted.                        *)
NextId == IF DOMAIN row = {} THEN 1
          ELSE 1 + CHOOSE i \in DOMAIN row : \A j \in DOMAIN row : j <= i

Managed(s) == \E i \in DOMAIN open : open[i].symbol = s
HasRow(s)  == \E i \in OpenRows : row[i].symbol = s

(* open_count of the portfolio: managed trades and open rows together *)
OpenCount == Cardinality(DOMAIN open \cup OpenRows)

Stale(s) == TickFeed /\ s \notin fresh

(* A symbol is taken by a managed trade or by any open row of the user. *)
TakenIgnoringRows(s) == Managed(s)
Taken(s) == Managed(s) \/ HasRow(s)

HasRoomOffByOne == OpenCount <= cap
HasRoom == OpenCount < cap

(* _check_daily_limit: the table's figure, or the cached one *)
DailyTotals == IF dailyCache = {} THEN {realised} ELSE dailyCache
WithinLimitOffByOne == LossLimit > 0 => \A v \in DailyTotals : v >= -LossLimit
WithinLimit == LossLimit > 0 => \A v \in DailyTotals : v > -LossLimit
LookAtLimit == dailyCache' = IF LossLimit > 0 THEN DailyTotals ELSE dailyCache

(* The one-second life of the cached figure is over. *)
CacheExpires == /\ dailyCache # {}
                /\ dailyCache' = {}
                /\ UNCHANGED <<entryVars, exitVars, loopVars, dataVars, realised,
                               cap, open, row, stray, faults>>

(* Midnight UTC: the rows closed so far no longer count, the cached figure  *)
(* still does.                                                              *)
NewDay == /\ realised # 0
          /\ realised' = 0
          /\ UNCHANGED <<entryVars, exitVars, loopVars, dataVars, dailyCache,
                         cap, open, row, stray, faults>>

-----------------------------------------------------------------------------
Init ==
    /\ running = FALSE /\ loop = "off" /\ round = {}
    /\ scanTask = None /\ stopping = <<>>
    /\ cap \in 1..MaxConcurrent
    /\ at = [e \in Entry |-> "idle"]
    /\ target = [e \in Entry |-> None]
    /\ left = [e \in ScanTask |-> {}]
    /\ cancelled = {} /\ entryLock = None
    /\ open = <<>> /\ closing = {} /\ exit = <<>>
    /\ row = <<>> /\ realised = 0 /\ dailyCache = {}
    /\ fresh = IF TickFeed THEN {} ELSE Symbol
    /\ pending = {}
    /\ closeOrders = [i \in Id |-> 0]
    /\ stray = {} /\ faults = 0

-----------------------------------------------------------------------------
(* Entries *)

(* `async with self._entry_lock' *)
NoLock   == TRUE
LockFree == entryLock = None

(* Where open_trade suspends first: a stale symbol is refreshed outside    *)
(* the lock, any other goes to the lock.                                   *)
Knock(s) == IF Stale(s) THEN "refresh" ELSE "lock"

(* open_trade returned to its caller: a scan goes on with its next         *)
(* candidate, a manual entry is over; the lock, if held, is released.      *)
LeaveLocked(e) ==
    /\ at' = [at EXCEPT ![e] = IF e \in ScanTask THEN "pick" ELSE "idle"]
    /\ target' = [target EXCEPT ![e] = None]
    /\ UNCHANGED <<left, cancelled, entryLock>>
Leave(e) ==
    /\ at' = [at EXCEPT ![e] = IF e \in ScanTask THEN "pick" ELSE "idle"]
    /\ target' = [target EXCEPT ![e] = None]
    /\ entryLock' = IF entryLock = e THEN None ELSE entryLock
    /\ UNCHANGED <<left, cancelled>>

(* An exception left open_trade: it ends a scan altogether (_run_scan). *)
Fail(e) ==
    /\ at' = [at EXCEPT ![e] = "idle"]
    /\ target' = [target EXCEPT ![e] = None]
    /\ left' = IF e \in ScanTask THEN [left EXCEPT ![e] = {}] ELSE left
    /\ cancelled' = cancelled \ {e}
    /\ entryLock' = IF entryLock = e THEN None ELSE entryLock

(* The user enters one candidate of the opportunities table. *)
ManualEntry(e, s) ==
    /\ at[e] = "idle"
    /\ at' = [at EXCEPT ![e] = Knock(s)]
    /\ target' = [target EXCEPT ![e] = s]
    /\ UNCHANGED <<left, cancelled, entryLock, exitVars, loopVars, dataVars, moneyVars,
                   cap, open, row, stray, faults>>

(* The price source answered or gave up: the entry goes on to the lock only *)
(* if the symbol is fresh now, and gives up after an error even if it is.   *)
Refreshed(e) ==
    /\ at[e] = "refresh" /\ e \notin cancelled
    /\ \/ /\ ~Stale(target[e])
          /\ at' = [at EXCEPT ![e] = "lock"]
          /\ UNCHANGED <<target, left, cancelled, entryLock>>
       \/ Leave(e)
    /\ UNCHANGED <<exitVars, loopVars, dataVars, moneyVars, cap, open, row, stray, faults>>

(* Under the lock, a guard refuses the candidate.  Candidate quality,       *)
(* spread, liquidity, sizing and risk levels are not modelled, so a refusal *)
(* is always possible, and so is an exception (live trading not confirmed,  *)
(* no gateway); the daily limit may have been looked at on the way.         *)
Reject(e) ==
    /\ at[e] = "lock" /\ e \notin cancelled
    /\ LockFree
    /\ Leave(e) \/ Fail(e)
    /\ LookAtLimit \/ UNCHANGED dailyCache
    /\ UNCHANGED <<exitVars, loopVars, dataVars, realised, cap, open, row, stray, faults>>

(* Every guard of _open_trade_locked that precedes the price. *)
Admissible(s) ==
    /\ ~Taken(s)
    /\ HasRoom
    /\ WithinLimit
    /\ ~Stale(s)

(* repo.open_trade and the registration in _open, in one step: a new id    *)
(* that is still a key of _open overwrites the trade that had it.          *)
Record(e, live) ==
    LET n == NextId
        lost == /\ n \in DOMAIN open
                /\ open[n].live
                /\ closeOrders[n] = 0
    IN /\ n \in Id
       /\ row' = Put(row, n, [symbol |-> target[e], live |-> live, auto |-> TRUE,
                              open |-> TRUE])
       /\ open' = Put(open, n, [symbol |-> target[e], live |-> live])
       /\ closeOrders' = [closeOrders EXCEPT ![n] = 0]
       /\ stray' = IF lost THEN stray \cup {open[n].symbol} ELSE stray
       /\ loop' = IF loop = "off" THEN "sleep" ELSE loop
       /\ Leave(e)
       /\ UNCHANGED faults

(* repo.open_trade raised: nothing is recorded, whatever was ordered. *)
RecordFailsLate(e, live) ==
    /\ faults < MaxFaults
    /\ faults' = faults + 1
    /\ open' = Put(open, NextId, [symbol |-> target[e], live |-> live])
    /\ Fail(e)
    /\ UNCHANGED <<row, closeOrders, stray, loop>>
RecordFails(e, live) ==
    /\ faults < MaxFaults
    /\ faults' = faults + 1
    /\ stray' = IF live THEN stray \cup {target[e]} ELSE stray
    /\ Fail(e)
    /\ UNCHANGED <<row, open, closeOrders, loop>>

(* From a known price on: the market guards once more, then a paper trade   *)
(* is recorded at once and a live one is ordered at the gateway first.      *)
Place(e, mode) ==
    /\ ~Stale(target[e])
    /\ IF mode = "paper"
       THEN Record(e, FALSE) \/ RecordFails(e, FALSE)
       ELSE /\ at' = [at EXCEPT ![e] = "order"]
            /\ entryLock' = e
            /\ UNCHANGED <<target, left, cancelled, row, open, closeOrders, stray,
                           loop, faults>>

(* All guards passed.  With a tick engine the quote is at hand and the      *)
(* coroutine goes straight on; without one it awaits the price source.      *)
Admit(e) ==
    /\ at[e] = "lock" /\ e \notin cancelled
    /\ LockFree
    /\ Admissible(target[e])
    /\ NextId \in Id
    /\ LookAtLimit
    /\ IF TickFeed
       THEN \E mode \in Modes : Place(e, mode)
       ELSE /\ at' = [at EXCEPT ![e] = "price"]
            /\ entryLock' = e
            /\ UNCHANGED <<target, left, cancelled, row, open, closeOrders, stray,
                           loop, faults>>
    /\ UNCHANGED <<closing, exit, running, round, scanTask, stopping, dataVars,
                   realised, cap>>

(* The price source answered an entry that waits for it under the lock. *)
Priced(e) ==
    /\ at[e] = "price" /\ e \notin cancelled
    /\ \/ \E mode \in Modes : Place(e, mode)
       \/ /\ Leave(e) \/ Fail(e)
          /\ UNCHANGED <<row, open, closeOrders, stray, loop, faults>>
    /\ UNCHANGED <<closing, exit, running, round, scanTask, stopping, dataVars,
                   moneyVars, cap>>

(* The gateway confirmed the order: record it as a live trade. *)
Ordered(e) ==
    /\ at[e] = "order" /\ e \notin cancelled
    /\ Record(e, TRUE) \/ RecordFails(e, TRUE)
    /\ UNCHANGED <<closing, exit, running, round, scanTask, stopping, dataVars,
                   moneyVars, cap>>

(* The gateway raised: it refused the order, or filled it and the reply     *)
(* was lost.                                                                *)
OrderFails(e) ==
    /\ at[e] = "order" /\ e \notin cancelled
    /\ \/ UNCHANGED <<stray, faults>>
       \/ /\ faults < MaxFaults
          /\ faults' = faults + 1
          /\ stray' = stray \cup {target[e]}
    /\ Fail(e)
    /\ UNCHANGED <<exitVars, loopVars, dataVars, moneyVars, cap, open, row>>

-----------------------------------------------------------------------------
(* Scan tasks *)

(* The candidate source answered: symbols held at that moment are dropped,  *)
(* the others are tried one after the other.  An error ends the scan.       *)
Candidates(e) ==
    /\ at[e] = "source" /\ e \notin cancelled
    /\ \/ \E found \in SUBSET Symbol :
            /\ left' = [left EXCEPT ![e] = {s \in found : ~Managed(s)}]
            /\ at' = [at EXCEPT ![e] = "pick"]
            /\ UNCHANGED <<target, cancelled, entryLock>>
       \/ Fail(e)
    /\ UNCHANGED <<exitVars, loopVars, dataVars, moneyVars, cap, open, row, stray, faults>>

(* The next candidate, unless the engine is full. *)
PickForever(e) ==
    /\ at[e] = "pick"
    /\ IF left[e] = {} \/ Cardinality(DOMAIN open) >= cap
       THEN Fail(e)
       ELSE \E s \in left[e] :
              /\ at' = [at EXCEPT ![e] = Knock(s)]
              /\ target' = [target EXCEPT ![e] = s]
              /\ UNCHANGED <<left, cancelled, entryLock>>
    /\ UNCHANGED <<exitVars, loopVars, dataVars, moneyVars, cap, open, row, stray, faults>>
Pick(e) ==
    /\ at[e] = "pick"
    /\ IF left[e] = {} \/ Cardinality(DOMAIN open) >= cap
       THEN Fail(e)
       ELSE \E s \in left[e] :
              /\ left' = [left EXCEPT ![e] = @ \ {s}]
              /\ at' = [at EXCEPT ![e] = Knock(s)]
              /\ target' = [target EXCEPT ![e] = s]
              /\ UNCHANGED <<cancelled, entryLock>>
    /\ UNCHANGED <<exitVars, loopVars, dataVars, moneyVars, cap, open, row, stray, faults>>

(* CancelledError is raised at the await the scan is suspended in.  An      *)
(* order already handed to the gateway may fill without anybody waiting.    *)
ScanCancelled(e) ==
    /\ e \in cancelled
    /\ at[e] \in {"source", "refresh", "lock", "price", "order"}
    /\ Fail(e)
    /\ \/ UNCHANGED stray
       \/ at[e] = "order" /\ stray' = stray \cup {target[e]}
    /\ UNCHANGED <<exitVars, loopVars, dataVars, moneyVars, cap, open, row, faults>>

(* asyncio.wait_for of Python 3.11 returns the result instead of raising    *)
(* when the awaited future is done by the time the cancellation arrives:    *)
(* the scan goes on, and stop() waits for all of it.                        *)
CancelSwallowed(e) ==
    /\ e \in cancelled
    /\ at[e] \in {"refresh", "price"}
    /\ cancelled' = cancelled \ {e}
    /\ UNCHANGED <<at, target, left, entryLock, exitVars, loopVars, dataVars, moneyVars,
                   cap, open, row, stray, faults>>

EntryStep(e) ==
    \/ Refreshed(e) \/ Reject(e) \/ Admit(e) \/ Priced(e) \/ Ordered(e) \/ OrderFails(e)

ScanStep(e) == Candidates(e) \/ Pick(e) \/ ScanCancelled(e) \/ CancelSwallowed(e)

-----------------------------------------------------------------------------
(* stop() *)

(* _scan_task is not None and not done() *)
ScanAlive == \E e \in ScanTask : scanTask = e /\ at[e] # "idle"

(* The synchronous part of stop(): no more automatic entries, the running   *)
(* scan is cancelled, and the caller k, the exit of a trade of symbol s or   *)
(* the user, waits for it to end.                                           *)
BeginStopUnawaited(k, s) ==
    /\ running' = FALSE
    /\ scanTask' = None
    /\ cancelled' = IF ScanAlive THEN cancelled \cup {scanTask} ELSE cancelled
    /\ UNCHANGED stopping
BeginStopUnguarded(k, s) ==
    /\ running' = FALSE
    /\ cancelled' = cancelled \cup {scanTask}
    /\ stopping' = Put(stopping, k, [scan |-> scanTask, symbol |-> s])
    /\ UNCHANGED scanTask
BeginStop(k, s) ==
    /\ running' = FALSE
    /\ IF ScanAlive
       THEN /\ cancelled' = cancelled \cup {scanTask}
            /\ stopping' = Put(stopping, k, [scan |-> scanTask, symbol |-> s])
            /\ UNCHANGED scanTask
       ELSE /\ scanTask' = None
            /\ UNCHANGED <<cancelled, stopping>>

(* The user switches the engine off (a second call replaces the first one,  *)
(* which changes nothing).                                                  *)
Stop ==
    /\ UserStop \notin DOMAIN stopping
    /\ BeginStop(UserStop, None)
    /\ UNCHANGED <<at, target, left, entryLock, exitVars, loop, round, dataVars,
                   moneyVars, cap, open, row, stray, faults>>

(* The awaited scan has ended: the reference is dropped, whichever task it  *)
(* points to by now, and a halting exit leaves close_trade.                 *)
StopReturns(k) ==
    /\ k \in DOMAIN stopping
    /\ at[stopping[k].scan] = "idle"
    /\ scanTask' = None
    /\ stopping' = Drop(stopping, k)
    /\ closing' = closing \ {k[2]}
    /\ UNCHANGED <<entryVars, exit, closeOrders, running, loop, round, dataVars,
                   moneyVars, cap, open, row, stray, faults>>

-----------------------------------------------------------------------------
(* Exits *)

(* An exception that leaves close_trade also leaves the gather of the round *)
(* it belongs to, and so ends the round (a straggler of a round that ended  *)
(* this way is not told apart from an exit of the current one).             *)
AbortRound(k) == loop' = IF k[1] = "loop" THEN "sleep" ELSE loop

(* What is left of the round once it may have been aborted. *)
RoundAfter(rest) == round' = IF loop' = "check" THEN rest ELSE {}

(* The day's result the check after a close sees: _daily_cache was dropped  *)
(* just before, so it is the table's.                                       *)
SeenCached(total) == IF dailyCache = {} THEN total ELSE CHOOSE v \in dailyCache : TRUE
SeenAfterClose(total) == total

(* The row is closed but the trade stays in _open. *)
CommitKeepsTrade(k, s) ==
    \E result \in Results :
        /\ k[2] \in OpenRows
        /\ row' = [row EXCEPT ![k[2]].open = FALSE]
        /\ realised' = realised + result
        /\ exit' = Drop(exit, k)
        /\ closing' = closing \ {k[2]}
        /\ UNCHANGED <<entryVars, dailyCache, open, running, loop, scanTask, stopping, faults>>

(* The rest of _close_trade_once, from a known price and, for a live trade, *)
(* an accepted close order on: the row is closed if it is still open, the   *)
(* trade leaves _open, and a breached loss limit or a lost edge stops the   *)
(* engine before close_trade returns.                                       *)
Commit(k, s) ==
    \E result \in Results, edgeLost \in BOOLEAN :
        LET i     == k[2]
            found == i \in OpenRows
            total == IF found THEN realised + result ELSE realised
            seen  == SeenAfterClose(total)
            halt  == edgeLost \/ (LossLimit > 0 /\ seen <= -LossLimit)
        IN /\ row' = IF found THEN [row EXCEPT ![i].open = FALSE] ELSE row
           /\ realised' = total
           /\ dailyCache' = IF LossLimit > 0 THEN {seen} ELSE {}
           /\ open' = Drop(open, i)
           /\ exit' = Drop(exit, k)
           /\ IF halt
              THEN /\ BeginStop(k, s)
                   /\ closing' = IF k \in DOMAIN stopping' THEN closing \cup {i}
                                                           ELSE closing \ {i}
              ELSE /\ closing' = closing \ {i}
                   /\ UNCHANGED <<running, scanTask, stopping, cancelled>>
           /\ UNCHANGED <<at, target, left, entryLock, loop, faults>>

(* repo.close_trade raised: the trade stays in _open and may be tried again. *)
CommitFailsForgets(k) ==
    /\ faults < MaxFaults
    /\ faults' = faults + 1
    /\ closing' = closing \ {k[2]}
    /\ exit' = Drop(exit, k)
    /\ open' = Drop(open, k[2])
    /\ AbortRound(k)
    /\ UNCHANGED <<entryVars, row, moneyVars, running, scanTask, stopping>>
CommitFails(k) ==
    /\ faults < MaxFaults
    /\ faults' = faults + 1
    /\ closing' = closing \ {k[2]}
    /\ exit' = Drop(exit, k)
    /\ AbortRound(k)
    /\ UNCHANGED <<entryVars, open, row, moneyVars, running, scanTask, stopping>>

(* A price is known for trade t: close a paper trade at once, send the      *)
(* close order of a live one.                                               *)
SettleUnordered(k, t) == Commit(k, t.symbol) \/ CommitFails(k)
Settle(k, t) ==
    IF t.live
    THEN /\ exit' = Put(exit, k, [phase |-> "order", symbol |-> t.symbol, live |-> TRUE])
         /\ closing' = closing \cup {k[2]}
         /\ UNCHANGED <<entryVars, open, row, moneyVars, running, loop, scanTask, stopping,
                        faults>>
    ELSE Commit(k, t.symbol) \/ CommitFails(k)

(* close_trade's first line: one exit per managed trade at a time *)
MayExitTwice(i) == i \in DOMAIN open
MayExit(i) == i \in DOMAIN open /\ i \notin closing

(* close_trade: refused unless the trade is managed and no other exit of it *)
(* is in flight.  A fresh quote is used at once, otherwise the exit awaits  *)
(* the price source.                                                        *)
CloseTrade(k) ==
    LET i == k[2] IN
    /\ MayExit(i)
    /\ IF TickFeed /\ ~Stale(open[i].symbol)
       THEN Settle(k, open[i])
       ELSE /\ exit' = Put(exit, k, [phase |-> "price", symbol |-> open[i].symbol,
                                     live |-> open[i].live])
            /\ closing' = closing \cup {i}
            /\ UNCHANGED <<entryVars, open, row, moneyVars, running, loop, scanTask,
                           stopping, faults>>

(* The price source answered an exit. *)
ExitPriced(k) ==
    /\ k \in DOMAIN exit /\ exit[k].phase = "price"
    /\ ~Stale(exit[k].symbol)
    /\ Settle(k, exit[k])
    /\ RoundAfter(round)
    /\ UNCHANGED <<closeOrders, dataVars, cap, stray>>

(* No usable price: close_trade returns None, or raises after a timeout. *)
ExitGivesUp(k) ==
    /\ k \in DOMAIN exit /\ exit[k].phase = "price"
    /\ exit' = Drop(exit, k)
    /\ closing' = closing \ {k[2]}
    /\ AbortRound(k) \/ UNCHANGED loop
    /\ RoundAfter(round)
    /\ UNCHANGED <<entryVars, closeOrders, running, scanTask, stopping, dataVars,
                   moneyVars, cap, open, row, stray, faults>>

(* The exchange accepted the close order and the reply arrived. *)
CloseOrdered(k) ==
    /\ k \in DOMAIN exit /\ exit[k].phase = "order"
    /\ closeOrders' = [closeOrders EXCEPT ![k[2]] = @ + 1]
    /\ Commit(k, exit[k].symbol) \/ CommitFails(k)
    /\ RoundAfter(round)
    /\ UNCHANGED <<dataVars, cap, stray>>

(* The gateway raised: the order was refused, or accepted with the reply    *)
(* lost.  Either way the trade stays managed.                               *)
CloseOrderFails(k) ==
    /\ k \in DOMAIN exit /\ exit[k].phase = "order"
    /\ \/ UNCHANGED <<closeOrders, faults>>
       \/ /\ faults < MaxFaults
          /\ faults' = faults + 1
          /\ closeOrders' = [closeOrders EXCEPT ![k[2]] = @ + 1]
    /\ exit' = Drop(exit, k)
    /\ closing' = closing \ {k[2]}
    /\ AbortRound(k)
    /\ RoundAfter(round)
    /\ UNCHANGED <<entryVars, running, scanTask, stopping, dataVars, moneyVars,
                   cap, open, row, stray>>

ExitStep(k) ==
    ExitPriced(k) \/ ExitGivesUp(k) \/ CloseOrdered(k) \/ CloseOrderFails(k)

(* The user closes one trade. *)
UserCloses(i) ==
    /\ CloseTrade(<<"user", i>>)
    /\ UNCHANGED round
    /\ UNCHANGED <<closeOrders, dataVars, cap, stray>>

(* The emergency button (and close_all): the trades one after the other. *)
PanicExits == {k \in DOMAIN exit \cup DOMAIN stopping : k[1] = "panic"}
PanicCloses(i) ==
    /\ PanicExits = {}
    /\ CloseTrade(<<"panic", i>>)
    /\ UNCHANGED round
    /\ UNCHANGED <<closeOrders, dataVars, cap, stray>>

(* Pressed again, the button replaces the coroutine of the first press: the *)
(* exit it was suspended in is cancelled, and a close order on its way may  *)
(* be accepted without anybody waiting.  A cancelled stop() cancels the     *)
(* scan it awaits once more.                                                *)
PanicAgain ==
    \E k \in PanicExits :
        /\ closeOrders[k[2]] < MaxPresses
        /\ exit' = Drop(exit, k)
        /\ stopping' = Drop(stopping, k)
        /\ closing' = closing \ {k[2]}
        /\ cancelled' = cancelled \cup
                {e \in ScanTask : k \in DOMAIN stopping /\ e = stopping[k].scan
                                 /\ at[e] # "idle"}
        /\ \/ UNCHANGED closeOrders
           \/ /\ k \in DOMAIN exit /\ exit[k].phase = "order"
              /\ closeOrders' = [closeOrders EXCEPT ![k[2]] = @ + 1]
        /\ UNCHANGED <<at, target, left, entryLock, running, loop, round, scanTask,
                       dataVars, moneyVars, cap, open, row, stray, faults>>

-----------------------------------------------------------------------------
(* Ticks *)

(* A tick makes its symbol fresh; if a trade of the symbol is managed, one  *)
(* check is scheduled unless one already is.                                *)
Tick(s) ==
    /\ TickFeed
    /\ fresh' = fresh \cup {s}
    /\ pending' = IF Managed(s) THEN pending \cup {s} ELSE pending
    /\ UNCHANGED <<entryVars, exitVars, loopVars, moneyVars, cap, open, row, stray, faults>>

(* No tick for stale_after_seconds. *)
GoStale(s) ==
    /\ TickFeed /\ s \in fresh
    /\ fresh' = fresh \ {s}
    /\ UNCHANGED <<entryVars, exitVars, loopVars, pending, moneyVars, cap, open, row,
                   stray, faults>>

TickExits(s) == {k \in DOMAIN exit : k[1] = "tick" /\ exit[k].symbol = s}
                \cup {k \in DOMAIN stopping : k[1] = "tick" /\ stopping[k].symbol = s}

(* check_symbol: a trade of the symbol has reached an exit level. *)
TickCloses(i) ==
    /\ i \in DOMAIN open
    /\ open[i].symbol \in pending
    /\ TickExits(open[i].symbol) = {}
    /\ CloseTrade(<<"tick", i>>)
    /\ UNCHANGED round
    /\ UNCHANGED <<closeOrders, dataVars, cap, stray>>

(* check_symbol is through with the trades of the symbol. *)
TickChecked(s) ==
    /\ s \in pending
    /\ TickExits(s) = {}
    /\ pending' = pending \ {s}
    /\ UNCHANGED <<entryVars, exitVars, loopVars, fresh, moneyVars, cap, open, row,
                   stray, faults>>

-----------------------------------------------------------------------------
(* The loop *)

(* `while self._running or self._open' *)
LoopRunsOnlyWhileOn == running
LoopGoesOn == running \/ open # <<>>

(* A round of check_open_trades begins with the trades managed now. *)
BeginRound ==
    /\ loop = "sleep"
    /\ LoopGoesOn
    /\ loop' = "check"
    /\ round' = DOMAIN open
    /\ UNCHANGED <<entryVars, exitVars, running, scanTask, stopping, dataVars, moneyVars,
                   cap, open, row, stray, faults>>

(* The engine is off and manages nothing: the loop ends. *)
EndLoop ==
    /\ loop = "sleep"
    /\ ~LoopGoesOn
    /\ loop' = "off"
    /\ UNCHANGED <<entryVars, exitVars, running, round, scanTask, stopping, dataVars,
                   moneyVars, cap, open, row, stray, faults>>

(* The round finds a trade at an exit level or past its holding time, with a *)
(* usable price, or invalidated, whatever its price, and closes it.         *)
RoundCloses(i) ==
    /\ loop = "check" /\ i \in round /\ i \in DOMAIN open
    /\ CloseTrade(<<"loop", i>>)
    /\ RoundAfter(round \ {i})
    /\ UNCHANGED <<closeOrders, dataVars, cap, stray>>

(* The round leaves a trade alone: no exit level, no price, already gone or *)
(* already being closed.                                                    *)
RoundPasses(i) ==
    /\ loop = "check" /\ i \in round
    /\ round' = round \ {i}
    /\ UNCHANGED <<entryVars, exitVars, running, loop, scanTask, stopping, dataVars,
                   moneyVars, cap, open, row, stray, faults>>

(* The price a round asks the exchange for arrives and refreshes the quote. *)
RoundRefreshes(i) ==
    /\ loop = "check" /\ i \in round /\ i \in DOMAIN open
    /\ Stale(open[i].symbol)
    /\ Tick(open[i].symbol)

LoopExits == {k \in DOMAIN exit \cup DOMAIN stopping : k[1] = "loop"}

(* The round is over: a new scan starts when the engine runs, the previous  *)
(* one it refers to is done, there is room, the loss limit allows it and    *)
(* the scan interval has passed; then the loop sleeps.                      *)
EndRound ==
    /\ loop = "check" /\ round = {} /\ LoopExits = {}
    /\ loop' = "sleep"
    /\ \/ \E e \in ScanTask :
            /\ running
            /\ ~ScanAlive
            /\ Cardinality(DOMAIN open) < cap
            /\ WithinLimit /\ LookAtLimit
            /\ at[e] = "idle" /\ \A k \in DOMAIN stopping : stopping[k].scan # e
            /\ at' = [at EXCEPT ![e] = "source"]
            /\ scanTask' = e
       \/ UNCHANGED <<at, scanTask, dailyCache>>
    /\ UNCHANGED <<target, left, cancelled, entryLock, exitVars, running, round, stopping,
                   dataVars, realised, cap, open, row, stray, faults>>

(* start(): preflight looks at the loss limit; a loop is created if the     *)
(* last one has ended.                                                      *)
Start ==
    /\ ~running
    /\ StartDuringStop \/ stopping = <<>>
    /\ WithinLimit /\ LookAtLimit
    /\ running' = TRUE
    /\ loop' = IF loop = "off" THEN "sleep" ELSE loop
    /\ UNCHANGED <<entryVars, exitVars, round, scanTask, stopping, dataVars, realised,
                   cap, open, row, stray, faults>>

(* apply_config: the capacity changes under a running engine. *)
ApplyConfig ==
    /\ cap' \in (1..MaxConcurrent) \ {cap}
    /\ UNCHANGED <<entryVars, exitVars, loopVars, dataVars, moneyVars, open, row,
                   stray, faults>>

-----------------------------------------------------------------------------
(* The rest of the application *)

(* record_paper_trade: a row of the user's own, with no check of its        *)
(* symbol.  One id is left for the entry that may hold the lock.            *)
UserRecords(s) ==
    /\ UserTrades
    /\ NextId < MaxTrades
    /\ row' = Put(row, NextId, [symbol |-> s, live |-> FALSE, auto |-> FALSE, open |-> TRUE])
    /\ UNCHANGED <<entryVars, exitVars, loopVars, dataVars, moneyVars, cap, open,
                   stray, faults>>

(* The trade monitor, or close_paper_position, closes a paper row that the  *)
(* engine does not manage.  The engine's cached figure is not told.         *)
RowCloses(i) ==
    /\ i \in OpenRows \ DOMAIN open
    /\ ~row[i].live
    /\ row' = [row EXCEPT ![i].open = FALSE]
    /\ \E result \in Results : realised' = realised + result
    /\ UNCHANGED <<entryVars, exitVars, loopVars, dataVars, dailyCache, cap, open,
                   stray, faults>>

(* clear_history: all rows go, those of managed trades included, and with   *)
(* them the day's result.                                                   *)
ClearHistory ==
    /\ MayClear /\ row # <<>>
    /\ row' = <<>>
    /\ realised' = 0
    /\ UNCHANGED <<entryVars, exitVars, loopVars, dataVars, dailyCache, cap, open,
                   stray, faults>>

(* The process dies and is started again: only the table and the exchange   *)
(* survive.  Live positions, and orders on their way, have lost their       *)
(* engine.                                                                  *)
Restart ==
    /\ MayRestart
    /\ running' = FALSE /\ loop' = "off" /\ round' = {}
    /\ scanTask' = None /\ stopping' = <<>>
    /\ at' = [e \in Entry |-> "idle"]
    /\ target' = [e \in Entry |-> None]
    /\ left' = [e \in ScanTask |-> {}]
    /\ cancelled' = {} /\ entryLock' = None
    /\ open' = <<>> /\ closing' = {} /\ exit' = <<>>
    /\ dailyCache' = {}
    /\ fresh' = IF TickFeed THEN {} ELSE Symbol
    /\ pending' = {}
    /\ \E filled \in SUBSET {target[e] : e \in {x \in Entry : at[x] = "order"}} :
         stray' = stray \cup filled
                  \cup {open[i].symbol :
                          i \in {j \in DOMAIN open : open[j].live /\ closeOrders[j] = 0}}
    /\ UNCHANGED <<cap, row, realised, closeOrders, faults>>

-----------------------------------------------------------------------------
Next ==
    \/ \E e \in Manual, s \in Symbol : ManualEntry(e, s)
    \/ \E e \in Entry : EntryStep(e)
    \/ \E e \in ScanTask : ScanStep(e)
    \/ \E k \in ExitKey : ExitStep(k)
    \/ \E i \in Id : UserCloses(i) \/ PanicCloses(i) \/ TickCloses(i) \/ RoundCloses(i)
                     \/ RoundPasses(i) \/ RoundRefreshes(i) \/ RowCloses(i)
    \/ PanicAgain
    \/ \E s \in Symbol : Tick(s) \/ GoStale(s) \/ TickChecked(s) \/ UserRecords(s)
    \/ \E k \in ExitKey \cup {UserStop} : StopReturns(k)
    \/ BeginRound \/ EndRound \/ EndLoop \/ Start \/ Stop
    \/ ApplyConfig \/ CacheExpires \/ NewDay \/ ClearHistory \/ Restart

Spec == Init /\ [][Next]_vars

-----------------------------------------------------------------------------
(* Fairness: the loop, the coroutines and the stop() calls go on; a price   *)
(* request that is made again and again is answered once with a fresh       *)
(* quote, a close order that is sent again and again is accepted once, and  *)
(* a trade that is checked again and again with a usable price is past its  *)
(* holding time at last (should_close returns "timeout").  Neither ticks    *)
(* nor the user nor a gateway that opens positions are expected to act.     *)
Fairness ==
    /\ WF_vars(BeginRound) /\ WF_vars(EndRound)
    /\ \A i \in Id : /\ WF_vars(RoundPasses(i))
                     /\ SF_vars(RoundRefreshes(i))
                     /\ SF_vars(RoundCloses(i) /\ ~Stale(open[i].symbol))
                     /\ WF_vars(\E c \in Caller : ExitStep(<<c, i>>))
                     /\ SF_vars(\E c \in Caller : ExitPriced(<<c, i>>))
                     /\ SF_vars(\E c \in Caller : CloseOrdered(<<c, i>>))
    /\ \A e \in Entry : /\ WF_vars(Refreshed(e) \/ Priced(e) \/ Ordered(e) \/ OrderFails(e))
                        /\ SF_vars(Reject(e) \/ Admit(e))
    /\ \A e \in ScanTask : WF_vars(ScanStep(e))
    /\ WF_vars(\E k \in ExitKey \cup {UserStop} : StopReturns(k))

FairSpec == Spec /\ Fairness

-----------------------------------------------------------------------------
(* Properties *)

LoopType ==
    /\ running \in BOOLEAN
    /\ loop \in {"off", "sleep", "check"}
    /\ round \subseteq Id
    /\ scanTask \in ScanTask \cup {None}
    /\ DOMAIN stopping \subseteq ExitKey \cup {UserStop}
    /\ \A k \in DOMAIN stopping :
          /\ stopping[k].scan \in ScanTask
          /\ stopping[k].symbol \in Symbol \cup {None}

EntryType ==
    /\ at \in [Entry -> {"idle", "source", "pick", "refresh", "lock", "price", "order"}]
    /\ target \in [Entry -> Symbol \cup {None}]
    /\ \A e \in Entry : at[e] \in {"refresh", "lock", "price", "order"} =>
                         target[e] \in Symbol
    /\ left \in [ScanTask -> SUBSET Symbol]
    /\ cancelled \subseteq ScanTask
    /\ entryLock \in Entry \cup {None}

ExitType ==
    /\ closing \subseteq Id
    /\ DOMAIN exit \subseteq ExitKey
    /\ \A k \in DOMAIN exit : exit[k] \in Exit
    /\ closeOrders \in [Id -> Nat]

BookType ==
    /\ DOMAIN open \subseteq Id
    /\ \A i \in DOMAIN open : open[i] \in Position
    /\ DOMAIN row \subseteq Id
    /\ \A i \in DOMAIN row : row[i] \in Row

OtherType ==
    /\ realised \in Int
    /\ dailyCache \subseteq Int
    /\ fresh \subseteq Symbol
    /\ pending \subseteq Symbol
    /\ cap \in 1..MaxConcurrent
    /\ stray \subseteq Symbol
    /\ faults \in 0..MaxFaults

(* Every variable keeps its type, and a coroutine that works on a candidate *)
(* has its symbol.                                                          *)
TypeOK == LoopType /\ EntryType /\ ExitType /\ BookType /\ OtherType

(* The engine never manages two trades of one symbol, whatever manual       *)
(* entries, scans, restarts, failed writes and cleared histories do in      *)
(* between ("never two trades on one symbol", _scan_for_entries).           *)
OneTradePerSymbol ==
    \A i, j \in DOMAIN open : open[i].symbol = open[j].symbol => i = j

(* The table never holds two open rows of one symbol that the engine wrote, *)
(* even across a restart, which empties _open but not the table.            *)
OneAutoRowPerSymbol ==
    \A i, j \in OpenRows :
        row[i].auto /\ row[j].auto /\ row[i].symbol = row[j].symbol => i = j

(* The trades the engine manages never outnumber the largest capacity it    *)
(* was given, although an entry counts them before it awaits its price or   *)
(* its order and registers its trade afterwards.                            *)
CapacityRespected == Cardinality(DOMAIN open) <= MaxConcurrent

(* At most one exit per trade is in flight, whether a tick, the poll loop   *)
(* or the user asked for it (docstring of close_trade).                     *)
SingleExit == \A k, l \in DOMAIN exit : k[2] = l[2] => k = l

(* A position is closed at the exchange once ("single-flight exit for every *)
(* position", docs/RELEASE_2.3.0_FA.md); every further close order answers  *)
(* a lost reply or a failed write of the result of an earlier one.          *)
CloseOrdersExplained == \A i \in Id : closeOrders[i] <= 1 + faults

(* What the engine manages is what the table says is open: the same trade   *)
(* under the same id, for as long as the history is not cleared.            *)
BookMatchesTable ==
    ~MayClear =>
        \A i \in DOMAIN open :
            /\ i \in OpenRows
            /\ row[i] = [symbol |-> open[i].symbol, live |-> open[i].live,
                        auto |-> TRUE, open |-> TRUE]

(* No open row of the engine is left without the engine's protection while  *)
(* the process lives.                                                       *)
RowsProtected ==
    ~MayClear /\ ~MayRestart => \A i \in OpenRows : row[i].auto => i \in DOMAIN open

(* No live row is recorded as closed unless the exchange accepted a close   *)
(* order for it.                                                            *)
ClosedMeansOrdered ==
    ~MayClear => \A i \in DOMAIN row \ OpenRows : row[i].live => closeOrders[i] > 0

(* "An independent and unique scan task" (docs/RELEASE_2.3.0_FA.md). *)
UniqueScan == Cardinality({e \in ScanTask : at[e] # "idle"}) <= 1

(* Once stop() has returned, no scan is left that could open a trade. *)
StoppedMeansNoScan ==
    ~running /\ stopping = <<>> => \A e \in ScanTask : at[e] = "idle"

(* No position is left at the exchange that neither a managed trade nor an  *)
(* entry in flight accounts for.                                            *)
NoStrayPosition == stray = {}

(* The close that takes the day's result to the loss limit also switches    *)
(* automatic entries off, before any other coroutine runs.                  *)
LossLimitHalts ==
    [][ LossLimit > 0 /\ realised' <= -LossLimit
        /\ (\E i \in OpenRows \cap DOMAIN open : i \notin OpenRows') => ~running' ]_vars

(* No entry is admitted once the table's result has reached the loss limit, *)
(* as long as only the engine closes rows: its cached figure is then never  *)
(* better than the truth.                                                   *)
AdmissionWithinLimit ==
    [][ LossLimit > 0 /\ realised <= -LossLimit /\ ~UserTrades /\ ~MayClear /\ ~MayRestart =>
        \A e \in Entry :
            at[e] = "lock" => /\ at'[e] \notin {"price", "order"}
                              /\ at'[e] = "lock" \/ DOMAIN open' \subseteq DOMAIN open ]_vars

(* Every trade the engine manages is closed at last, also after stop(). *)
TradesClose == \A i \in Id : i \in DOMAIN open ~> i \notin DOMAIN open

(* Every stop() of the user returns. *)
StopEnds == UserStop \in DOMAIN stopping ~> UserStop \notin DOMAIN stopping

(* Every manual entry gets an answer. *)
EntriesAnswered == \A e \in Manual : at[e] # "idle" ~> at[e] = "idle"

-----------------------------------------------------------------------------
(* What the engine promises about its trades, as a machine of its own: the  *)
(* trades are the managed ones, and an entry is admitted from the moment    *)
(* its guards passed to the moment its trade is registered or given up.     *)
Waiting == {e \in Entry : at[e] \in {"price", "order"}}

Ledger == INSTANCE TradeLedger
            WITH book  <- [i \in DOMAIN open |-> open[i].symbol],
                 claim <- {target[e] : e \in Waiting}

(* The engine implements the ledger: no interleaving of entries, exits,     *)
(* cancellations, failures and restarts enters a trade that was not         *)
(* admitted, or admits one beside another.                                  *)
KeepsLedger == Ledger!Spec
=============================================================================
