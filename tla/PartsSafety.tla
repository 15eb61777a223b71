---------------------------- MODULE PartsSafety ----------------------------
(***************************************************************************)
(* The parts around the automatic trader, for one run of their safety      *)
(* properties.  They share no variable, so that their product shows        *)
(* nothing the parts do not: an execution is one of one part, chosen at    *)
(* the start, while the others rest.                                       *)
(***************************************************************************)
EXTENDS Naturals, Sequences

CONSTANTS
    MaxTime, MaxLate, Skews, MaxClockSteps, Samples, Tolerance, MaxAhead, StaleAfter,
    BookLife, MaxBookAge, StreamStamps,
    Symbols, Clients, MaxStreamed, MaxReplace,
    Callers, Bulk, Conns, MaxVersion,
    Ids, Whole, Staged, EngineModes, ClearBusy, MaxRestarts,
    MaxSubmits, Keys, NoKey,
    FailureTolerance,
    Exchanges, Trades, MaxSwitches,
    SignalIds, Unlisted, Batch, Singles, Day, Life,
    Convs, MaxTurns, Rounds, Providers

VARIABLES
    part,   \* the part that runs
    now, skew, steps, samples, offset, quote,
    held, streamed, watch, explicit, socket, tickers, subs, line, again, server, call, replaced,
    exchange, calls, inflight, waits, cache, stored, at, live, answer, overtaken,
    rows, managed, entering, round, seen, manual, price, fresh, raced, restarts,
    task, keyOf, cancelled, active, signals, shown,
    rest, link, heard, told, failures, restAlive, status, poll, polled, ticked, guard, state,
    market, feed, running, unheard, pc, target, holders, doomed, submitted, switching,
    engine, admits, keys, scanning, open,
    path, outcome, waiting, batch,
    current, records, busy, pending, streaming, memory, turns, wire

ticksVars   == <<now, skew, steps, samples, offset, quote>>
streamsVars == <<held, streamed, watch, explicit, socket, tickers, subs, line, again, server, call, replaced>>
candlesVars == <<exchange, calls, inflight, waits, cache, stored, at, live, answer, overtaken>>
monitorVars == <<rows, managed, entering, round, seen, manual, price, fresh, raced, restarts>>
runnerVars  == <<task, keyOf, cancelled, active, signals, shown>>
linksVars   == <<rest, link, heard, told, failures, restAlive, status, poll, polled, ticked, guard, state>>
switchVars  == <<market, feed, running, unheard, pc, target, holders, doomed, submitted, switching,
                 engine, admits, keys, scanning, open>>
resultVars  == <<path, outcome, waiting, batch>>
chatVars    == <<current, records, busy, pending, streaming, memory, turns, wire>>
vars        == <<part, ticksVars, streamsVars, candlesVars, monitorVars, runnerVars, linksVars, switchVars, resultVars, chatVars>>

Ticks   == INSTANCE TickEngine
Streams == INSTANCE Streams
Candles == INSTANCE MarketData
Monitor == INSTANCE TradeMonitor
Runner  == INSTANCE AsyncRunner
Links   == INSTANCE Connectivity
Switch  == INSTANCE ExchangeSwitch
Results == INSTANCE Outcomes
Talk    == INSTANCE Chat WITH streamed <- streaming

ASSUME PartsAssumption ==
    /\ Ticks!TickAssumption /\ Streams!StreamsAssumption /\ Candles!MarketAssumption
    /\ Monitor!MonitorAssumption /\ Runner!RunnerAssumption
    /\ Links!ConnectivityAssumption /\ Switch!SwitchAssumption
    /\ Results!OutcomesAssumption /\ Talk!ChatAssumption

Init ==
    /\ part \in {"ticks", "streams", "candles", "monitor", "runner", "links", "switch", "results", "chat"}
    /\ Ticks!TickInit /\ Streams!StreamsInit /\ Candles!MarketInit /\ Monitor!MonitorInit
    /\ Runner!RunnerInit /\ Links!ConnInit /\ Switch!SwitchInit
    /\ Results!OutcomesInit /\ Talk!ChatInit
    /\ part # "ticks" => skew = CHOOSE x \in Skews : TRUE
    /\ part # "links" => rest
    /\ part # "switch" => market = CHOOSE x \in Exchanges : TRUE
    /\ part # "results" => \A i \in DOMAIN path : path[i] = Results!Entry
    /\ part # "chat" => records = {}

TicksStep ==
    /\ part = "ticks" /\ Ticks!TickNext
    /\ UNCHANGED <<part, streamsVars, candlesVars, monitorVars, runnerVars, linksVars, switchVars, resultVars, chatVars>>

StreamsStep ==
    /\ part = "streams" /\ Streams!StreamsNext
    /\ UNCHANGED <<part, ticksVars, candlesVars, monitorVars, runnerVars, linksVars, switchVars, resultVars, chatVars>>

CandlesStep ==
    /\ part = "candles" /\ Candles!MarketNext
    /\ UNCHANGED <<part, ticksVars, streamsVars, monitorVars, runnerVars, linksVars, switchVars, resultVars, chatVars>>

MonitorStep ==
    /\ part = "monitor" /\ Monitor!MonitorNext
    /\ UNCHANGED <<part, ticksVars, streamsVars, candlesVars, runnerVars, linksVars, switchVars, resultVars, chatVars>>

RunnerStep ==
    /\ part = "runner" /\ Runner!RunnerNext
    /\ UNCHANGED <<part, ticksVars, streamsVars, candlesVars, monitorVars, linksVars, switchVars, resultVars, chatVars>>

LinksStep ==
    /\ part = "links" /\ Links!ConnNext
    /\ UNCHANGED <<part, ticksVars, streamsVars, candlesVars, monitorVars, runnerVars, switchVars, resultVars, chatVars>>

SwitchStep ==
    /\ part = "switch" /\ Switch!SwitchNext
    /\ UNCHANGED <<part, ticksVars, streamsVars, candlesVars, monitorVars, runnerVars, linksVars, resultVars, chatVars>>

ResultsStep ==
    /\ part = "results" /\ Results!OutcomesNext
    /\ UNCHANGED <<part, ticksVars, streamsVars, candlesVars, monitorVars, runnerVars, linksVars, switchVars, chatVars>>

ChatStep ==
    /\ part = "chat" /\ Talk!ChatNext
    /\ UNCHANGED <<part, ticksVars, streamsVars, candlesVars, monitorVars, runnerVars, linksVars, switchVars, resultVars>>

Next ==
    \/ TicksStep \/ StreamsStep \/ CandlesStep \/ MonitorStep
    \/ RunnerStep \/ LinksStep \/ SwitchStep \/ ResultsStep \/ ChatStep

Spec == Init /\ [][Next]_vars

-----------------------------------------------------------------------------
\* Every variable of the part that runs keeps its type.
PartsTypeOK ==
    /\ part = "ticks"   => Ticks!TickTypeOK
    /\ part = "streams" => Streams!StreamsTypeOK
    /\ part = "candles" => Candles!MarketTypeOK
    /\ part = "monitor" => Monitor!MonitorTypeOK
    /\ part = "runner"  => Runner!RunnerTypeOK
    /\ part = "links"   => Links!ConnTypeOK
    /\ part = "switch"  => Switch!SwitchTypeOK
    /\ part = "results" => Results!OutcomesTypeOK
    /\ part = "chat"    => Talk!ChatTypeOK

\* The properties of the parts, under their names.  A quote that is not stale is
\* recent, a book ages, and a price never goes back.
FreshMeansRecent == part = "ticks" => Ticks!FreshMeansRecent /\ Ticks!BookAges
NeverGoesBack    == Ticks!NeverGoesBack

\* The clients agree with the stream, and a connection that is up delivers its
\* symbols.
ClientsAgree == part = "streams" => Streams!ClientsAgree
UpIsServed   == part = "streams" => Streams!UpIsServed

\* Answers never go back, and the live candle is merged into a series that
\* already reaches it.
AnswersAdvance    == Candles!AnswersAdvance
SeriesReachesLive == part = "candles" => Candles!SeriesReachesLive

\* What is sold and what is left is the whole trade; the table is one of staged
\* trades, in which a target is sold once; the engine's trades and live rows are
\* left alone.
SoldOnce         == part = "monitor" => Monitor!SoldOnce
KeepsTrades      == Monitor!KeepsTrades
EachTargetOnce   == part = "monitor" => Monitor!EachTargetOnce
ManagedUntouched == part = "monitor" => Monitor!ManagedUntouched
LiveNotSimulated == part = "monitor" => Monitor!LiveNotSimulated

\* The outcome of newer work is not overwritten by that of older work.
LatestWins == Runner!LatestWins

\* The feed is that of the active exchange, and so is the trader, which opens no
\* trade during a switch that the guards could have seen coming.
FeedFollowsMarket   == part = "switch" => Switch!FeedFollowsMarket
TraderFollowsMarket == part = "switch" => Switch!TraderFollowsMarket
NoEntryDuringSwitch == Switch!NoEntryDuringSwitch

\* A signal whose stop was touched is not counted as won.
TargetMeansNoStop == part = "results" => Results!TargetMeansNoStop

\* The assistant answers in one conversation at a time, with one voice.
MemoryApart == part = "chat" => Talk!MemoryApart
OneVoice    == part = "chat" => Talk!OneVoice
=============================================================================
