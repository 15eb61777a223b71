--------------------------- MODULE ExchangeSwitch ---------------------------
(***************************************************************************)
(* The change of the exchange while the program runs.  The interface       *)
(* thread looks at the engine of the automatic trader, at its pending      *)
(* commands and at the open trades, and submits the switch; on the network *)
(* thread the supervisor and the price feed are stopped, the engine of the *)
(* new exchange is started and the old one closed; back on the interface   *)
(* thread everything that belongs to the old exchange is forgotten and a   *)
(* new feed is started.  A switch submitted meanwhile replaces the one     *)
(* under way: that one's outcome is no longer told, and its coroutine is   *)
(* cancelled wherever it stands by then.                                   *)
(***************************************************************************)
EXTENDS Naturals, FiniteSets

CONSTANTS
    Exchanges,
    Trades,        \* bound: names of trades
    MaxSwitches    \* bound: switches submitted

\* What the constants must satisfy.
SwitchAssumption == MaxSwitches \in Nat

VARIABLES
    market,      \* the exchange of the market data engine
    feed,        \* the exchange the live feed is bound to
    running,     \* is the feed running, and its supervisor?
    unheard,     \* was the market replaced since a switch was last heard to be done?
    pc, target,  \* each switch, and the exchange it is to
    holders,     \* the switches that hold the present feed, and not an older one
    doomed,      \* those whose cancellation is asked for, but not delivered
    submitted,   \* the number of the newest switch
    switching,   \* _exchange_switching
    engine,      \* the exchange of _auto_trader_engine
    admits,      \* its is_running
    keys,        \* the commands for a trader that are pending
    scanning,    \* is a scan of it under way?
    open         \* the open trades, and whether that engine opened them

switchVars == <<market, feed, running, unheard, pc, target, holders, doomed, submitted, switching,
                engine, admits, keys, scanning, open>>
feedVars   == <<market, feed, running, unheard, holders>>
queueVars  == <<target, doomed, submitted>>
traderVars == <<engine, admits, keys, scanning, open>>
exchange   == <<feedVars, pc, queueVars, switching>>

-----------------------------------------------------------------------------
Switches   == 1..MaxSwitches
NoEngine   == "none"
Active     == {"queued", "stopping", "starting", "closing"}
Told       == {"done", "failed"}
Under      == \E s \in Switches : pc[s] \in Active \cup Told
OpenTrades == {t \in Trades : open[t] # "closed"}

\* Variant: the pending commands are not looked at.
LockedByEngine == admits \/ OpenTrades # {}

\* The guards of apply_exchange_switch: a pending command of the automatic
\* trader, its engine running, an open trade.
Locked == keys # {} \/ admits \/ OpenTrades # {}

\* apply_exchange_switch, for an exchange that is not the active one.  The one
\* under way is asked to cancel.
Apply(x) ==
    /\ x # market /\ ~Locked
    /\ submitted < MaxSwitches /\ submitted' = submitted + 1
    /\ pc' = [pc EXCEPT ![submitted'] = "queued"]
    /\ target' = [target EXCEPT ![submitted'] = x]
    /\ doomed' = doomed \cup {s \in Switches : s = submitted /\ pc[s] \in Active}
    /\ switching' = TRUE
    /\ UNCHANGED <<feedVars, traderVars>>

\* The outcome of a switch, told unless it was replaced.
Tells(s, what) == pc' = [pc EXCEPT ![s] = IF s = submitted THEN what ELSE "over"]

\* The first step on the network thread.  The cancellation of the one before
\* was handed to the loop earlier, and is delivered earlier.
Begin(s) ==
    /\ pc[s] = "queued" /\ doomed = {}
    /\ pc' = [pc EXCEPT ![s] = "stopping"]
    /\ holders' = holders \cup {s}
    /\ UNCHANGED <<market, feed, running, unheard, queueVars, switching, traderVars>>

\* The cancellation is delivered.  One that has not begun never does; the stops
\* of the supervisor, of the feed and of a provider swallow it; elsewhere the
\* switch ends on the spot, since its except clause catches errors only.
Cancelled(s) ==
    /\ s \in doomed /\ doomed' = doomed \ {s}
    /\ \/ pc[s] \in {"queued", "starting", "closing"} /\ pc' = [pc EXCEPT ![s] = "over"]
       \/ pc[s] \in {"stopping", "closing", "over"} /\ UNCHANGED pc
    /\ UNCHANGED <<feedVars, target, submitted, switching, traderVars>>

\* The supervisor and the feed have stopped; those that wait for the same feed
\* go on in their order.  By now the exchange may be the active one.
StopFeed(s) ==
    /\ pc[s] = "stopping"
    /\ \A r \in holders : r < s => pc[r] # "stopping"
    /\ running' = (running /\ s \notin holders)
    /\ IF market = target[s] THEN Tells(s, "done") ELSE pc' = [pc EXCEPT ![s] = "starting"]
    /\ UNCHANGED <<market, feed, unheard, holders, queueVars, switching, traderVars>>

\* switch_exchange: the new engine is started, and becomes the program's.
StartEngine(s) ==
    /\ pc[s] = "starting"
    /\ pc' = [pc EXCEPT ![s] = "closing"]
    /\ market' = target[s] /\ unheard' = TRUE
    /\ UNCHANGED <<feed, running, holders, queueVars, switching, traderVars>>

\* Variant: after a failure the feed is left as it is.
FailsAndLeaves(s) ==
    /\ pc[s] \in {"starting", "closing"}
    /\ Tells(s, "failed")
    /\ UNCHANGED <<feedVars, queueVars, switching, traderVars>>

\* The engine cannot be built or started, or the error comes after it has become
\* the program's, from what is wired to it or from the write of the setting:
\* in any case the feed this switch found is started again.
Fails(s) ==
    /\ pc[s] \in {"starting", "closing"}
    /\ Tells(s, "failed")
    /\ running' = (running \/ s \in holders)
    /\ UNCHANGED <<market, feed, unheard, holders, queueVars, switching, traderVars>>

\* The engine of the old exchange is closed, and the setting is written.
CloseOld(s) ==
    /\ pc[s] = "closing"
    /\ Tells(s, "done")
    /\ UNCHANGED <<feedVars, queueVars, switching, traderVars>>

\* The oldest outcome on its way reaches the interface thread.
Hear(s, what) ==
    /\ pc[s] = what /\ \A r \in Switches : r < s => pc[r] \notin Told
    /\ pc' = [pc EXCEPT ![s] = "over"]
    /\ switching' = FALSE

\* A new feed, with its supervisor, is bound to the market that is active by now.
NewFeed == /\ feed' = market /\ running' = TRUE
           /\ unheard' = FALSE /\ holders' = {}

\* Variant: the trader's engine is kept.
DoneKeeps(s) ==
    /\ Hear(s, "done") /\ NewFeed
    /\ UNCHANGED <<market, queueVars, traderVars>>

\* done: the engine of the trader is forgotten, whatever it is doing.
Done(s) ==
    /\ Hear(s, "done") /\ NewFeed
    /\ engine' = NoEngine /\ admits' = FALSE /\ scanning' = FALSE
    /\ open' = [t \in Trades |-> IF open[t] = "engine" THEN "other" ELSE open[t]]
    /\ UNCHANGED <<market, queueVars, keys>>

\* Variant: the failure is shown, and no more.
FailedOnlyShown(s) ==
    /\ pc[s] = "failed"
    /\ pc' = [pc EXCEPT ![s] = "over"]
    /\ UNCHANGED <<feedVars, queueVars, switching, traderVars>>

Failed(s) == Hear(s, "failed") /\ UNCHANGED <<feedVars, queueVars, traderVars>>

-----------------------------------------------------------------------------
(* The automatic trader and the trades.                                    *)

\* toggle_auto_trading and on_opportunity_enter: not during a switch, on an
\* engine bound to the market when there is none yet.
Submits(key) ==
    /\ key \notin keys /\ ~switching
    /\ keys' = keys \cup {key}
    /\ engine' = IF engine = NoEngine THEN market ELSE engine
    /\ UNCHANGED <<exchange, admits, scanning, open>>

\* start() has started the trader, or refused.
Starts ==
    /\ "start" \in keys /\ keys' = keys \ {"start"}
    /\ admits' \in {admits, engine # NoEngine}
    /\ UNCHANGED <<exchange, engine, scanning, open>>

\* A scan begins, and ends.
Scans ==
    /\ scanning' = ~scanning /\ (admits \/ scanning)
    /\ UNCHANGED <<exchange, engine, admits, keys, open>>

\* The entry the user asked for ends.
Enters ==
    /\ "enter" \in keys /\ keys' = keys \ {"enter"}
    /\ UNCHANGED <<exchange, engine, admits, scanning, open>>

\* The user stops the trader ...
StopSubmits ==
    /\ engine # NoEngine /\ keys \cap {"stop", "stopping"} = {}
    /\ keys' = keys \cup {"stop"}
    /\ UNCHANGED <<exchange, engine, admits, scanning, open>>

\* ... which admits nothing more at once ...
Stops ==
    /\ "stop" \in keys /\ keys' = (keys \ {"stop"}) \cup {"stopping"}
    /\ admits' = FALSE
    /\ UNCHANGED <<exchange, engine, scanning, open>>

\* ... and has stopped when its scan has ended, unless it was started again.
StopReturns ==
    /\ "stopping" \in keys /\ (scanning => admits)
    /\ keys' = keys \ {"stopping"}
    /\ UNCHANGED <<exchange, engine, admits, scanning, open>>

Opens(t, whose) == open[t] = "closed" /\ open' = [open EXCEPT ![t] = whose]

\* open_trade, for a scan or for the user: neither looks at is_running again.
EngineOpens(t) ==
    /\ engine # NoEngine /\ (scanning \/ "enter" \in keys)
    /\ Opens(t, "engine")
    /\ UNCHANGED <<exchange, engine, admits, keys, scanning>>

\* record_paper_trade looks at nothing, and no more does an engine that was
\* forgotten while it was at work.
OthersOpen(t) ==
    /\ Opens(t, "other")
    /\ UNCHANGED <<exchange, engine, admits, keys, scanning>>

\* A trade ends; at the loss limit the engine stops, without a command.
Closes(t) ==
    /\ open[t] # "closed" /\ open' = [open EXCEPT ![t] = "closed"]
    /\ admits' \in {admits} \cup {a \in {FALSE} : open[t] = "engine"}
    /\ UNCHANGED <<exchange, engine, keys, scanning>>

-----------------------------------------------------------------------------
SwitchInit ==
    /\ market \in Exchanges /\ feed = market /\ running = TRUE /\ unheard = FALSE
    /\ pc = [s \in Switches |-> "none"] /\ target = [s \in Switches |-> market]
    /\ holders = {} /\ doomed = {} /\ submitted = 0 /\ switching = FALSE
    /\ engine = NoEngine /\ admits = FALSE /\ keys = {} /\ scanning = FALSE
    /\ open = [t \in Trades |-> "closed"]

\* The steps of a switch on the network thread.
Advances(s) ==
    \/ Begin(s) \/ Cancelled(s) \/ StopFeed(s) \/ StartEngine(s) \/ Fails(s) \/ CloseOld(s)

SwitchNext ==
    \/ \E x \in Exchanges : Apply(x)
    \/ \E s \in Switches : Advances(s) \/ Done(s) \/ Failed(s)
    \/ \E key \in {"start", "enter"} : Submits(key)
    \/ Starts \/ Scans \/ Enters \/ StopSubmits \/ Stops \/ StopReturns
    \/ \E t \in Trades : EngineOpens(t) \/ OthersOpen(t) \/ Closes(t)

SwitchSpec == SwitchInit /\ [][SwitchNext]_switchVars

\* Neither thread stops in the middle of a switch, and every request ends.
SwitchFairness ==
    \A s \in Switches : WF_switchVars(Advances(s)) /\ WF_switchVars(Done(s) \/ Failed(s))

-----------------------------------------------------------------------------
(* Properties.                                                             *)

\* Every variable keeps its type.
SwitchTypeOK ==
    /\ {market, feed} \subseteq Exchanges
    /\ {running, unheard, switching, admits, scanning} \subseteq BOOLEAN
    /\ pc \in [Switches -> Active \cup Told \cup {"none", "over"}]
    /\ target \in [Switches -> Exchanges]
    /\ holders \subseteq Switches /\ doomed \subseteq Switches
    /\ submitted \in 0..MaxSwitches
    /\ engine \in Exchanges \cup {NoEngine}
    /\ keys \subseteq {"start", "enter", "stop", "stopping"}
    /\ open \in [Trades -> {"closed", "engine", "other"}]

\* When no switch is under way, and none has replaced the market unheard, the
\* prices come from the active exchange: the feed runs and is bound to it, however
\* switches failed, replaced and cancelled one another (the program is never left
\* without data, switch_exchange).
FeedFollowsMarket == ~Under /\ ~unheard => running /\ feed = market

\* The trader works on the active exchange, when none has replaced it unheard
\* (the engine is forgotten when a switch is done, apply_exchange_switch).
TraderFollowsMarket == ~unheard => engine \in {NoEngine, market}

\* A switch comes to its end, and the commands it locked are free again.
SwitchEnds == switching ~> ~switching

\* No entry of the trader goes on while the exchange is changed (an entry under
\* way and an active trader block the change, RELEASE_2.3.0_FA.md), but one: that
\* of a scan which outlived the halt of its engine, a thing no guard looks at.
NoEntryDuringSwitch ==
    [][ switching /\ (\E t \in Trades : open[t] = "closed" /\ open'[t] = "engine")
        => scanning /\ ~admits /\ keys \cap {"start", "enter"} = {} ]_switchVars
=============================================================================
