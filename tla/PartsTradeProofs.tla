-------------------------- MODULE PartsTradeProofs --------------------------
(***************************************************************************)
(* Theorems about the parts that work on trades: the change of the         *)
(* exchange, the trade monitor beside the engine, and the results of the   *)
(* signals; then what their variables are, and that the table of the       *)
(* monitor implements that of StagedTrades.                                *)
(***************************************************************************)
EXTENDS PartsFeedProofs

(* What the parts assume of the constants. *)
LEMMA TradeAssumptions == Switch!SwitchAssumption /\ Monitor!MonitorAssumption
BY PartsAssumption

(* A step of the whole is a step of each part, or leaves it alone. *)
LEMMA SwitchSteps == [Next]_vars => [Switch!SwitchNext]_(Switch!switchVars)
BY DEF Next, TicksStep, StreamsStep, CandlesStep, MonitorStep, RunnerStep, LinksStep, SwitchStep,
       ResultsStep, ChatStep, vars, switchVars, Switch!switchVars

(* So it is with the trade monitor. *)
LEMMA MonitorSteps == [Next]_vars => [Monitor!MonitorNext]_(Monitor!monVars)
BY DEF Next, TicksStep, StreamsStep, CandlesStep, MonitorStep, RunnerStep, LinksStep, SwitchStep,
       ResultsStep, ChatStep, vars, monitorVars, Monitor!monVars

-----------------------------------------------------------------------------
(* The change of the exchange.  First what its variables are.               *)
SwitchTypes == Switch!SwitchTypeOK

(* The steps of the trader and of the trades. *)
TraderSteps ==
    \/ \E key \in {"start", "enter"} : Switch!Submits(key)
    \/ Switch!Starts \/ Switch!Scans \/ Switch!Enters
    \/ Switch!StopSubmits \/ Switch!Stops \/ Switch!StopReturns
    \/ \E t \in Trades : Switch!EngineOpens(t) \/ Switch!OthersOpen(t) \/ Switch!Closes(t)

(* They leave the switch alone. *)
LEMMA TraderLeavesSwitch ==
    TraderSteps \/ UNCHANGED Switch!switchVars => UNCHANGED Switch!exchange
BY DEF TraderSteps, Switch!Submits, Switch!Starts, Switch!Scans, Switch!Enters,
       Switch!StopSubmits, Switch!Stops, Switch!StopReturns, Switch!EngineOpens,
       Switch!OthersOpen, Switch!Closes, Switch!exchange, Switch!switchVars,
       Switch!feedVars, Switch!queueVars

(* Every step of a switch keeps its types. *)
LEMMA SwitchTypesStep ==
    ASSUME SwitchTypes, [Switch!SwitchNext]_(Switch!switchVars)
    PROVE  SwitchTypes'
<1> USE DEF SwitchTypes, Switch!SwitchTypeOK, Switch!Switches, Switch!Active, Switch!Told
<1>0. MaxSwitches \in Nat
  BY TradeAssumptions DEF Switch!SwitchAssumption
<1>1. ASSUME NEW x \in Exchanges, Switch!Apply(x) PROVE SwitchTypes'
  <2>1. /\ submitted' \in 1..MaxSwitches /\ switching' = TRUE
        /\ pc' = [pc EXCEPT ![submitted'] = "queued"]
        /\ target' = [target EXCEPT ![submitted'] = x]
    BY <1>0, <1>1 DEF Switch!Apply
  <2>2. doomed' \subseteq 1..MaxSwitches
    BY <1>0, <1>1 DEF Switch!Apply
  <2>3. /\ pc' \in [1..MaxSwitches -> Switch!Active \cup Switch!Told \cup {"none", "over"}]
        /\ target' \in [1..MaxSwitches -> Exchanges]
    BY <2>1
  <2> QED BY <1>1, <2>1, <2>2, <2>3 DEF Switch!Apply, Switch!feedVars, Switch!traderVars
<1>2. ASSUME NEW s \in Switch!Switches, Switch!Begin(s) \/ Switch!Cancelled(s)
      PROVE  SwitchTypes'
  BY <1>2 DEF Switch!Begin, Switch!Cancelled, Switch!feedVars, Switch!queueVars, Switch!traderVars
<1>3. ASSUME NEW s \in Switch!Switches, Switch!StopFeed(s) \/ Switch!StartEngine(s)
      PROVE  SwitchTypes'
  <2>1. \E what \in {"starting", "closing", "done", "over"} : pc' = [pc EXCEPT ![s] = what]
    BY <1>3 DEF Switch!StopFeed, Switch!StartEngine, Switch!Tells
  <2>2. pc' \in [1..MaxSwitches -> Switch!Active \cup Switch!Told \cup {"none", "over"}]
    BY <2>1
  <2>3. market' \in Exchanges /\ unheard' \in BOOLEAN
    <3>1. CASE Switch!StopFeed(s)
      BY <3>1 DEF Switch!StopFeed
    <3>2. CASE Switch!StartEngine(s)
      <4>1. market' = target[s] /\ unheard' = TRUE
        BY <3>2 DEF Switch!StartEngine
      <4> QED BY <4>1
    <3> QED BY <1>3, <3>1, <3>2
  <2>4. running' \in BOOLEAN
    BY <1>3 DEF Switch!StopFeed, Switch!StartEngine
  <2>5. /\ UNCHANGED <<feed, holders, switching, target, doomed, submitted>>
        /\ UNCHANGED <<engine, admits, keys, scanning, open>>
    BY <1>3 DEF Switch!StopFeed, Switch!StartEngine, Switch!queueVars, Switch!traderVars
  <2> QED BY <2>2, <2>3, <2>4, <2>5
<1>4. ASSUME NEW s \in Switch!Switches, Switch!Fails(s) \/ Switch!CloseOld(s)
      PROVE  SwitchTypes'
  BY <1>4 DEF Switch!Fails, Switch!CloseOld, Switch!Tells, Switch!feedVars, Switch!queueVars,
              Switch!traderVars
<1>5. ASSUME NEW s \in Switch!Switches, Switch!Done(s) PROVE SwitchTypes'
  <2>1. open' \in [Trades -> {"closed", "engine", "other"}]
    BY <1>5 DEF Switch!Done
  <2> QED BY <1>5, <2>1 DEF Switch!Done, Switch!Hear, Switch!NewFeed, Switch!queueVars
<1>6. ASSUME NEW s \in Switch!Switches, Switch!Failed(s) PROVE SwitchTypes'
  BY <1>6 DEF Switch!Failed, Switch!Hear, Switch!feedVars, Switch!queueVars, Switch!traderVars
<1>7. CASE TraderSteps \/ UNCHANGED Switch!switchVars
  <2>1. UNCHANGED Switch!exchange
    BY <1>7, TraderLeavesSwitch
  <2>2. /\ admits' \in BOOLEAN /\ scanning' \in BOOLEAN
        /\ engine' \in Exchanges \cup {Switch!NoEngine}
        /\ keys' \subseteq {"start", "enter", "stop", "stopping"}
    BY <1>7 DEF TraderSteps, Switch!Submits, Switch!Starts, Switch!Scans, Switch!Enters,
                Switch!StopSubmits, Switch!Stops, Switch!StopReturns, Switch!EngineOpens,
                Switch!OthersOpen, Switch!Closes, Switch!switchVars
  <2>3. open' \in [Trades -> {"closed", "engine", "other"}]
    BY <1>7 DEF TraderSteps, Switch!Submits, Switch!Starts, Switch!Scans, Switch!Enters,
                Switch!StopSubmits, Switch!Stops, Switch!StopReturns, Switch!EngineOpens,
                Switch!OthersOpen, Switch!Closes, Switch!Opens, Switch!switchVars
  <2> QED BY <2>1, <2>2, <2>3 DEF Switch!exchange, Switch!feedVars, Switch!queueVars
<1> QED BY <1>1, <1>2, <1>3, <1>4, <1>5, <1>6, <1>7
        DEF Switch!SwitchNext, Switch!Advances, TraderSteps

(* Initially no switch was submitted. *)
LEMMA SwitchTypesStart == Init => SwitchTypes
<1> SUFFICES ASSUME Init PROVE SwitchTypes
  OBVIOUS
<1>1. Switch!SwitchInit /\ MaxSwitches \in Nat
  BY TradeAssumptions DEF Init, Switch!SwitchAssumption
<1>2. /\ pc \in [Switch!Switches -> {"none"}] /\ target \in [Switch!Switches -> Exchanges]
      /\ open \in [Trades -> {"closed"}]
  BY <1>1 DEF Switch!SwitchInit
<1>3. /\ pc \in [Switch!Switches -> Switch!Active \cup Switch!Told \cup {"none", "over"}]
      /\ open \in [Trades -> {"closed", "engine", "other"}]
  BY <1>2
<1>4. /\ holders \subseteq Switch!Switches /\ doomed \subseteq Switch!Switches
      /\ keys \subseteq {"start", "enter", "stop", "stopping"} /\ submitted \in 0..MaxSwitches
      /\ engine \in Exchanges \cup {Switch!NoEngine}
      /\ {market, feed} \subseteq Exchanges
  BY <1>1 DEF Switch!SwitchInit
<1>5. {running, unheard, switching, admits, scanning} \subseteq BOOLEAN
  BY <1>1 DEF Switch!SwitchInit
<1> QED BY <1>2, <1>3, <1>4, <1>5 DEF SwitchTypes, Switch!SwitchTypeOK

(* The order of the switches.  None has begun that was not submitted; one   *)
(* that has not begun is the newest or is to be cancelled; while a          *)
(* cancellation is on its way, the newest has not begun; and while one that *)
(* holds the present feed is stopping it, the newest has not yet done so.   *)
SwitchOrder ==
    /\ \A s \in Switch!Switches : s > submitted => pc[s] = "none"
    /\ \A s \in Switch!Switches : pc[s] = "queued" => s = submitted \/ s \in doomed
    /\ \A s \in doomed : s < submitted /\ pc[submitted] = "queued"
    /\ \A s \in holders : pc[s] = "stopping" =>
            pc[submitted] = "queued" \/ (submitted \in holders /\ pc[submitted] = "stopping")

(* The switches that have the feed running again when they end, whichever   *)
(* way they end: the newest that has not begun, those that hold the present *)
(* feed, and one whose outcome brings a new feed.                           *)
Restores(s) ==
    \/ s = submitted /\ pc[s] = "queued"
    \/ s \in holders /\ pc[s] \in {"stopping", "starting"}
    \/ pc[s] = "done"

(* Unless the market was replaced unheard, the feed is bound to it, and runs *)
(* or has a switch to restore it.                                           *)
SwitchFeed ==
    /\ unheard \/ feed = market
    /\ unheard \/ running \/ \E s \in Switch!Switches : Restores(s)

SwitchInv == SwitchTypes /\ SwitchOrder /\ SwitchFeed

(* The inductive step of the order, action by action. *)
LEMMA SwitchOrderStep ==
    ASSUME SwitchTypes, SwitchOrder, [Switch!SwitchNext]_(Switch!switchVars)
    PROVE  SwitchOrder'
<1> USE DEF SwitchOrder, Switch!Switches
<1>0. /\ MaxSwitches \in Nat /\ submitted \in 0..MaxSwitches
      /\ pc \in [1..MaxSwitches -> Switch!Active \cup Switch!Told \cup {"none", "over"}]
      /\ holders \subseteq 1..MaxSwitches /\ doomed \subseteq 1..MaxSwitches
  BY TradeAssumptions DEF Switch!SwitchAssumption, SwitchTypes, Switch!SwitchTypeOK
<1>1. ASSUME NEW x \in Exchanges, Switch!Apply(x) PROVE SwitchOrder'
  <2>1. /\ submitted' = submitted + 1 /\ submitted' \in 1..MaxSwitches /\ holders' = holders
        /\ pc' = [pc EXCEPT ![submitted'] = "queued"]
        /\ doomed' = doomed \cup {s \in 1..MaxSwitches : s = submitted /\ pc[s] \in Switch!Active}
    BY <1>0, <1>1 DEF Switch!Apply, Switch!feedVars
  <2>2. pc'[submitted'] = "queued" /\ \A s \in 1..MaxSwitches : s # submitted' => pc'[s] = pc[s]
    BY <1>0, <2>1
  <2> QED BY <1>0, <2>1, <2>2 DEF Switch!Active
<1>2. ASSUME NEW s \in Switch!Switches, Switch!Begin(s) PROVE SwitchOrder'
  BY <1>0, <1>2 DEF Switch!Begin, Switch!queueVars
<1>3. ASSUME NEW s \in Switch!Switches, Switch!Cancelled(s) PROVE SwitchOrder'
  <2>1. s \in doomed /\ s # submitted /\ pc[submitted] = "queued" /\ submitted \in 1..MaxSwitches
    BY <1>0, <1>3 DEF Switch!Cancelled
  <2>2. /\ doomed' = doomed \ {s} /\ UNCHANGED <<holders, submitted>>
        /\ \A r \in 1..MaxSwitches : r # s => pc'[r] = pc[r]
        /\ pc'[s] # "queued" /\ (pc[s] = "none" => pc'[s] = "none")
    BY <1>0, <1>3 DEF Switch!Cancelled, Switch!feedVars
  <2> QED BY <1>0, <2>1, <2>2
<1>4. ASSUME NEW s \in Switch!Switches, Switch!StopFeed(s) PROVE SwitchOrder'
  <2>1. /\ pc[s] = "stopping" /\ pc'[s] \notin {"queued", "stopping"}
        /\ \A r \in 1..MaxSwitches : r # s => pc'[r] = pc[r]
        /\ \A r \in holders : r < s => pc[r] # "stopping"
        /\ UNCHANGED <<holders, doomed, submitted>>
    BY <1>0, <1>4 DEF Switch!StopFeed, Switch!Tells, Switch!queueVars
  <2> QED BY <1>0, <2>1
<1>5. ASSUME NEW s \in Switch!Switches,
             Switch!StartEngine(s) \/ Switch!Fails(s) \/ Switch!CloseOld(s)
      PROVE  SwitchOrder'
  <2>1. /\ pc[s] \in {"starting", "closing"} /\ pc'[s] \notin {"queued", "stopping"}
        /\ \A r \in 1..MaxSwitches : r # s => pc'[r] = pc[r]
        /\ UNCHANGED <<holders, doomed, submitted>>
    BY <1>0, <1>5 DEF Switch!StartEngine, Switch!Fails, Switch!CloseOld, Switch!Tells,
                      Switch!queueVars, Switch!feedVars
  <2> QED BY <1>0, <2>1
<1>6. ASSUME NEW s \in Switch!Switches, Switch!Done(s) \/ Switch!Failed(s) PROVE SwitchOrder'
  <2>1. /\ pc[s] \in {"done", "failed"} /\ pc'[s] = "over"
        /\ \A r \in 1..MaxSwitches : r # s => pc'[r] = pc[r]
        /\ UNCHANGED <<doomed, submitted>>
    BY <1>0, <1>6 DEF Switch!Done, Switch!Failed, Switch!Hear, Switch!queueVars
  <2>2. holders' = {} \/ holders' = holders
    BY <1>6 DEF Switch!Done, Switch!Failed, Switch!NewFeed, Switch!feedVars
  <2>3. CASE holders' = {}
    BY <1>0, <2>1, <2>3
  <2>4. CASE holders' = holders
    BY <1>0, <2>1, <2>4
  <2> QED BY <2>2, <2>3, <2>4
<1>7. CASE TraderSteps \/ UNCHANGED Switch!switchVars
  BY <1>7, TraderLeavesSwitch DEF Switch!exchange, Switch!feedVars, Switch!queueVars
<1> QED BY <1>1, <1>2, <1>3, <1>4, <1>5, <1>6, <1>7
        DEF Switch!SwitchNext, Switch!Advances, TraderSteps

(* A step keeps what restores the feed, if it stops no feed and if each      *)
(* switch that was to restore it still is, or has done so.                  *)
LEMMA RestoresStay ==
    ASSUME UNCHANGED <<market, feed, unheard>>, running => running', SwitchFeed,
           \A r \in Switch!Switches : Restores(r) => running' \/ Restores(r)'
    PROVE  SwitchFeed'
BY DEF SwitchFeed

(* The inductive step of the feed. *)
LEMMA SwitchFeedStep ==
    ASSUME SwitchTypes, SwitchOrder, SwitchFeed, [Switch!SwitchNext]_(Switch!switchVars)
    PROVE  SwitchFeed'
<1> USE DEF Switch!Switches
<1>0. /\ MaxSwitches \in Nat /\ submitted \in 0..MaxSwitches
      /\ pc \in [1..MaxSwitches -> Switch!Active \cup Switch!Told \cup {"none", "over"}]
      /\ holders \subseteq 1..MaxSwitches /\ doomed \subseteq 1..MaxSwitches
      /\ running \in BOOLEAN
  BY TradeAssumptions DEF Switch!SwitchAssumption, SwitchTypes, Switch!SwitchTypeOK
<1>1. ASSUME NEW x \in Exchanges, Switch!Apply(x) PROVE SwitchFeed'
  <2>1. /\ submitted' \in 1..MaxSwitches /\ UNCHANGED <<market, feed, running, unheard>>
        /\ pc' = [pc EXCEPT ![submitted'] = "queued"]
    BY <1>0, <1>1 DEF Switch!Apply, Switch!feedVars
  <2>2. \E s \in 1..MaxSwitches : Restores(s)'
    BY <1>0, <2>1 DEF Restores
  <2> QED BY <2>1, <2>2 DEF SwitchFeed
<1>2. ASSUME NEW s \in Switch!Switches, Switch!Begin(s) PROVE SwitchFeed'
  <2>1. /\ UNCHANGED <<market, feed, running, unheard, submitted>>
        /\ holders' = holders \cup {s} /\ pc' = [pc EXCEPT ![s] = "stopping"]
    BY <1>2 DEF Switch!Begin, Switch!queueVars
  <2>2. \A r \in 1..MaxSwitches : Restores(r) => Restores(r)'
    BY <1>0, <2>1 DEF Restores
  <2> QED BY <2>1, <2>2, RestoresStay
<1>3. ASSUME NEW s \in Switch!Switches, Switch!Cancelled(s) PROVE SwitchFeed'
  <2>1. pc[submitted] = "queued" /\ submitted # s /\ submitted \in 1..MaxSwitches
    BY <1>0, <1>3 DEF SwitchOrder, Switch!Cancelled
  <2>2. pc'[submitted] = "queued" /\ UNCHANGED <<market, feed, running, unheard, submitted>>
    BY <1>0, <1>3, <2>1 DEF Switch!Cancelled, Switch!feedVars
  <2>3. Restores(submitted)'
    BY <2>2 DEF Restores
  <2> QED BY <2>1, <2>2, <2>3 DEF SwitchFeed
<1>4. ASSUME NEW s \in Switch!Switches, Switch!StopFeed(s) PROVE SwitchFeed'
  <2>1. /\ pc[s] = "stopping" /\ UNCHANGED <<market, feed, unheard, holders, submitted>>
        /\ running' = (running /\ s \notin holders)
        /\ \A r \in 1..MaxSwitches : r # s => pc'[r] = pc[r]
        /\ \/ pc'[s] = "starting" \/ (s = submitted /\ pc'[s] = "done")
           \/ s # submitted
    BY <1>0, <1>4 DEF Switch!StopFeed, Switch!Tells, Switch!queueVars
  <2>2. CASE s \notin holders
    <3>1. \A r \in 1..MaxSwitches : Restores(r) => Restores(r)'
      BY <1>0, <2>1, <2>2 DEF Restores
    <3> QED BY <2>1, <2>2, <3>1, RestoresStay
  <2>3. CASE s \in holders /\ s # submitted
    <3>1. /\ pc[submitted] = "queued" \/ (submitted \in holders /\ pc[submitted] = "stopping")
          /\ submitted \in 1..MaxSwitches
      <4>1. ~(s > submitted)
        BY <1>0, <2>1 DEF SwitchOrder
      <4> QED BY <1>0, <2>1, <2>3, <4>1 DEF SwitchOrder
    <3>2. Restores(submitted)'
      BY <2>1, <2>3, <3>1 DEF Restores
    <3> QED BY <2>1, <3>1, <3>2 DEF SwitchFeed
  <2>4. CASE s \in holders /\ s = submitted
    <3>1. Restores(s)'
      BY <2>1, <2>4 DEF Restores
    <3> QED BY <2>1, <3>1 DEF SwitchFeed
  <2> QED BY <2>2, <2>3, <2>4
<1>5. ASSUME NEW s \in Switch!Switches, Switch!StartEngine(s) PROVE SwitchFeed'
  BY <1>5 DEF Switch!StartEngine, SwitchFeed
<1>6. ASSUME NEW s \in Switch!Switches, Switch!Fails(s) PROVE SwitchFeed'
  <2>1. /\ pc[s] \in {"starting", "closing"} /\ UNCHANGED <<market, feed, unheard, holders, submitted>>
        /\ running' = (running \/ s \in holders)
        /\ \A r \in 1..MaxSwitches : r # s => pc'[r] = pc[r]
    BY <1>0, <1>6 DEF Switch!Fails, Switch!Tells, Switch!queueVars
  <2>2. \A r \in 1..MaxSwitches : Restores(r) => running' \/ Restores(r)'
    BY <1>0, <2>1 DEF Restores
  <2> QED BY <2>1, <2>2, RestoresStay
<1>7. ASSUME NEW s \in Switch!Switches, Switch!CloseOld(s) PROVE SwitchFeed'
  <2>1. /\ pc[s] = "closing" /\ UNCHANGED <<market, feed, running, unheard, holders, submitted>>
        /\ \A r \in 1..MaxSwitches : r # s => pc'[r] = pc[r]
    BY <1>0, <1>7 DEF Switch!CloseOld, Switch!Tells, Switch!queueVars, Switch!feedVars
  <2>2. \A r \in 1..MaxSwitches : Restores(r) => Restores(r)'
    BY <1>0, <2>1 DEF Restores
  <2> QED BY <2>1, <2>2, RestoresStay
<1>8. ASSUME NEW s \in Switch!Switches, Switch!Done(s) PROVE SwitchFeed'
  BY <1>8 DEF Switch!Done, Switch!NewFeed, SwitchFeed
<1>9. ASSUME NEW s \in Switch!Switches, Switch!Failed(s) PROVE SwitchFeed'
  <2>1. /\ pc[s] = "failed" /\ UNCHANGED <<market, feed, running, unheard, holders, submitted>>
        /\ pc' = [pc EXCEPT ![s] = "over"]
    BY <1>9 DEF Switch!Failed, Switch!Hear, Switch!queueVars, Switch!feedVars
  <2>2. \A r \in 1..MaxSwitches : Restores(r) => Restores(r)'
    BY <1>0, <2>1 DEF Restores
  <2> QED BY <2>1, <2>2, RestoresStay
<1>10. CASE TraderSteps \/ UNCHANGED Switch!switchVars
  BY <1>10, TraderLeavesSwitch
     DEF SwitchFeed, Restores, Switch!exchange, Switch!feedVars, Switch!queueVars
<1> QED BY <1>1, <1>2, <1>3, <1>4, <1>5, <1>6, <1>7, <1>8, <1>9, <1>10
        DEF Switch!SwitchNext, Switch!Advances, TraderSteps

(* Initially the feed runs and no switch was submitted. *)
LEMMA SwitchStart == Init => SwitchInv
<1> SUFFICES ASSUME Init PROVE SwitchInv
  OBVIOUS
<1>1. Switch!SwitchInit
  BY DEF Init
<1>2. SwitchTypes
  BY SwitchTypesStart
<1> QED BY <1>1, <1>2 DEF Switch!SwitchInit, SwitchInv, SwitchOrder, SwitchFeed

(* When no switch is under way, and none has replaced the market unheard, the *)
(* prices come from the active exchange: however many switches were submitted, *)
(* replaced, cancelled and failed at whatever point.                         *)
THEOREM FeedFollows == Spec => []FeedFollowsMarket
<1>1. SwitchInv /\ [Next]_vars => SwitchInv'
  BY SwitchSteps, SwitchTypesStep, SwitchOrderStep, SwitchFeedStep DEF SwitchInv
<1>2. SwitchInv => FeedFollowsMarket
  BY DEF SwitchInv, SwitchFeed, Restores, FeedFollowsMarket, Switch!FeedFollowsMarket,
         Switch!Under, Switch!Active, Switch!Told
<1> QED BY <1>1, <1>2, SwitchStart, PTL DEF Spec

(* The inductive step of the trader: only a switch that makes its engine the  *)
(* market leaves the trader behind, until one is done and forgets it.        *)
LEMMA TraderStep ==
    ASSUME Switch!TraderFollowsMarket, [Switch!SwitchNext]_(Switch!switchVars)
    PROVE  Switch!TraderFollowsMarket'
<1> USE DEF Switch!TraderFollowsMarket
<1>1. ASSUME NEW x \in Exchanges, Switch!Apply(x) PROVE Switch!TraderFollowsMarket'
  BY <1>1 DEF Switch!Apply, Switch!feedVars, Switch!traderVars
<1>2. ASSUME NEW s \in Switch!Switches, Switch!Advances(s) PROVE Switch!TraderFollowsMarket'
  BY <1>2 DEF Switch!Advances, Switch!Begin, Switch!Cancelled, Switch!StopFeed,
              Switch!StartEngine, Switch!Fails, Switch!CloseOld, Switch!feedVars,
              Switch!traderVars
<1>3. ASSUME NEW s \in Switch!Switches, Switch!Done(s) \/ Switch!Failed(s)
      PROVE  Switch!TraderFollowsMarket'
  BY <1>3 DEF Switch!Done, Switch!Failed, Switch!feedVars, Switch!traderVars
<1>4. CASE TraderSteps \/ UNCHANGED Switch!switchVars
  <2>1. UNCHANGED <<market, unheard>>
    BY <1>4, TraderLeavesSwitch DEF Switch!exchange, Switch!feedVars
  <2>2. engine' = engine \/ (engine = Switch!NoEngine /\ engine' = market)
    BY <1>4 DEF TraderSteps, Switch!Submits, Switch!Starts, Switch!Scans, Switch!Enters,
                Switch!StopSubmits, Switch!Stops, Switch!StopReturns, Switch!EngineOpens,
                Switch!OthersOpen, Switch!Closes, Switch!switchVars
  <2> QED BY <2>1, <2>2
<1> QED BY <1>1, <1>2, <1>3, <1>4 DEF Switch!SwitchNext, TraderSteps

(* The trader works on the active exchange, unless one has replaced it       *)
(* unheard: a start and an entry are refused during a switch, and its end    *)
(* forgets the engine.                                                       *)
THEOREM TraderFollows == Spec => []TraderFollowsMarket
<1>1. Init => Switch!TraderFollowsMarket
  BY DEF Init, Switch!SwitchInit, Switch!TraderFollowsMarket
<1>2. Switch!TraderFollowsMarket /\ [Next]_vars => Switch!TraderFollowsMarket'
  BY SwitchSteps, TraderStep
<1>3. Switch!TraderFollowsMarket => TraderFollowsMarket
  BY DEF TraderFollowsMarket
<1> QED BY <1>1, <1>2, <1>3, PTL DEF Spec

(* During a switch the guards that let it in still hold: nothing was submitted *)
(* for the trader since, and it admits nothing.                              *)
GuardsHold == switching => ~admits /\ keys \cap {"start", "enter"} = {}

EntersAsScan ==
    switching /\ (\E t \in Trades : open[t] = "closed" /\ open'[t] = "engine")
    => scanning /\ ~admits /\ keys \cap {"start", "enter"} = {}

(* The inductive step, and what a step may enter: the engine's own, for a scan *)
(* or a pending entry.                                                       *)
LEMMA GuardsHoldStep ==
    ASSUME SwitchTypes, GuardsHold, [Switch!SwitchNext]_(Switch!switchVars)
    PROVE  GuardsHold' /\ EntersAsScan
<1> USE DEF GuardsHold, EntersAsScan
<1>1. ASSUME NEW x \in Exchanges, Switch!Apply(x) PROVE GuardsHold' /\ EntersAsScan
  BY <1>1 DEF Switch!Apply, Switch!Locked, Switch!traderVars
<1>2. ASSUME NEW s \in Switch!Switches, Switch!Advances(s) PROVE GuardsHold' /\ EntersAsScan
  BY <1>2 DEF Switch!Advances, Switch!Begin, Switch!Cancelled, Switch!StopFeed,
              Switch!StartEngine, Switch!Fails, Switch!CloseOld, Switch!traderVars
<1>3. ASSUME NEW s \in Switch!Switches, Switch!Done(s) \/ Switch!Failed(s)
      PROVE  GuardsHold' /\ EntersAsScan
  BY <1>3 DEF Switch!Done, Switch!Failed, Switch!Hear, Switch!traderVars
<1>4. CASE TraderSteps \/ UNCHANGED Switch!switchVars
  <2>1. switching' = switching
    BY <1>4, TraderLeavesSwitch DEF Switch!exchange
  <2>2. GuardsHold'
    BY <1>4, <2>1 DEF TraderSteps, Switch!Submits, Switch!Starts, Switch!Scans, Switch!Enters,
                Switch!StopSubmits, Switch!Stops, Switch!StopReturns, Switch!EngineOpens,
                Switch!OthersOpen, Switch!Closes, Switch!switchVars, Switch!traderVars
  <2>3. ASSUME NEW t \in Trades, open[t] = "closed", open'[t] = "engine"
        PROVE  scanning \/ "enter" \in keys
    BY <1>4, <2>3 DEF TraderSteps, Switch!Submits, Switch!Starts, Switch!Scans, Switch!Enters,
                Switch!StopSubmits, Switch!Stops, Switch!StopReturns, Switch!EngineOpens,
                Switch!OthersOpen, Switch!Closes, Switch!Opens, Switch!switchVars,
                Switch!traderVars, SwitchTypes, Switch!SwitchTypeOK
  <2> QED BY <2>2, <2>3
<1> QED BY <1>1, <1>2, <1>3, <1>4 DEF Switch!SwitchNext, TraderSteps

(* No entry of the trader goes on during a switch, but that of a scan which  *)
(* outlived the halt of its engine: a command on its way is seen by the      *)
(* guards, and none is taken until the switch is heard to have ended.        *)
THEOREM NoEntryMeanwhile == Spec => NoEntryDuringSwitch
<1>1. Init => GuardsHold
  BY DEF Init, Switch!SwitchInit, GuardsHold
<1>2. SwitchInv /\ [Next]_vars => SwitchInv'
  BY SwitchSteps, SwitchTypesStep, SwitchOrderStep, SwitchFeedStep DEF SwitchInv
<1>3. SwitchInv /\ GuardsHold /\ [Next]_vars => GuardsHold' /\ [EntersAsScan]_(Switch!switchVars)
  BY SwitchSteps, GuardsHoldStep DEF SwitchInv
<1>4. Spec => [][EntersAsScan]_(Switch!switchVars)
  BY <1>1, <1>2, <1>3, SwitchStart, PTL DEF Spec
<1> QED BY <1>4 DEF NoEntryDuringSwitch, Switch!NoEntryDuringSwitch, EntersAsScan

-----------------------------------------------------------------------------
(* The trade monitor.  What every variable of it is, as far as the proofs   *)
(* need it.                                                                 *)
MonitorTypes ==
    /\ rows \in [Ids -> Monitor!Row]
    /\ managed \subseteq Ids /\ entering \subseteq Ids
    /\ round \in {"idle", "read", "fetch", "apply"}
    /\ DOMAIN seen \subseteq Ids /\ \A i \in DOMAIN seen : seen[i] \in Monitor!Row
    /\ DOMAIN manual \subseteq Ids /\ \A i \in DOMAIN manual : manual[i] \in Monitor!Row
    /\ raced \in BOOLEAN

(* The rows other than i stay as they are. *)
OthersStay(i) == \A j \in Ids \ {i} : rows'[j] = rows[j]

(* A row with one field changed is a row. *)
LEMMA RowUpdates ==
    ASSUME NEW r \in Monitor!Row
    PROVE  /\ \A v \in {"none", "open", "closed"} : [r EXCEPT !.status = v] \in Monitor!Row
           /\ \A v \in {"paper", "live"} : [r EXCEPT !.mode = v] \in Monitor!Row
           /\ \A v \in 1..3 : [r EXCEPT !.targets = v] \in Monitor!Row
           /\ \A v \in 0..3 : [r EXCEPT !.hit = v] \in Monitor!Row
           /\ \A v \in {0, 1} : [r EXCEPT !.stop = v] \in Monitor!Row
           /\ \A v \in 0..Whole : [r EXCEPT !.quantity = v] \in Monitor!Row
           /\ \A v \in Nat : [r EXCEPT !.sold = v] \in Monitor!Row
           /\ \A v \in Nat : [r EXCEPT !.parts = v] \in Monitor!Row
           /\ \A v \in {"nobody", "monitor", "user", "engine"} :
                 [r EXCEPT !.by = v] \in Monitor!Row
BY DEF Monitor!Row

(* The types of its fields. *)
LEMMA RowFields ==
    ASSUME NEW r \in Monitor!Row
    PROVE  /\ r.sold \in Nat /\ r.parts \in Nat /\ r.quantity \in 0..Whole
           /\ r.hit \in 0..3 /\ r.targets \in 1..3 /\ r.stop \in {0, 1}
           /\ r.mode \in {"paper", "live"} /\ r.status \in {"none", "open", "closed"}
           /\ r.by \in {"nobody", "monitor", "user", "engine"}
BY DEF Monitor!Row

(* What the absent row holds. *)
LEMMA NoRowFields ==
    /\ Monitor!NoRow \in Monitor!Row /\ Monitor!NoRow.status = "none"
    /\ Monitor!NoRow.hit = 0 /\ Monitor!NoRow.parts = 0
    /\ Monitor!NoRow.mode = "paper" /\ Monitor!NoRow.by = "nobody"
BY TradeAssumptions DEF Monitor!MonitorAssumption, Monitor!NoRow, Monitor!Row

(* What a new row holds. *)
LEMMA NewRowFields ==
    ASSUME NEW mode \in {"paper", "live"}, NEW n \in 1..3
    PROVE  /\ Monitor!NewRow(mode, n) \in Monitor!Row
           /\ LET r == Monitor!NewRow(mode, n) IN
              /\ r.status = "open" /\ r.mode = mode /\ r.targets = n /\ r.hit = 0
              /\ r.quantity = Whole /\ r.sold = 0 /\ r.parts = 0 /\ r.by = "nobody"
<1> DEFINE q1 == [Monitor!NoRow EXCEPT !.status = "open"]
           q2 == [q1 EXCEPT !.mode = mode]
           q3 == [q2 EXCEPT !.targets = n]
           q4 == [q3 EXCEPT !.quantity = Whole]
<1>1. q1 \in Monitor!Row
  BY NoRowFields, RowUpdates
<1>2. q2 \in Monitor!Row
  <2> HIDE DEF q1
  <2> QED BY <1>1, RowUpdates
<1>3. q3 \in Monitor!Row
  <2> HIDE DEF q2
  <2> QED BY <1>2, RowUpdates
<1>4. q4 \in Monitor!Row
  <2> HIDE DEF q3
  <2>1. Whole \in 0..Whole
    BY TradeAssumptions DEF Monitor!MonitorAssumption
  <2> QED BY <1>3, <2>1, RowUpdates
<1>5. Monitor!NewRow(mode, n) \in Monitor!Row
  BY <1>4 DEF Monitor!NewRow
<1>6. LET r == Monitor!NewRow(mode, n) IN
      /\ r.status = "open" /\ r.mode = mode /\ r.targets = n /\ r.hit = 0
      /\ r.quantity = Whole /\ r.sold = 0 /\ r.parts = 0 /\ r.by = "nobody"
  BY DEF Monitor!NewRow, Monitor!NoRow
<1> QED BY <1>5, <1>6

(* What a close leaves of a row. *)
LEMMA ClosedFields ==
    ASSUME NEW r \in Monitor!Row, NEW who \in {"monitor", "user", "engine"}
    PROVE  LET c == Monitor!Closed(r, who) IN
           /\ c \in Monitor!Row /\ c.status = "closed" /\ c.by = who
           /\ c.sold = r.sold + r.quantity /\ c.mode = r.mode /\ c.targets = r.targets
           /\ c.hit = r.hit /\ c.parts = r.parts
<1> DEFINE q1 == [r EXCEPT !.status = "closed"]
           q2 == [q1 EXCEPT !.by = who]
           q3 == [q2 EXCEPT !.sold = r.sold + r.quantity]
<1>1. q1 \in Monitor!Row
  BY RowUpdates
<1>2. q2 \in Monitor!Row
  <2> HIDE DEF q1
  <2> QED BY <1>1, RowUpdates
<1>3. q3 \in Monitor!Row
  <2> HIDE DEF q2
  <2>1. r.sold + r.quantity \in Nat
    BY RowFields
  <2> QED BY <1>2, <2>1, RowUpdates
<1>4. Monitor!Closed(r, who) \in Monitor!Row
  BY <1>3 DEF Monitor!Closed
<1>5. LET c == Monitor!Closed(r, who) IN
      /\ c.status = "closed" /\ c.by = who
      /\ c.sold = r.sold + r.quantity /\ c.mode = r.mode /\ c.targets = r.targets
      /\ c.hit = r.hit /\ c.parts = r.parts
  BY DEF Monitor!Closed, Monitor!Row
<1> QED BY <1>4, <1>5

(* What the sale of a part leaves of a row. *)
LEMMA PartSoldFields ==
    ASSUME NEW r \in Monitor!Row, NEW share \in 1..Whole, share < r.quantity
    PROVE  LET c == Monitor!PartSold(r, share) IN
           /\ c \in Monitor!Row /\ c.status = r.status /\ c.by = r.by
           /\ c.mode = r.mode /\ c.targets = r.targets /\ c.hit = r.hit
           /\ c.quantity = r.quantity - share /\ c.sold = r.sold + share
           /\ c.parts = r.parts + 1
<1> DEFINE q1 == [r EXCEPT !.quantity = r.quantity - share]
           q2 == [q1 EXCEPT !.sold = r.sold + share]
           q3 == [q2 EXCEPT !.parts = r.parts + 1]
<1>0. /\ r.quantity - share \in 0..Whole /\ r.sold + share \in Nat /\ r.parts + 1 \in Nat
  BY RowFields, TradeAssumptions DEF Monitor!MonitorAssumption
<1>1. q1 \in Monitor!Row
  BY <1>0, RowUpdates
<1>2. q2 \in Monitor!Row
  <2> HIDE DEF q1
  <2> QED BY <1>0, <1>1, RowUpdates
<1>3. q3 \in Monitor!Row
  <2> HIDE DEF q2
  <2> QED BY <1>0, <1>2, RowUpdates
<1>4. Monitor!PartSold(r, share) \in Monitor!Row
  BY <1>3 DEF Monitor!PartSold
<1>5. LET c == Monitor!PartSold(r, share) IN
      /\ c.status = r.status /\ c.by = r.by
      /\ c.mode = r.mode /\ c.targets = r.targets /\ c.hit = r.hit
      /\ c.quantity = r.quantity - share /\ c.sold = r.sold + share
      /\ c.parts = r.parts + 1
  BY DEF Monitor!PartSold, Monitor!Row
<1> QED BY <1>4, <1>5

(* What a target leaves of a row. *)
LEMMA TargetHitFields ==
    ASSUME NEW r \in Monitor!Row, NEW index \in 0..2
    PROVE  LET c == Monitor!TargetHit(r, index) IN
           /\ c \in Monitor!Row /\ c.status = r.status /\ c.by = r.by
           /\ c.mode = r.mode /\ c.targets = r.targets /\ c.quantity = r.quantity
           /\ c.sold = r.sold /\ c.parts = r.parts
           /\ c.hit = IF r.hit > index + 1 THEN r.hit ELSE index + 1
<1> DEFINE h == IF r.hit > index + 1 THEN r.hit ELSE index + 1
           s == IF index = 0 THEN 1 ELSE r.stop
           q1 == [r EXCEPT !.hit = h]
           q2 == [q1 EXCEPT !.stop = s]
<1>0. h \in 0..3 /\ s \in {0, 1}
  BY RowFields
<1>1. q1 \in Monitor!Row
  <2> HIDE DEF h
  <2> QED BY <1>0, RowUpdates
<1>2. q2 \in Monitor!Row
  <2> HIDE DEF q1, s
  <2> QED BY <1>0, <1>1, RowUpdates
<1>3. Monitor!TargetHit(r, index) \in Monitor!Row
  BY <1>2 DEF Monitor!TargetHit
<1>4. LET c == Monitor!TargetHit(r, index) IN
      /\ c.status = r.status /\ c.by = r.by
      /\ c.mode = r.mode /\ c.targets = r.targets /\ c.quantity = r.quantity
      /\ c.sold = r.sold /\ c.parts = r.parts /\ c.hit = h
  BY DEF Monitor!TargetHit, Monitor!Row
<1> QED BY <1>3, <1>4

(* A close books what is left of an open row, and refuses any other. *)
LEMMA CloseRowEffect ==
    ASSUME rows \in [Ids -> Monitor!Row], NEW i \in Ids,
           NEW who \in {"monitor", "user", "engine"}, Monitor!CloseRow(i, who)
    PROVE  /\ rows' \in [Ids -> Monitor!Row] /\ OthersStay(i)
           /\ ~Monitor!Open(i) => rows'[i] = rows[i]
           /\ Monitor!Open(i) =>
                /\ rows'[i].status = "closed" /\ rows'[i].by = who
                /\ rows'[i].sold = rows[i].sold + rows[i].quantity
           /\ rows'[i].mode = rows[i].mode /\ rows'[i].targets = rows[i].targets
           /\ rows'[i].hit = rows[i].hit /\ rows'[i].parts = rows[i].parts
<1> DEFINE c == Monitor!Closed(rows[i], who)
<1>1. rows[i] \in Monitor!Row
  OBVIOUS
<1>2. CASE ~Monitor!Open(i)
  BY <1>2 DEF Monitor!CloseRow, OthersStay
<1>3. CASE Monitor!Open(i)
  <2>1. rows' = [rows EXCEPT ![i] = c]
    BY <1>3 DEF Monitor!CloseRow
  <2>2. /\ c \in Monitor!Row /\ c.status = "closed" /\ c.by = who
        /\ c.sold = rows[i].sold + rows[i].quantity /\ c.mode = rows[i].mode
        /\ c.targets = rows[i].targets /\ c.hit = rows[i].hit /\ c.parts = rows[i].parts
    BY <1>1, ClosedFields
  <2> HIDE DEF c
  <2> QED BY <1>3, <2>1, <2>2 DEF OthersStay
<1> QED BY <1>2, <1>3

(* A part is sold of an open row that has more left, and its target counted *)
(* as hit; otherwise nothing is written.                                    *)
LEMMA PartialCloseEffect ==
    ASSUME rows \in [Ids -> Monitor!Row], NEW i \in Ids, NEW share \in Nat,
           NEW index \in 0..2, Monitor!PartialClose(i, share, index)
    PROVE  /\ rows' \in [Ids -> Monitor!Row] /\ OthersStay(i)
           /\ rows'[i].status = rows[i].status /\ rows'[i].by = rows[i].by
           /\ rows'[i].mode = rows[i].mode /\ rows'[i].targets = rows[i].targets
           /\ \/ rows'[i] = rows[i] /\ ~Monitor!MaySell(i, share)
              \/ /\ Monitor!MaySell(i, share)
                 /\ rows'[i].quantity = rows[i].quantity - share
                 /\ rows'[i].sold = rows[i].sold + share
                 /\ rows'[i].parts = rows[i].parts + 1
                 /\ rows'[i].hit = IF rows[i].hit > index + 1 THEN rows[i].hit ELSE index + 1
<1>1. rows[i] \in Monitor!Row
  OBVIOUS
<1>2. CASE ~Monitor!MaySell(i, share)
  BY <1>2 DEF Monitor!PartialClose, OthersStay
<1>3. CASE Monitor!MaySell(i, share)
  <2> DEFINE p == Monitor!PartSold(rows[i], share)
             c == Monitor!TargetHit(p, index)
  <2>1. rows' = [rows EXCEPT ![i] = c]
    BY <1>3 DEF Monitor!PartialClose
  <2>2. share \in 1..Whole /\ share < rows[i].quantity
    BY <1>1, <1>3, RowFields, TradeAssumptions DEF Monitor!MaySell, Monitor!MonitorAssumption
  <2>3. /\ p \in Monitor!Row /\ p.status = rows[i].status /\ p.by = rows[i].by
        /\ p.mode = rows[i].mode /\ p.targets = rows[i].targets /\ p.hit = rows[i].hit
        /\ p.quantity = rows[i].quantity - share /\ p.sold = rows[i].sold + share
        /\ p.parts = rows[i].parts + 1
    BY <1>1, <2>2, PartSoldFields
  <2>4. /\ c \in Monitor!Row /\ c.status = p.status /\ c.by = p.by
        /\ c.mode = p.mode /\ c.targets = p.targets /\ c.quantity = p.quantity
        /\ c.sold = p.sold /\ c.parts = p.parts
        /\ c.hit = IF p.hit > index + 1 THEN p.hit ELSE index + 1
    <3> HIDE DEF p
    <3> QED BY <2>3, TargetHitFields
  <2> HIDE DEF p, c
  <2> QED BY <1>3, <2>1, <2>3, <2>4 DEF OthersStay
<1> QED BY <1>2, <1>3

(* The share of a target is a quantity. *)
LEMMA ShareType ==
    ASSUME NEW r \in Monitor!Row
    PROVE  Monitor!Share(r) \in Nat
<1>1. r.targets \in 1..3 /\ Whole \in Nat
  BY RowFields, TradeAssumptions DEF Monitor!MonitorAssumption
<1>2. Whole \div 1 \in Nat /\ Whole \div 2 \in Nat /\ Whole \div 3 \in Nat
  BY <1>1
<1>3. r.targets = 1 \/ r.targets = 2 \/ r.targets = 3
  BY <1>1
<1> QED BY <1>2, <1>3 DEF Monitor!Share

(* The sale of a target of a row, as the round saw it. *)
PartSale(i) ==
    /\ seen[i].hit \in 0..2
    /\ Monitor!PartialClose(i, Monitor!Share(seen[i]), seen[i].hit)

(* The step of the monitor in a row: it reads the row as the round saw it. *)
LEMMA ApplyEffect ==
    ASSUME MonitorTypes, NEW i \in Ids, Monitor!ApplyStep(i)
    PROVE  /\ i \in DOMAIN seen /\ round = "apply" /\ round' \in {"idle", "apply"}
           /\ DOMAIN seen' = DOMAIN seen \ {i}
           /\ \A j \in DOMAIN seen' : seen'[j] = seen[j]
           /\ round' = "idle" => DOMAIN seen' = {}
           /\ \/ rows' = rows
              \/ Monitor!CloseRow(i, "monitor")
              \/ PartSale(i)
           /\ UNCHANGED <<managed, entering, manual, raced>>
<1>1. seen[i] \in Monitor!Row /\ i \in DOMAIN seen
  BY DEF MonitorTypes, Monitor!ApplyStep
<1>2. ASSUME Monitor!StepOf(seen[i], price) = "partial" PROVE seen[i].hit \in 0..2
  <2>1. seen[i].hit + 1 < seen[i].targets
    BY <1>2 DEF Monitor!StepOf
  <2> QED BY <2>1, <1>1, RowFields
<1>3. \/ rows' = rows
      \/ Monitor!CloseRow(i, "monitor")
      \/ PartSale(i)
  BY <1>2 DEF Monitor!ApplyStep, PartSale
<1>4. /\ round = "apply" /\ round' \in {"idle", "apply"}
      /\ seen' = [j \in DOMAIN seen \ {i} |-> seen[j]]
      /\ round' = "idle" => DOMAIN seen = {i}
      /\ UNCHANGED <<managed, entering, manual, raced>>
  BY DEF Monitor!ApplyStep, Monitor!market
<1> QED BY <1>1, <1>3, <1>4

(* The sale of a target writes what PartialCloseEffect says. *)
LEMMA PartSaleEffect ==
    ASSUME MonitorTypes, NEW i \in Ids, Monitor!ApplyStep(i), PartSale(i)
    PROVE  /\ rows' \in [Ids -> Monitor!Row] /\ OthersStay(i)
           /\ rows'[i].status = rows[i].status /\ rows'[i].by = rows[i].by
           /\ rows'[i].mode = rows[i].mode /\ rows'[i].targets = rows[i].targets
           /\ \/ rows'[i] = rows[i]
              \/ \E share \in Nat :
                    /\ Monitor!MaySell(i, share)
                    /\ rows'[i].quantity = rows[i].quantity - share
                    /\ rows'[i].sold = rows[i].sold + share
                    /\ rows'[i].parts = rows[i].parts + 1
                    /\ rows'[i].hit = IF rows[i].hit > seen[i].hit + 1 THEN rows[i].hit
                                                                   ELSE seen[i].hit + 1
<1>1. seen[i] \in Monitor!Row
  BY DEF MonitorTypes, Monitor!ApplyStep
<1>2. Monitor!Share(seen[i]) \in Nat
  BY <1>1, ShareType
<1> QED BY <1>2, PartialCloseEffect DEF MonitorTypes, PartSale

(* The empty function of the model. *)
LEMMA Nobody == DOMAIN <<>> = {}
OBVIOUS

(* The writes of the table by the user and the engine. *)
LEMMA NewRowEffect ==
    ASSUME MonitorTypes, NEW i \in Ids, Monitor!UserOpens(i) \/ Monitor!EngineWrites(i)
    PROVE  /\ rows[i] = Monitor!NoRow
           /\ rows' \in [Ids -> Monitor!Row] /\ OthersStay(i)
           /\ rows'[i].status = "open" /\ rows'[i].hit = 0 /\ rows'[i].quantity = Whole
           /\ rows'[i].sold = 0 /\ rows'[i].parts = 0 /\ rows'[i].by = "nobody"
           /\ UNCHANGED <<managed, round, seen, manual, raced>>
           /\ \/ entering' = entering
              \/ entering' = entering \cup {i} /\ Monitor!EngineWrites(i)
<1>1. PICK mode \in {"paper", "live"}, n \in 1..3 :
         rows' = [rows EXCEPT ![i] = Monitor!NewRow(mode, n)]
  BY TradeAssumptions DEF Monitor!UserOpens, Monitor!EngineWrites, Monitor!MonitorAssumption
<1>2. rows[i] = Monitor!NoRow
  BY DEF Monitor!UserOpens, Monitor!EngineWrites, Monitor!FreeIds
<1>3. /\ UNCHANGED <<managed, round, seen, manual, raced>>
      /\ entering' = entering \/ (entering' = entering \cup {i} /\ Monitor!EngineWrites(i))
  BY DEF Monitor!UserOpens, Monitor!EngineWrites, Monitor!market
<1> QED BY <1>1, <1>2, <1>3, NewRowFields DEF MonitorTypes, OthersStay

(* Every variable of the monitor keeps its type. *)
LEMMA MonitorTypesStep ==
    ASSUME MonitorTypes, [Monitor!MonitorNext]_(Monitor!monVars)
    PROVE  MonitorTypes'
<1>1. CASE Monitor!MonitorTick
  BY <1>1 DEF MonitorTypes, Monitor!MonitorTick, Monitor!OpenIds, Monitor!table, Monitor!market
<1>2. CASE Monitor!LeaveOutManaged
  BY <1>2 DEF MonitorTypes, Monitor!LeaveOutManaged, Monitor!table, Monitor!market
<1>3. CASE Monitor!FetchPrices
  BY <1>3, Nobody DEF MonitorTypes, Monitor!FetchPrices, Monitor!table
<1>4. ASSUME NEW i \in Ids, Monitor!ApplyStep(i) PROVE MonitorTypes'
  <2>1. rows' \in [Ids -> Monitor!Row]
    BY <1>4, ApplyEffect, CloseRowEffect, PartSaleEffect DEF MonitorTypes
  <2> QED BY <1>4, <2>1, ApplyEffect DEF MonitorTypes
<1>5. ASSUME NEW i \in Ids, Monitor!UserOpens(i) \/ Monitor!EngineWrites(i) PROVE MonitorTypes'
  BY <1>5, NewRowEffect DEF MonitorTypes
<1>6. ASSUME NEW i \in Ids, Monitor!UserCloses(i) PROVE MonitorTypes'
  BY <1>6 DEF MonitorTypes, Monitor!UserCloses, Monitor!table, Monitor!market
<1>7. ASSUME NEW i \in Ids, Monitor!UserClosed(i) PROVE MonitorTypes'
  <2>1. rows' \in [Ids -> Monitor!Row]
    BY <1>7, CloseRowEffect DEF MonitorTypes, Monitor!UserClosed
  <2> QED BY <1>7, <2>1 DEF MonitorTypes, Monitor!UserClosed
<1>8. ASSUME NEW i \in Ids, Monitor!EngineRegisters(i) PROVE MonitorTypes'
  BY <1>8 DEF MonitorTypes, Monitor!EngineRegisters, Monitor!market
<1>9. ASSUME NEW i \in Ids, Monitor!EngineCloses(i) PROVE MonitorTypes'
  <2>1. rows' \in [Ids -> Monitor!Row]
    BY <1>9, CloseRowEffect DEF MonitorTypes, Monitor!EngineCloses
  <2> QED BY <1>9, <2>1 DEF MonitorTypes, Monitor!EngineCloses, Monitor!market
<1>10. CASE Monitor!ClearHistory
  BY <1>10, NoRowFields DEF MonitorTypes, Monitor!ClearHistory, Monitor!market
<1>11. CASE Monitor!MonitorRestarts
  BY <1>11, Nobody DEF MonitorTypes, Monitor!MonitorRestarts, Monitor!market
<1>12. CASE Monitor!MarketMoves \/ UNCHANGED Monitor!monVars
  BY <1>12 DEF MonitorTypes, Monitor!MarketMoves, Monitor!table, Monitor!monVars
<1> QED BY <1>1, <1>2, <1>3, <1>4, <1>5, <1>6, <1>7, <1>8, <1>9, <1>10, <1>11, <1>12
        DEF Monitor!MonitorNext

(* Initially the table is empty and nobody works on it. *)
LEMMA MonitorStart == Init => MonitorTypes /\ Monitor!MonitorInit
<1> SUFFICES ASSUME Init PROVE MonitorTypes /\ Monitor!MonitorInit
  OBVIOUS
<1>1. Monitor!MonitorInit
  BY DEF Init
<1> QED BY <1>1, NoRowFields, Nobody DEF Monitor!MonitorInit, MonitorTypes

(* What was sold of a trade and what is left of it are the whole trade,     *)
(* whichever of the monitor, the user and the engine closes parts of it.    *)
THEOREM SoldOnceAlways == Spec => []SoldOnce
<1>1. ASSUME MonitorTypes, Monitor!SoldOnce, [Monitor!MonitorNext]_(Monitor!monVars)
      PROVE  Monitor!SoldOnce'
  <2>1. ASSUME NEW i \in Ids, Monitor!ApplyStep(i) PROVE Monitor!SoldOnce'
    <3>1. CASE rows' = rows
      BY <1>1, <3>1 DEF Monitor!SoldOnce, Monitor!Open
    <3>2. CASE Monitor!CloseRow(i, "monitor")
      BY <1>1, <3>2, CloseRowEffect, RowFields
         DEF MonitorTypes, Monitor!SoldOnce, Monitor!Open, OthersStay
    <3>3. CASE PartSale(i)
      <4>1. rows[i] \in Monitor!Row
        BY <1>1 DEF MonitorTypes
      <4> QED BY <1>1, <2>1, <3>3, <4>1, PartSaleEffect, RowFields
              DEF Monitor!SoldOnce, Monitor!Open, Monitor!MaySell, OthersStay
    <3> QED BY <1>1, <2>1, <3>1, <3>2, <3>3, ApplyEffect
  <2>2. ASSUME NEW i \in Ids, Monitor!UserOpens(i) \/ Monitor!EngineWrites(i)
        PROVE  Monitor!SoldOnce'
    BY <1>1, <2>2, NewRowEffect, TradeAssumptions
       DEF Monitor!SoldOnce, Monitor!Open, OthersStay, Monitor!MonitorAssumption
  <2>3. ASSUME NEW i \in Ids, Monitor!UserClosed(i) \/ Monitor!EngineCloses(i)
        PROVE  Monitor!SoldOnce'
    <3>1. CASE rows' = rows
      BY <1>1, <3>1 DEF Monitor!SoldOnce, Monitor!Open
    <3>2. ASSUME NEW who \in {"user", "engine"}, Monitor!CloseRow(i, who)
          PROVE  Monitor!SoldOnce'
      BY <1>1, <3>2, CloseRowEffect, RowFields
         DEF MonitorTypes, Monitor!SoldOnce, Monitor!Open, OthersStay
    <3> QED BY <2>3, <3>1, <3>2 DEF Monitor!UserClosed, Monitor!EngineCloses
  <2>4. CASE Monitor!ClearHistory
    BY <2>4, NoRowFields DEF Monitor!ClearHistory, Monitor!SoldOnce
  <2>5. CASE UNCHANGED rows
    BY <1>1, <2>5 DEF Monitor!SoldOnce, Monitor!Open
  <2> QED BY <1>1, <2>1, <2>2, <2>3, <2>4, <2>5
          DEF Monitor!MonitorNext, Monitor!MonitorTick, Monitor!LeaveOutManaged,
              Monitor!FetchPrices, Monitor!UserCloses, Monitor!EngineRegisters,
              Monitor!MonitorRestarts, Monitor!MarketMoves, Monitor!monVars, Monitor!table
<1>2. MonitorTypes /\ Monitor!SoldOnce /\ [Next]_vars => MonitorTypes' /\ Monitor!SoldOnce'
  BY <1>1, MonitorSteps, MonitorTypesStep
<1>3. Init => MonitorTypes /\ Monitor!SoldOnce
  BY MonitorStart, NoRowFields DEF Monitor!MonitorInit, Monitor!SoldOnce
<1>4. Monitor!SoldOnce => SoldOnce
  BY DEF SoldOnce
<1> QED BY <1>2, <1>3, <1>4, PTL DEF Spec

-----------------------------------------------------------------------------
(* What relates the copies that a round or a manual close works on to the   *)
(* table.  A row that is worked on stays in the table, as long as the       *)
(* history is not cleared meanwhile; its number of targets and its mode do  *)
(* not change, and only the round itself counts its targets.                *)
CopiesMatch ==
    /\ round = "idle" => DOMAIN seen = {}
    /\ \A i \in DOMAIN seen :
          /\ rows[i].status # "none" /\ seen[i].hit = rows[i].hit
          /\ seen[i].mode = rows[i].mode /\ seen[i].targets = rows[i].targets
          /\ round \in {"fetch", "apply"} => seen[i].mode # "live"
    /\ \A i \in DOMAIN manual : rows[i].status # "none" /\ rows[i].mode = "paper"

(* What a step does to the table and to the copies, apart from a clear.     *)
RowKept(i) ==
    /\ rows[i].status # "none" => rows'[i].status # "none"
    /\ rows[i].status # "none" =>
          /\ rows'[i].mode = rows[i].mode /\ rows'[i].hit = rows[i].hit
          /\ rows'[i].targets = rows[i].targets

(* A close keeps every row. *)
LEMMA CloseKeeps ==
    ASSUME MonitorTypes, NEW i \in Ids, NEW who \in {"monitor", "user", "engine"},
           Monitor!CloseRow(i, who) \/ rows' = rows
    PROVE  \A j \in Ids : RowKept(j) /\ rows'[j].parts = rows[j].parts
                                     /\ rows'[j].hit = rows[j].hit /\ rows'[j].mode = rows[j].mode
                                     /\ rows'[j].targets = rows[j].targets
<1>1. CASE Monitor!CloseRow(i, who)
  BY <1>1, CloseRowEffect DEF MonitorTypes, RowKept, OthersStay
<1>2. CASE rows' = rows
  BY <1>2 DEF RowKept
<1> QED BY <1>1, <1>2

(* A new row leaves the others, and was none before. *)
LEMMA NewRowKeeps ==
    ASSUME MonitorTypes, NEW i \in Ids, Monitor!UserOpens(i) \/ Monitor!EngineWrites(i)
    PROVE  \A j \in Ids : RowKept(j)
BY NewRowEffect, NoRowFields DEF RowKept, OthersStay

(* Copies that are kept or dropped still match rows that are kept.          *)
LEMMA CopiesKept ==
    ASSUME MonitorTypes, CopiesMatch,
           \A j \in DOMAIN seen' \cup DOMAIN manual' : j \in Ids => RowKept(j),
           DOMAIN seen' \subseteq DOMAIN seen, \A j \in DOMAIN seen' : seen'[j] = seen[j],
           DOMAIN manual' \subseteq DOMAIN manual,
           round' = round \/ (round' = "idle" /\ DOMAIN seen' = {})
    PROVE  CopiesMatch'
BY DEF MonitorTypes, CopiesMatch, RowKept

(* The inductive step of the copies. *)
LEMMA CopiesStep ==
    ASSUME ~ClearBusy, MonitorTypes, CopiesMatch, [Monitor!MonitorNext]_(Monitor!monVars)
    PROVE  CopiesMatch'
<1>1. CASE Monitor!MonitorTick
  BY <1>1 DEF MonitorTypes, CopiesMatch, Monitor!MonitorTick, Monitor!OpenIds, Monitor!Open,
              Monitor!table
<1>2. CASE Monitor!LeaveOutManaged
  BY <1>2 DEF MonitorTypes, CopiesMatch, Monitor!LeaveOutManaged, Monitor!Ours, Monitor!table
<1>3. CASE Monitor!FetchPrices
  BY <1>3, Nobody DEF MonitorTypes, CopiesMatch, Monitor!FetchPrices, Monitor!table
<1>4. ASSUME NEW i \in Ids, Monitor!ApplyStep(i) PROVE CopiesMatch'
  <2>1. /\ \A j \in Ids \ {i} : RowKept(j)
        /\ rows[i].status # "none" => rows'[i].status # "none"
        /\ rows'[i].mode = rows[i].mode /\ rows'[i].targets = rows[i].targets
    <3>1. CASE rows' = rows \/ Monitor!CloseRow(i, "monitor")
      BY <3>1, CloseKeeps DEF RowKept
    <3>2. CASE PartSale(i)
      BY <3>2, <1>4, PartSaleEffect DEF RowKept, OthersStay
    <3> QED BY <1>4, <3>1, <3>2, ApplyEffect
  <2>2. /\ DOMAIN seen' = DOMAIN seen \ {i} /\ \A j \in DOMAIN seen' : seen'[j] = seen[j]
        /\ round = "apply" /\ manual' = manual
        /\ round' = "idle" => DOMAIN seen' = {}
    BY <1>4, ApplyEffect
  <2>3. \A j \in DOMAIN seen' :
          /\ rows'[j].status # "none" /\ seen'[j].hit = rows'[j].hit
          /\ seen'[j].mode = rows'[j].mode /\ seen'[j].targets = rows'[j].targets
          /\ round' \in {"fetch", "apply"} => seen'[j].mode # "live"
    BY <2>1, <2>2 DEF MonitorTypes, CopiesMatch, RowKept
  <2>4. \A j \in DOMAIN manual' : rows'[j].status # "none" /\ rows'[j].mode = "paper"
    BY <2>1, <2>2 DEF MonitorTypes, CopiesMatch, RowKept
  <2> QED BY <2>2, <2>3, <2>4 DEF CopiesMatch
<1>5. ASSUME NEW i \in Ids, Monitor!UserOpens(i) \/ Monitor!EngineWrites(i) PROVE CopiesMatch'
  BY <1>5, NewRowEffect, NewRowKeeps, CopiesKept
<1>6. ASSUME NEW i \in Ids, Monitor!UserCloses(i) PROVE CopiesMatch'
  BY <1>6 DEF MonitorTypes, CopiesMatch, Monitor!UserCloses, Monitor!Open, Monitor!table
<1>7. ASSUME NEW i \in Ids, Monitor!UserClosed(i) PROVE CopiesMatch'
  <2>1. /\ Monitor!CloseRow(i, "user") \/ rows' = rows
        /\ UNCHANGED <<round, seen>> /\ DOMAIN manual' \subseteq DOMAIN manual
    BY <1>7 DEF Monitor!UserClosed
  <2> QED BY <2>1, CloseKeeps, CopiesKept
<1>8. ASSUME NEW i \in Ids, Monitor!EngineCloses(i) PROVE CopiesMatch'
  <2>1. Monitor!CloseRow(i, "engine") /\ UNCHANGED <<round, seen, manual>>
    BY <1>8 DEF Monitor!EngineCloses
  <2> QED BY <2>1, CloseKeeps, CopiesKept
<1>9. CASE Monitor!ClearHistory
  <2>1. DOMAIN seen' = {} /\ DOMAIN manual' = {}
    BY <1>9, Nobody DEF CopiesMatch, Monitor!ClearHistory
  <2> QED BY <2>1 DEF CopiesMatch
<1>10. CASE Monitor!MonitorRestarts
  BY <1>10, Nobody DEF CopiesMatch, Monitor!MonitorRestarts
<1>11. CASE UNCHANGED <<rows, round, seen, manual>>
  BY <1>11 DEF CopiesMatch
<1> QED BY <1>1, <1>2, <1>3, <1>4, <1>5, <1>6, <1>7, <1>8, <1>9, <1>10, <1>11
        DEF Monitor!MonitorNext, Monitor!EngineRegisters, Monitor!MarketMoves,
            Monitor!monVars, Monitor!table

(* The inductive step of the count of targets. *)
LEMMA TargetsStep ==
    ASSUME MonitorTypes, CopiesMatch, Monitor!EachTargetOnce,
           [Monitor!MonitorNext]_(Monitor!monVars)
    PROVE  Monitor!EachTargetOnce'
<1>1. ASSUME NEW i \in Ids, Monitor!ApplyStep(i) PROVE Monitor!EachTargetOnce'
  <2>1. CASE rows' = rows \/ Monitor!CloseRow(i, "monitor")
    BY <2>1, CloseKeeps DEF Monitor!EachTargetOnce
  <2>2. CASE PartSale(i)
    <3>1. seen[i].hit = rows[i].hit /\ rows[i] \in Monitor!Row
      BY <1>1, ApplyEffect DEF MonitorTypes, CopiesMatch
    <3>2. rows[i].hit \in 0..3 /\ rows[i].parts = rows[i].hit
      BY <3>1, RowFields DEF Monitor!EachTargetOnce
    <3> QED BY <1>1, <2>2, <3>1, <3>2, PartSaleEffect DEF Monitor!EachTargetOnce, OthersStay
  <2> QED BY <1>1, <2>1, <2>2, ApplyEffect
<1>2. ASSUME NEW i \in Ids, Monitor!UserOpens(i) \/ Monitor!EngineWrites(i)
      PROVE  Monitor!EachTargetOnce'
  BY <1>2, NewRowEffect DEF Monitor!EachTargetOnce, OthersStay
<1>3. ASSUME NEW i \in Ids, Monitor!UserClosed(i) \/ Monitor!EngineCloses(i)
      PROVE  Monitor!EachTargetOnce'
  BY <1>3, CloseKeeps DEF Monitor!EachTargetOnce, Monitor!UserClosed, Monitor!EngineCloses
<1>4. CASE Monitor!ClearHistory
  BY <1>4, NoRowFields DEF Monitor!ClearHistory, Monitor!EachTargetOnce
<1>5. CASE UNCHANGED rows
  BY <1>5 DEF Monitor!EachTargetOnce
<1> QED BY <1>1, <1>2, <1>3, <1>4, <1>5
        DEF Monitor!MonitorNext, Monitor!MonitorTick, Monitor!LeaveOutManaged,
            Monitor!FetchPrices, Monitor!UserCloses, Monitor!EngineRegisters,
            Monitor!MonitorRestarts, Monitor!MarketMoves, Monitor!monVars, Monitor!table

(* Who closed a row is the one who closed it last, and a live row is closed *)
(* by the engine alone.                                                     *)
LEMMA LiveStep ==
    ASSUME MonitorTypes, CopiesMatch, Monitor!LiveNotSimulated,
           [Monitor!MonitorNext]_(Monitor!monVars)
    PROVE  Monitor!LiveNotSimulated'
<1>1. ASSUME NEW i \in Ids, NEW who \in {"monitor", "user", "engine"},
             Monitor!CloseRow(i, who) \/ rows' = rows,
             who = "engine" \/ rows[i].mode # "live"
      PROVE  Monitor!LiveNotSimulated'
  BY <1>1, CloseRowEffect DEF MonitorTypes, Monitor!LiveNotSimulated, OthersStay
<1>2. ASSUME NEW i \in Ids, Monitor!ApplyStep(i) PROVE Monitor!LiveNotSimulated'
  <2>1. rows[i].mode # "live"
    BY <1>2, ApplyEffect DEF CopiesMatch
  <2>2. CASE PartSale(i)
    BY <1>2, <2>2, PartSaleEffect DEF Monitor!LiveNotSimulated, OthersStay
  <2> QED BY <1>1, <1>2, <2>1, <2>2, ApplyEffect
<1>3. ASSUME NEW i \in Ids, Monitor!UserOpens(i) \/ Monitor!EngineWrites(i)
      PROVE  Monitor!LiveNotSimulated'
  BY <1>3, NewRowEffect DEF Monitor!LiveNotSimulated, OthersStay
<1>4. ASSUME NEW i \in Ids, Monitor!UserClosed(i) PROVE Monitor!LiveNotSimulated'
  BY <1>1, <1>4 DEF CopiesMatch, Monitor!UserClosed
<1>5. ASSUME NEW i \in Ids, Monitor!EngineCloses(i) PROVE Monitor!LiveNotSimulated'
  BY <1>1, <1>5 DEF Monitor!EngineCloses
<1>6. CASE Monitor!ClearHistory
  BY <1>6, NoRowFields DEF Monitor!ClearHistory, Monitor!LiveNotSimulated
<1>7. CASE UNCHANGED rows
  BY <1>7 DEF Monitor!LiveNotSimulated
<1> QED BY <1>2, <1>3, <1>4, <1>5, <1>6, <1>7
        DEF Monitor!MonitorNext, Monitor!MonitorTick, Monitor!LeaveOutManaged,
            Monitor!FetchPrices, Monitor!UserCloses, Monitor!EngineRegisters,
            Monitor!MonitorRestarts, Monitor!MarketMoves, Monitor!monVars, Monitor!table

(* Initially nothing is copied. *)
LEMMA CopiesStart == Init => CopiesMatch
BY MonitorStart, Nobody DEF Monitor!MonitorInit, CopiesMatch

(* Each target but the last sells one part, once, as long as the history is *)
(* not cleared while rows are worked on.                                    *)
THEOREM TargetsSoldOnce ==
    ASSUME ~ClearBusy
    PROVE  Spec => []EachTargetOnce
<1> DEFINE Inv == MonitorTypes /\ CopiesMatch /\ Monitor!EachTargetOnce
<1>1. Inv /\ [Next]_vars => Inv'
  BY MonitorSteps, MonitorTypesStep, CopiesStep, TargetsStep
<1>2. Init => Inv
  BY MonitorStart, CopiesStart, NoRowFields DEF Monitor!MonitorInit, Monitor!EachTargetOnce
<1>3. Inv => EachTargetOnce
  BY DEF EachTargetOnce
<1> QED BY <1>1, <1>2, <1>3, PTL DEF Spec

(* A live row is closed by the engine alone, as long as the history is not  *)
(* cleared while rows are worked on.                                        *)
THEOREM LiveLeftToEngine ==
    ASSUME ~ClearBusy
    PROVE  Spec => []LiveNotSimulated
<1> DEFINE Inv == MonitorTypes /\ CopiesMatch /\ Monitor!LiveNotSimulated
<1>1. Inv /\ [Next]_vars => Inv'
  BY MonitorSteps, MonitorTypesStep, CopiesStep, LiveStep
<1>2. Init => Inv
  BY MonitorStart, CopiesStart, NoRowFields DEF Monitor!MonitorInit, Monitor!LiveNotSimulated
<1>3. Inv => LiveNotSimulated
  BY DEF LiveNotSimulated
<1> QED BY <1>1, <1>2, <1>3, PTL DEF Spec

-----------------------------------------------------------------------------
(* The trades of the engine.  While it manages a trade, or has written its  *)
(* row and not yet registered it, the row is open and whole, and neither a  *)
(* manual close nor a round past its filter holds a copy of it: the filter  *)
(* of the round and the test of the close see it, unless they looked        *)
(* between the row and the registration.                                    *)
EngineAlone ==
    ~raced =>
        /\ managed \cap entering = {}
        /\ \A i \in managed \cup entering :
              /\ Monitor!Open(i) /\ rows[i].parts = 0 /\ i \notin DOMAIN manual
              /\ round \in {"fetch", "apply"} => i \notin DOMAIN seen

(* The inductive step. *)
LEMMA EngineAloneStep ==
    ASSUME ~ClearBusy, MonitorTypes, CopiesMatch, EngineAlone,
           [Monitor!MonitorNext]_(Monitor!monVars)
    PROVE  EngineAlone'
<1>1. CASE Monitor!MonitorTick
  BY <1>1 DEF EngineAlone, Monitor!MonitorTick, Monitor!Open, Monitor!table
<1>2. CASE Monitor!LeaveOutManaged
  <2>1. /\ DOMAIN seen' = {i \in DOMAIN seen : Monitor!Ours(i)}
        /\ raced' = (raced \/ DOMAIN seen' \cap entering # {})
        /\ UNCHANGED <<rows, managed, entering, manual>>
    BY <1>2 DEF Monitor!LeaveOutManaged, Monitor!table
  <2> QED BY <2>1 DEF MonitorTypes, EngineAlone, Monitor!Ours, Monitor!Open
<1>3. CASE Monitor!FetchPrices
  BY <1>3, Nobody DEF EngineAlone, Monitor!FetchPrices, Monitor!Open, Monitor!table
<1>4. ASSUME NEW i \in Ids, Monitor!ApplyStep(i) PROVE EngineAlone'
  <2>1. OthersStay(i)
    BY <1>4, ApplyEffect, CloseRowEffect, PartSaleEffect DEF MonitorTypes, OthersStay
  <2>2. /\ i \in DOMAIN seen /\ DOMAIN seen' \subseteq DOMAIN seen /\ round = "apply"
        /\ UNCHANGED <<managed, entering, manual, raced>>
    BY <1>4, ApplyEffect
  <2> QED BY <2>1, <2>2 DEF MonitorTypes, EngineAlone, OthersStay, Monitor!Open
<1>5. ASSUME NEW i \in Ids, Monitor!UserOpens(i) \/ Monitor!EngineWrites(i) PROVE EngineAlone'
  <2>1. /\ rows[i].status = "none" /\ OthersStay(i)
        /\ rows'[i].status = "open" /\ rows'[i].parts = 0
        /\ UNCHANGED <<managed, round, seen, manual, raced>>
        /\ entering' = entering \/ entering' = entering \cup {i}
    BY <1>5, NewRowEffect, NoRowFields
  <2>2. i \notin DOMAIN seen /\ i \notin DOMAIN manual
    BY <2>1 DEF CopiesMatch
  <2>3. ~raced => i \notin managed \cup entering
    BY <2>1 DEF EngineAlone, Monitor!Open
  <2> QED BY <2>1, <2>2, <2>3 DEF MonitorTypes, EngineAlone, OthersStay, Monitor!Open
<1>6. ASSUME NEW i \in Ids, Monitor!UserCloses(i) PROVE EngineAlone'
  BY <1>6 DEF EngineAlone, Monitor!UserCloses, Monitor!Open, Monitor!table
<1>7. ASSUME NEW i \in Ids, Monitor!UserClosed(i) PROVE EngineAlone'
  <2>1. OthersStay(i)
    BY <1>7, CloseRowEffect DEF MonitorTypes, Monitor!UserClosed, OthersStay
  <2>2. /\ i \in DOMAIN manual /\ DOMAIN manual' \subseteq DOMAIN manual
        /\ UNCHANGED <<managed, entering, round, seen, raced>>
    BY <1>7 DEF Monitor!UserClosed
  <2> QED BY <2>1, <2>2 DEF MonitorTypes, EngineAlone, OthersStay, Monitor!Open
<1>8. ASSUME NEW i \in Ids, Monitor!EngineRegisters(i) PROVE EngineAlone'
  BY <1>8 DEF EngineAlone, Monitor!EngineRegisters, Monitor!Open
<1>9. ASSUME NEW i \in Ids, Monitor!EngineCloses(i) PROVE EngineAlone'
  <2>1. OthersStay(i)
    BY <1>9, CloseRowEffect DEF MonitorTypes, Monitor!EngineCloses
  <2>2. /\ i \in managed /\ managed' = managed \ {i}
        /\ UNCHANGED <<entering, round, seen, manual, raced>>
    BY <1>9 DEF Monitor!EngineCloses
  <2> QED BY <2>1, <2>2 DEF MonitorTypes, EngineAlone, OthersStay, Monitor!Open
<1>10. CASE Monitor!ClearHistory
  <2>1. managed' = {} /\ entering' = {}
    BY <1>10 DEF Monitor!ClearHistory
  <2> QED BY <2>1 DEF EngineAlone
<1>11. CASE Monitor!MonitorRestarts
  BY <1>11 DEF EngineAlone, Monitor!MonitorRestarts
<1>12. CASE UNCHANGED <<rows, managed, entering, round, seen, manual, raced>>
  BY <1>12 DEF EngineAlone, Monitor!Open
<1> QED BY <1>1, <1>2, <1>3, <1>4, <1>5, <1>6, <1>7, <1>8, <1>9, <1>10, <1>11, <1>12
        DEF Monitor!MonitorNext, Monitor!MarketMoves, Monitor!monVars, Monitor!table

(* Neither the monitor nor a manual close touches a trade while the engine  *)
(* manages it, unless the interface thread looked just between the row and  *)
(* the registration, and as long as the history is not cleared meanwhile.   *)
THEOREM EngineUndisturbed ==
    ASSUME ~ClearBusy
    PROVE  Spec => []ManagedUntouched
<1> DEFINE Inv == MonitorTypes /\ CopiesMatch /\ EngineAlone
<1>1. Inv /\ [Next]_vars => Inv'
  BY MonitorSteps, MonitorTypesStep, CopiesStep, EngineAloneStep
<1>2. Init => Inv
  BY MonitorStart, CopiesStart DEF Monitor!MonitorInit, EngineAlone
<1>3. Inv => ManagedUntouched
  BY DEF EngineAlone, ManagedUntouched, Monitor!ManagedUntouched
<1> QED BY <1>1, <1>2, <1>3, PTL DEF Spec

-----------------------------------------------------------------------------
(* The results of the signals.                                              *)
LEMMA ResultsAssumption == Day \in Nat \ {0} /\ Life \in Nat
BY PartsAssumption DEF Results!OutcomesAssumption

(* A step of the whole is a step of the tracker, or leaves it alone. *)
LEMMA ResultsSteps == [Next]_vars => [Results!OutcomesNext]_(Results!outcomeVars)
BY DEF Next, TicksStep, StreamsStep, CandlesStep, MonitorStep, RunnerStep, LinksStep, SwitchStep,
       ResultsStep, ChatStep, vars, resultVars, Results!outcomeVars

\* A record of the tracker, as far as the proofs need it.
Statuses == {"none", "stored", "PENDING", "TARGET", "STOP", "EXPIRED"}

ResultRecord == [status : Statuses, hit : Int, age : Nat, checked : BOOLEAN, low : Int, high : Int,
                 gap : Nat, blind : BOOLEAN]

(* A record of the tracker with its fields replaced is a record. *)
LEMMA RecordUpdates ==
    ASSUME NEW r \in ResultRecord
    PROVE  /\ \A v \in Statuses : [r EXCEPT !.status = v] \in ResultRecord
           /\ \A v \in Int : [r EXCEPT !.hit = v] \in ResultRecord
           /\ \A v \in Nat : [r EXCEPT !.age = v] \in ResultRecord
           /\ \A v \in BOOLEAN : [r EXCEPT !.checked = v] \in ResultRecord
           /\ \A v \in Int : [r EXCEPT !.low = v] \in ResultRecord
           /\ \A v \in Int : [r EXCEPT !.high = v] \in ResultRecord
           /\ \A v \in Nat : [r EXCEPT !.gap = v] \in ResultRecord
           /\ \A v \in BOOLEAN : [r EXCEPT !.blind = v] \in ResultRecord
BY DEF ResultRecord

(* The lowest price of the day is a price, and no other of the day is below it. *)
LEMMA LowestOfDay ==
    ASSUME path \in [1..Day -> Results!Price]
    PROVE  /\ Results!Lowest(path) \in Int
           /\ Results!Lowest(path) > Results!Stop => \A i \in 1..Day : path[i] > Results!Stop
<1> DEFINE S == Results!ToSet(path)
<1>1. S \subseteq Results!Price /\ (\E x : x \in S) /\ \A i \in 1..Day : path[i] \in S
  BY ResultsAssumption DEF Results!ToSet
<1>2. \E x \in S : \A y \in S : x <= y
  <2>1. S \subseteq {0, 1, 2, 3}
    BY <1>1 DEF Results!Price, Results!Stop, Results!Final
  <2> HIDE DEF S
  <2>2. CASE 0 \in S
    BY <2>1, <2>2
  <2>3. CASE 0 \notin S /\ 1 \in S
    BY <2>1, <2>3
  <2>4. CASE 0 \notin S /\ 1 \notin S /\ 2 \in S
    BY <2>1, <2>4
  <2>5. CASE S \subseteq {3}
    BY <1>1, <2>5
  <2> QED BY <2>1, <2>2, <2>3, <2>4, <2>5
<1>3. Results!Lowest(path) \in S /\ \A y \in S : Results!Lowest(path) <= y
  <2> DEFINE P(x) == \A y \in S : x <= y
  <2>1. Results!Lowest(path) = CHOOSE x \in S : P(x)
    BY DEF Results!Lowest
  <2>2. \E x \in S : P(x)
    BY <1>2
  <2> HIDE DEF P, S
  <2>3. (CHOOSE x \in S : P(x)) \in S /\ P(CHOOSE x \in S : P(x))
    BY <2>2
  <2> QED BY <2>1, <2>3 DEF P
<1>4. S \subseteq Int
  BY <1>1 DEF Results!Price, Results!Stop, Results!Final
<1>5. \A i \in 1..Day : path[i] \in S
  BY <1>1
<1> HIDE DEF S
<1>6. Results!Lowest(path) \in Int
  BY <1>3, <1>4
<1>7. ASSUME NEW i \in 1..Day PROVE Results!Lowest(path) <= path[i] /\ path[i] \in Int
  BY <1>3, <1>4, <1>5
<1> HIDE DEF Results!Lowest
<1> QED BY <1>6, <1>7 DEF Results!Stop

(* A stop that was touched and not seen yet is in the part of the day since   *)
(* the last check.                                                            *)
InWindow(r, p) ==
    ~r.blind /\ r.gap <= Day /\ r.low <= Results!Stop =>
        \E i \in 1..Day : i > Day - r.gap /\ p[i] <= Results!Stop

SeenFrom(r, p) ==
    /\ r \in ResultRecord
    /\ r.status = "TARGET" /\ ~r.blind => r.low > Results!Stop
    /\ ~Results!IsClosed(r) => InWindow(r, p)
    /\ r.status = "none" => r.low > Results!Stop

ResultInv ==
    /\ path \in [1..Day -> Results!Price]
    /\ outcome \in [SignalIds -> ResultRecord]
    /\ \A s \in SignalIds : SeenFrom(outcome[s], path)

(* There are two targets to hit. *)
LEMMA TwoTargets == ASSUME NEW w PROVE Results!TargetsHit(w) \in 0..2
<1> DEFINE T == {t \in {Results!First, Results!Final} : t <= Results!Highest(w)}
<1>1. Results!TargetsHit(w) = Cardinality(T)
  BY DEF Results!TargetsHit, Results!Cardinality, Cardinality
<1>2. IsFiniteSet(2..3) /\ Cardinality(2..3) = 2
  <2>1. 2 \in Int /\ 3 \in Int
    OBVIOUS
  <2>2. IsFiniteSet(2..3) /\ Cardinality(2..3) = IF 2 > 3 THEN 0 ELSE 3 - 2 + 1
    BY <2>1, FS_Interval, Zenon
  <2> QED BY <2>2
<1>3. T \in SUBSET (2..3)
  BY DEF Results!First, Results!Final
<1> HIDE DEF T
<1>4. Cardinality(T) \in Nat /\ Cardinality(T) <= 2
  BY <1>2, <1>3, FS_Subset, FS_CardinalityType
<1> QED BY <1>1, <1>4

(* The check of a record sees what its window holds. *)
LEMMA UpdateSees ==
    ASSUME path \in [1..Day -> Results!Price], NEW r \in ResultRecord, SeenFrom(r, path),
           NEW kind \in {"day", "last"}
    PROVE  SeenFrom(Results!Updated(r, kind), path)
<1>1. CASE Results!IsClosed(r)
  BY <1>1 DEF Results!Updated
<1>2. CASE ~Results!IsClosed(r)
  <2> DEFINE w == Results!Window(kind)
             st == Results!Status(r, w)
             ht == IF Results!Lowest(w) <= Results!Stop THEN r.hit ELSE Results!Higher(r.hit, Results!TargetsHit(w))
             bl == r.blind \/ kind = "last" \/ r.gap > Day
             q1 == [r EXCEPT !.status = st]
             q2 == [q1 EXCEPT !.hit = ht]
             q3 == [q2 EXCEPT !.checked = TRUE]
             q4 == [q3 EXCEPT !.gap = 0]
             q5 == [q4 EXCEPT !.blind = bl]
             q == [r EXCEPT !.status = st, !.hit = ht, !.checked = TRUE, !.gap = 0, !.blind = bl]
  <2>1. Results!Updated(r, kind) = q
    BY <1>2, Zenon DEF Results!Updated
  <2>2. st \in {"STOP", "TARGET", "EXPIRED", "PENDING"}
    BY DEF Results!Status, Results!Undecided
  <2>3. st # "STOP" => ~(Results!Lowest(w) <= Results!Stop)
    BY DEF Results!Status
  <2>4. bl \in BOOLEAN
    OBVIOUS
  <2>5. ht \in Int
    <3>1. Results!TargetsHit(w) \in 0..2
      BY TwoTargets
    <3>2. r.hit \in Int
      BY DEF ResultRecord
    <3> HIDE DEF w
    <3> QED BY <3>1, <3>2 DEF Results!Higher
  <2> HIDE DEF st, ht, bl, w
  <2>6. q1 \in ResultRecord /\ q1.low = r.low /\ q1.status = st
    BY <2>2, RecordUpdates DEF ResultRecord, Statuses
  <2> HIDE DEF q1
  <2>7. q2 \in ResultRecord /\ q2.low = r.low /\ q2.status = st
    BY <2>5, <2>6, RecordUpdates DEF ResultRecord
  <2> HIDE DEF q2
  <2>8. q3 \in ResultRecord /\ q3.low = r.low /\ q3.status = st
    BY <2>7, RecordUpdates DEF ResultRecord
  <2> HIDE DEF q3
  <2>9. q4 \in ResultRecord /\ q4.low = r.low /\ q4.status = st /\ q4.gap = 0
    BY <2>8, RecordUpdates DEF ResultRecord
  <2> HIDE DEF q4
  <2>10. /\ q5 \in ResultRecord /\ q5.low = r.low /\ q5.status = st /\ q5.gap = 0
         /\ q5.blind = bl
    BY <2>4, <2>9, RecordUpdates DEF ResultRecord
  <2> HIDE DEF q5
  <2>11. q = q5
    BY DEF q1, q2, q3, q4, q5
  <2> HIDE DEF q
  <2>12. ASSUME ~bl, st # "STOP" PROVE r.low > Results!Stop
    <3>1. ~r.blind /\ r.gap <= Day /\ kind = "day"
      <4>1. r.gap \in Nat /\ r.blind \in BOOLEAN
        BY DEF ResultRecord
      <4> QED BY <2>12, <4>1, ResultsAssumption DEF bl
    <3>2. w = path
      BY <3>1 DEF w, Results!Window
    <3>3. Results!Lowest(path) > Results!Stop
      BY <2>3, <2>12, <3>2, LowestOfDay DEF Results!Stop
    <3>4. \A i \in 1..Day : path[i] > Results!Stop
      BY <3>3, LowestOfDay
    <3>5. \A i \in 1..Day : ~(path[i] <= Results!Stop)
      <4>1. \A i \in 1..Day : path[i] \in Int
        BY DEF Results!Price, Results!Stop, Results!Final
      <4> QED BY <3>4, <4>1 DEF Results!Stop
    <3>6. r.low \in Int
      BY DEF ResultRecord
    <3> QED BY <1>2, <3>1, <3>5, <3>6 DEF SeenFrom, InWindow, Results!Stop
  <2>13. q5.low \in Int /\ q5.gap \in Int
    BY <2>10 DEF ResultRecord
  <2>14. SeenFrom(q5, path)
    <3>1. ~q5.blind /\ q5.status # "STOP" => q5.low > Results!Stop
      BY <2>10, <2>12
    <3>2. ~Results!IsClosed(q5) => q5.status # "STOP"
      BY DEF Results!IsClosed
    <3>3. q5.status # "none"
      BY <2>2, <2>10
    <3>4. q5.low > Results!Stop => ~(q5.low <= Results!Stop)
      BY <2>13 DEF Results!Stop
    <3>5. q5.status = "TARGET" /\ ~q5.blind => q5.low > Results!Stop
      BY <3>1
    <3>6. ~Results!IsClosed(q5) => InWindow(q5, path)
      BY <3>1, <3>2, <3>4 DEF InWindow
    <3> QED BY <2>10, <3>3, <3>5, <3>6 DEF SeenFrom
  <2> QED BY <2>1, <2>11, <2>14
<1> QED BY <1>1, <1>2

(* The price moves. *)
LEMMA ElapseSees == ASSUME ResultInv, Results!Elapse PROVE ResultInv'
<1>1. PICK p \in Results!Price :
        /\ path' = Append(Tail(path), p)
        /\ outcome' = [s \in SignalIds |->
               IF outcome[s].status \notin {"stored", "PENDING"} THEN outcome[s]
               ELSE [outcome[s] EXCEPT !.age = Results!Lower(Life, outcome[s].age + 1),
                                       !.gap = Results!Lower(Day + 1, outcome[s].gap + 1),
                                       !.low = Results!Lower(outcome[s].low, p),
                                       !.high = Results!Higher(outcome[s].high, p)]]
  BY DEF Results!Elapse
<1>2. path \in Seq(Results!Price) /\ Len(path) = Day /\ path # <<>>
  BY ResultsAssumption DEF ResultInv
<1>3. /\ path' \in [1..Day -> Results!Price] /\ path'[Day] = p
      /\ \A i \in 1..(Day - 1) : path'[i] = path[i + 1]
  <2> DEFINE d == Tail(path)
  <2>1. /\ d \in Seq(Results!Price) /\ Len(d) = Day - 1
        /\ \A i \in 1..(Day - 1) : d[i] = path[i + 1]
    BY <1>2, ResultsAssumption
  <2>2. path' = Append(d, p)
    BY <1>1
  <2> HIDE DEF d
  <2>3. /\ path' \in Seq(Results!Price) /\ Len(path') = Day /\ path'[Day] = p
        /\ \A i \in 1..(Day - 1) : path'[i] = d[i]
    BY <2>1, <2>2, ResultsAssumption
  <2>4. path' \in [1..Day -> Results!Price]
    BY <2>3
  <2> QED BY <2>1, <2>3, <2>4
<1>4. p \in Int
  BY DEF Results!Price, Results!Stop, Results!Final
<1>5. ASSUME NEW s \in SignalIds
      PROVE  outcome'[s] \in ResultRecord /\ SeenFrom(outcome'[s], path')
  <2> DEFINE r == outcome[s]
             ag == Results!Lower(Life, r.age + 1)
             gp == Results!Lower(Day + 1, r.gap + 1)
             lw == Results!Lower(r.low, p)
             hg == Results!Higher(r.high, p)
             q1 == [r EXCEPT !.age = ag]
             q2 == [q1 EXCEPT !.gap = gp]
             q3 == [q2 EXCEPT !.low = lw]
             q4 == [q3 EXCEPT !.high = hg]
             q  == [r EXCEPT !.age = ag, !.gap = gp, !.low = lw, !.high = hg]
  <2>1. r \in ResultRecord /\ SeenFrom(r, path)
    BY DEF ResultInv
  <2>2. outcome'[s] = IF r.status \notin {"stored", "PENDING"} THEN r ELSE q
    BY <1>1
  <2> HIDE DEF r
  <2>3. CASE r.status \notin {"stored", "PENDING"}
    <3>1. outcome'[s] = r
      BY <2>2, <2>3
    <3>2. CASE Results!IsClosed(r)
      BY <2>1, <3>1, <3>2 DEF SeenFrom
    <3>3. CASE ~Results!IsClosed(r)
      <4>1. r.status = "none"
        BY <2>1, <2>3, <3>3 DEF Results!IsClosed, ResultRecord, Statuses
      <4>2. ~(r.low <= Results!Stop)
        BY <2>1, <4>1 DEF SeenFrom, ResultRecord, Results!Stop
      <4> QED BY <2>1, <3>1, <3>3, <4>2 DEF SeenFrom, InWindow
    <3> QED BY <3>2, <3>3
  <2>4. CASE r.status \in {"stored", "PENDING"}
    <3>1. r.age \in Nat /\ r.gap \in Nat /\ r.low \in Int /\ r.high \in Int
      BY <2>1 DEF ResultRecord
    <3>2. /\ ag \in Nat /\ gp \in Nat /\ lw \in Int /\ hg \in Int
          /\ gp <= Day => gp = r.gap + 1
          /\ lw <= Results!Stop => p <= Results!Stop \/ r.low <= Results!Stop
      BY <1>4, <3>1, ResultsAssumption DEF Results!Lower, Results!Higher
    <3> HIDE DEF ag, gp, lw, hg
    <3>3. q1 \in ResultRecord /\ q1.status = r.status /\ q1.blind = r.blind
      BY <2>1, <3>2, RecordUpdates DEF ResultRecord
    <3> HIDE DEF q1
    <3>4. q2 \in ResultRecord /\ q2.status = r.status /\ q2.blind = r.blind /\ q2.gap = gp
      BY <3>2, <3>3, RecordUpdates DEF ResultRecord
    <3> HIDE DEF q2
    <3>5. /\ q3 \in ResultRecord /\ q3.status = r.status /\ q3.blind = r.blind
          /\ q3.gap = gp /\ q3.low = lw
      BY <3>2, <3>4, RecordUpdates DEF ResultRecord
    <3> HIDE DEF q3
    <3>6. /\ q4 \in ResultRecord /\ q4.status = r.status /\ q4.blind = r.blind
          /\ q4.gap = gp /\ q4.low = lw
      BY <3>2, <3>5, RecordUpdates DEF ResultRecord
    <3>7. outcome'[s] = q4
      BY <2>2, <2>4 DEF q1, q2, q3
    <3> HIDE DEF q4
    <3>8. InWindow(q4, path')
      <4> SUFFICES ASSUME ~r.blind, gp <= Day, lw <= Results!Stop
                   PROVE  \E i \in 1..Day : i > Day - gp /\ path'[i] <= Results!Stop
        BY <3>6 DEF InWindow
      <4>1. CASE p <= Results!Stop
        BY <1>3, <3>1, <3>2, <4>1, ResultsAssumption
      <4>2. CASE r.low <= Results!Stop
        <5>1. PICK i \in 1..Day : i > Day - r.gap /\ path[i] <= Results!Stop
          <6>1. ~Results!IsClosed(r) /\ r.gap <= Day
            BY <2>4, <3>1, <3>2, ResultsAssumption DEF Results!IsClosed
          <6> QED BY <2>1, <4>2, <6>1 DEF SeenFrom, InWindow
        <5>2. i - 1 \in 1..(Day - 1) /\ i - 1 > Day - gp
          BY <3>1, <3>2, <5>1, ResultsAssumption
        <5>3. path'[i - 1] = path[i]
          BY <1>3, <5>2
        <5> QED BY <5>1, <5>2, <5>3, ResultsAssumption
      <4> QED BY <3>2, <4>1, <4>2
    <3> QED BY <2>4, <3>6, <3>7, <3>8 DEF SeenFrom
  <2> QED BY <2>3, <2>4
<1>6. outcome' \in [SignalIds -> ResultRecord]
  <2>1. DOMAIN outcome' = SignalIds /\ outcome' = [s \in SignalIds |-> outcome'[s]]
    BY <1>1
  <2> QED BY <1>5, <2>1
<1> QED BY <1>3, <1>5, <1>6 DEF ResultInv

(* A record that only becomes pending is seen as before. *)
LEMMA PendsSees ==
    ASSUME NEW r \in ResultRecord, NEW p, SeenFrom(r, p), NEW st \in {"stored", "PENDING"},
           ~Results!IsClosed(r)
    PROVE  SeenFrom([r EXCEPT !.status = st], p)
<1> DEFINE q == [r EXCEPT !.status = st]
<1>1. q \in ResultRecord /\ q.status = st /\ q.low = r.low /\ q.gap = r.gap /\ q.blind = r.blind
  BY RecordUpdates DEF ResultRecord, Statuses
<1> HIDE DEF q
<1>2. SeenFrom(q, p)
  BY <1>1 DEF SeenFrom, InWindow
<1> QED BY <1>2 DEF q

(* The records of a round are checked, whichever they are. *)
LEMMA AppliedSees ==
    ASSUME ResultInv, NEW read, NEW daily, NEW single, NEW s \in SignalIds
    PROVE  SeenFrom(Results!Applied(read, daily, single)[s], path)
<1>1. outcome[s] \in ResultRecord /\ SeenFrom(outcome[s], path) /\ path \in [1..Day -> Results!Price]
  BY DEF ResultInv
<1>2. \/ Results!Applied(read, daily, single)[s] = outcome[s]
      \/ \E kind \in {"day", "last"} :
            Results!Applied(read, daily, single)[s] = Results!Updated(outcome[s], kind)
  BY DEF Results!Applied
<1> QED BY <1>1, <1>2, UpdateSees

(* Every step of the tracker keeps it so. *)
LEMMA ResultStays == ResultInv /\ [Results!OutcomesNext]_(Results!outcomeVars) => ResultInv'
<1> SUFFICES ASSUME ResultInv, [Results!OutcomesNext]_(Results!outcomeVars) PROVE ResultInv'
  OBVIOUS
<1>1. ASSUME path' = path, outcome' = [s \in SignalIds |-> outcome'[s]],
             \A s \in SignalIds : SeenFrom(outcome'[s], path)
      PROVE  ResultInv'
  <2>1. \A s \in SignalIds : outcome'[s] \in ResultRecord
    BY <1>1 DEF SeenFrom
  <2>2. outcome' \in [SignalIds -> ResultRecord]
    BY <1>1, <2>1
  <2> QED BY <1>1, <2>2 DEF ResultInv
<1>2. CASE path' = path /\ outcome' = outcome
  BY <1>2 DEF ResultInv
<1>3. ASSUME NEW s \in SignalIds, Results!SaveSignal(s) PROVE ResultInv'
  <2>1. PICK st \in {"stored", "PENDING"} : outcome' = [outcome EXCEPT ![s].status = st] /\ path' = path
    BY <1>3 DEF Results!SaveSignal
  <2>2. outcome[s].status = "none" /\ outcome \in [SignalIds -> ResultRecord]
    BY <1>3 DEF Results!SaveSignal, ResultInv
  <2>3. SeenFrom([outcome[s] EXCEPT !.status = st], path)
    <3>1. ~Results!IsClosed(outcome[s])
      BY <2>2 DEF Results!IsClosed
    <3> QED BY <3>1, PendsSees DEF ResultInv
  <2>4. /\ outcome' = [x \in SignalIds |-> outcome'[x]]
        /\ outcome'[s] = [outcome[s] EXCEPT !.status = st]
        /\ \A x \in SignalIds \ {s} : outcome'[x] = outcome[x]
    BY <2>1, <2>2
  <2> QED BY <1>1, <2>1, <2>3, <2>4 DEF ResultInv
<1>4. CASE Results!Restart
  <2>1. PICK n \in 0..Len(batch) :
          LET read   == SubSeq(batch, 1, n)
              priced == Results!ToSet(read) \ Unlisted
              rows1  == Results!Applied(read, priced, {})
              missed == {s \in SignalIds : rows1[s].status = "stored"}
          IN  /\ outcome' = [s \in SignalIds |-> IF s \in missed THEN [rows1[s] EXCEPT !.status = "PENDING"]
                                                 ELSE rows1[s]]
              /\ path' = path
    BY <1>4 DEF Results!Restart
  <2> DEFINE read   == SubSeq(batch, 1, n)
             priced == Results!ToSet(read) \ Unlisted
             rows1  == Results!Applied(read, priced, {})
  <2>2. \A s \in SignalIds : SeenFrom(rows1[s], path)
    <3> HIDE DEF read, priced
    <3> QED BY AppliedSees
  <2> HIDE DEF read, priced, rows1
  <2>3. /\ outcome' = [s \in SignalIds |-> outcome'[s]] /\ path' = path
        /\ \A s \in SignalIds :
              \/ outcome'[s] = rows1[s]
              \/ rows1[s].status = "stored" /\ outcome'[s] = [rows1[s] EXCEPT !.status = "PENDING"]
    BY <2>1 DEF read, priced, rows1
  <2>4. ASSUME NEW s \in SignalIds PROVE SeenFrom(outcome'[s], path)
    <3>1. rows1[s] \in ResultRecord
      BY <2>2 DEF SeenFrom
    <3>2. rows1[s].status = "stored" => ~Results!IsClosed(rows1[s])
      BY DEF Results!IsClosed
    <3> QED BY <2>2, <2>3, <3>1, <3>2, PendsSees
  <2> QED BY <1>1, <2>3, <2>4
<1>5. ASSUME NEW daily, NEW single, Results!EndRound(daily, single) PROVE ResultInv'
  <2>1. outcome' = Results!Applied(batch, daily, single) /\ path' = path
    BY <1>5 DEF Results!EndRound
  <2>2. \A s \in SignalIds : SeenFrom(outcome'[s], path)
    BY <2>1, AppliedSees
  <2>3. outcome' = [s \in SignalIds |-> outcome'[s]]
    BY <2>1 DEF Results!Applied
  <2> QED BY <1>1, <2>1, <2>2, <2>3
<1>6. CASE Results!BeginRound \/ UNCHANGED Results!outcomeVars
  BY <1>2, <1>6 DEF Results!BeginRound, Results!outcomeVars
<1> QED BY <1>3, <1>4, <1>5, <1>6, ElapseSees DEF Results!OutcomesNext

(* Initially no signal is there. *)
LEMMA ResultStart == Init => ResultInv
<1> SUFFICES ASSUME Init PROVE ResultInv
  OBVIOUS
<1>1. path \in [1..Day -> Results!Price] /\ outcome = [s \in SignalIds |-> Results!Unmade]
  BY DEF Init, Results!OutcomesInit
<1>2. /\ Results!Unmade \in ResultRecord /\ Results!Unmade.low = 1
      /\ Results!Unmade.status = "none"
  BY DEF Results!Unmade, ResultRecord, Statuses, Results!Entry
<1> HIDE DEF Results!Unmade
<1>3. SeenFrom(Results!Unmade, path)
  BY <1>2 DEF SeenFrom, InWindow, Results!Stop
<1> QED BY <1>1, <1>2, <1>3 DEF ResultInv

(* A signal whose whole course was seen counts as won only if its stop was    *)
(* not touched before (outcome_tracker.py looks at the stop first), however   *)
(* long the day of a ticker, the life of a signal and the rounds are, and     *)
(* wherever the program is started again.                                     *)
THEOREM WonWithoutStop == Spec => []TargetMeansNoStop
<1>1. ResultInv /\ [Next]_vars => ResultInv'
  BY ResultsSteps, ResultStays
<1>2. ResultInv => TargetMeansNoStop
  BY DEF ResultInv, SeenFrom, TargetMeansNoStop, Results!TargetMeansNoStop
<1> QED BY <1>1, <1>2, ResultStart, PTL DEF Spec

-----------------------------------------------------------------------------
(* The quote of the market, and the restarts that are left. *)
QuoteTypes == price \in 0..5 /\ fresh \in BOOLEAN /\ restarts \in 0..MaxRestarts

(* Every step of the monitor keeps them so. *)
LEMMA QuoteTypesStep ==
    ASSUME QuoteTypes, [Monitor!MonitorNext]_(Monitor!monVars)
    PROVE  QuoteTypes'
<1> USE DEF QuoteTypes
<1>0. MaxRestarts \in Nat
  BY TradeAssumptions DEF Monitor!MonitorAssumption
<1>1. CASE Monitor!MonitorTick \/ Monitor!LeaveOutManaged
  BY <1>1 DEF Monitor!MonitorTick, Monitor!LeaveOutManaged, Monitor!market
<1>2. CASE Monitor!FetchPrices \/ Monitor!MarketMoves
  BY <1>2 DEF Monitor!FetchPrices, Monitor!MarketMoves
<1>3. ASSUME NEW i \in Ids, \/ Monitor!ApplyStep(i) \/ Monitor!UserOpens(i) \/ Monitor!UserCloses(i)
                            \/ Monitor!EngineWrites(i) \/ Monitor!EngineRegisters(i)
                            \/ Monitor!EngineCloses(i)
      PROVE  QuoteTypes'
  BY <1>3 DEF Monitor!ApplyStep, Monitor!UserOpens, Monitor!UserCloses, Monitor!EngineWrites,
              Monitor!EngineRegisters, Monitor!EngineCloses, Monitor!market
<1>4. ASSUME NEW i \in Ids, Monitor!UserClosed(i) PROVE QuoteTypes'
  BY <1>4 DEF Monitor!UserClosed
<1>5. CASE Monitor!ClearHistory \/ Monitor!MonitorRestarts
  BY <1>0, <1>5 DEF Monitor!ClearHistory, Monitor!MonitorRestarts, Monitor!market
<1>6. CASE UNCHANGED Monitor!monVars
  BY <1>6 DEF Monitor!monVars
<1> QED BY <1>1, <1>2, <1>3, <1>4, <1>5, <1>6 DEF Monitor!MonitorNext

(* Initially the quote is that of the entry. *)
LEMMA QuoteTypesStart == Init => QuoteTypes
<1> SUFFICES ASSUME Monitor!MonitorInit PROVE QuoteTypes
  BY DEF Init
<1>1. MaxRestarts \in Nat
  BY TradeAssumptions DEF Monitor!MonitorAssumption
<1>2. price = 2 /\ fresh = FALSE /\ restarts = 0
  BY DEF Monitor!MonitorInit
<1>3. fresh \in BOOLEAN
  BY <1>2, Zenon
<1>4. price \in 0..5 /\ restarts \in 0..MaxRestarts
  BY <1>1, <1>2
<1> QED BY <1>3, <1>4 DEF QuoteTypes

(* Together they are the types of the monitor. *)
LEMMA MonitorTyped == MonitorTypes /\ QuoteTypes => Monitor!MonitorTypeOK
BY DEF MonitorTypes, QuoteTypes, Monitor!MonitorTypeOK

-----------------------------------------------------------------------------
(* A queue with no entry twice. *)
Once(q) == \A i, j \in 1..Len(q) : q[i] = q[j] => i = j

(* The recursion of Those has a solution, for a queue of any length. *)
LEMMA ThoseSteps ==
    ASSUME NEW A, NEW q \in Seq(A), NEW S
    PROVE  \E f : /\ Results!Those(q, S) = f[Len(q)]
                  /\ f = [n \in 0..Len(q) |->
                            IF n = 0 THEN <<>>
                            ELSE f[n - 1] \o (IF q[n] \in S THEN <<q[n]>> ELSE <<>>)]
<1> DEFINE Next1(g, n) == IF n = 0 THEN <<>>
                          ELSE g[n - 1] \o (IF q[n] \in S THEN <<q[n]>> ELSE <<>>)
           Solves(g, k) == g = [n \in 0..k |-> Next1(g, n)]
           K == {k \in Nat : \E g : Solves(g, k)}
<1>1. 0 \in K
  <2>1. Solves([n \in 0..0 |-> <<>>], 0)
    OBVIOUS
  <2> QED BY <2>1
<1>2. ASSUME NEW k \in Nat, k \in K PROVE k + 1 \in K
  <2>1. PICK f : Solves(f, k)
    BY <1>2
  <2> DEFINE g == [n \in 0..(k + 1) |-> IF n = k + 1 THEN Next1(f, n) ELSE f[n]]
  <2>2. \A n \in 0..k : g[n] = f[n]
    OBVIOUS
  <2>3. ASSUME NEW n \in 0..(k + 1) PROVE g[n] = Next1(g, n)
    <3>1. CASE n = k + 1
      <4>1. g[n] = Next1(f, n) /\ n - 1 \in 0..k /\ n # 0
        BY <3>1
      <4>2. g[n - 1] = f[n - 1]
        BY <2>2, <4>1
      <4> HIDE DEF g
      <4> QED BY <4>1, <4>2
    <3>2. CASE n \in 0..k
      <4>1. g[n] = f[n] /\ (n # 0 => g[n - 1] = f[n - 1])
        BY <2>2, <3>2
      <4>2. f[n] = Next1(f, n)
        BY <2>1, <3>2
      <4> HIDE DEF g
      <4> QED BY <4>1, <4>2
    <3> QED BY <3>1, <3>2
  <2>4. g = [n \in 0..(k + 1) |-> g[n]]
    OBVIOUS
  <2> HIDE DEF g, Next1
  <2>5. Solves(g, k + 1)
    BY <2>3, <2>4
  <2> QED BY <2>5
<1>3. \E g : Solves(g, Len(q))
  <2>1. Nat \subseteq K
    <3> HIDE DEF K
    <3> QED BY <1>1, <1>2, NatSets
  <2>2. Len(q) \in K
    <3> HIDE DEF K
    <3> QED BY <2>1
  <2> QED BY <2>2
<1> DEFINE first == CHOOSE g : Solves(g, Len(q))
<1>4. Solves(first, Len(q))
  BY <1>3
<1>5. Results!Those(q, S) = first[Len(q)]
  BY DEF Results!Those
<1> QED BY <1>4, <1>5

(* Two queues one after the other. *)
LEMMA JoinedQueues ==
    ASSUME NEW A, NEW p \in Seq(A), NEW q \in Seq(A)
    PROVE  /\ p \o q \in Seq(A) /\ Len(p \o q) = Len(p) + Len(q)
           /\ Results!ToSet(p \o q) = Results!ToSet(p) \cup Results!ToSet(q)
           /\ Once(p) /\ Once(q) /\ Results!ToSet(p) \cap Results!ToSet(q) = {} => Once(p \o q)
<1> DEFINE r == p \o q
<1>1. /\ r \in Seq(A) /\ Len(r) = Len(p) + Len(q) /\ Len(p) \in Nat /\ Len(q) \in Nat
      /\ \A i \in 1..Len(r) : r[i] = IF i <= Len(p) THEN p[i] ELSE q[i - Len(p)]
      /\ DOMAIN p = 1..Len(p) /\ DOMAIN q = 1..Len(q) /\ DOMAIN r = 1..Len(r)
  OBVIOUS
<1> HIDE DEF r
<1>2. \A i \in 1..Len(p) : i \in 1..Len(r) /\ r[i] = p[i]
  BY <1>1
<1>3. \A i \in 1..Len(q) : Len(p) + i \in 1..Len(r) /\ r[Len(p) + i] = q[i]
  BY <1>1
<1>4. \A i \in 1..Len(r) : \/ i \in 1..Len(p) /\ r[i] = p[i]
                           \/ i - Len(p) \in 1..Len(q) /\ r[i] = q[i - Len(p)]
  BY <1>1
<1>5. Results!ToSet(r) = Results!ToSet(p) \cup Results!ToSet(q)
  <2>1. ASSUME NEW x \in Results!ToSet(r) PROVE x \in Results!ToSet(p) \cup Results!ToSet(q)
    BY <1>1, <1>4, <2>1 DEF Results!ToSet
  <2>2. ASSUME NEW x \in Results!ToSet(p) PROVE x \in Results!ToSet(r)
    BY <1>1, <1>2, <2>2 DEF Results!ToSet
  <2>3. ASSUME NEW x \in Results!ToSet(q) PROVE x \in Results!ToSet(r)
    <3>1. PICK i \in 1..Len(q) : x = q[i]
      BY <1>1, <2>3 DEF Results!ToSet
    <3> QED BY <1>1, <1>3, <3>1 DEF Results!ToSet
  <2> QED BY <2>1, <2>2, <2>3
<1>6. ASSUME Once(p), Once(q), Results!ToSet(p) \cap Results!ToSet(q) = {},
             NEW i \in 1..Len(r), NEW j \in 1..Len(r), r[i] = r[j]
      PROVE  i = j
  <2>1. \A m \in 1..Len(p), n \in 1..Len(q) : p[m] # q[n]
    BY <1>1, <1>6 DEF Results!ToSet
  <2>2. CASE i \in 1..Len(p) /\ j \in 1..Len(p)
    BY <1>2, <1>6, <2>2 DEF Once
  <2>3. CASE i - Len(p) \in 1..Len(q) /\ j - Len(p) \in 1..Len(q)
    <3>1. q[i - Len(p)] = q[j - Len(p)]
      BY <1>1, <1>6, <2>3
    <3>2. i - Len(p) = j - Len(p)
      BY <1>6, <2>3, <3>1 DEF Once
    <3> QED BY <1>1, <3>2
  <2> QED BY <1>1, <1>4, <1>6, <2>1, <2>2, <2>3
<1>7. Once(p) /\ Once(q) /\ Results!ToSet(p) \cap Results!ToSet(q) = {} => Once(r)
  BY <1>6 DEF Once
<1> QED BY <1>1, <1>5, <1>7 DEF r

(* Those of a queue that are in a set: the queue's members that are in it,  *)
(* no more of them than before, and none twice that was not.                *)
LEMMA ThoseOfQueue ==
    ASSUME NEW A, NEW q \in Seq(A), NEW S
    PROVE  /\ Results!Those(q, S) \in Seq(A) /\ Len(Results!Those(q, S)) <= Len(q)
           /\ Results!ToSet(Results!Those(q, S)) = Results!ToSet(q) \cap S
           /\ Once(q) => Once(Results!Those(q, S))
<1>1. PICK f : /\ Results!Those(q, S) = f[Len(q)]
               /\ f = [n \in 0..Len(q) |->
                         IF n = 0 THEN <<>>
                         ELSE f[n - 1] \o (IF q[n] \in S THEN <<q[n]>> ELSE <<>>)]
  BY ThoseSteps
<1>2. Len(q) \in Nat /\ DOMAIN q = 1..Len(q) /\ \A n \in 1..Len(q) : q[n] \in A
  OBVIOUS
<1> DEFINE From(k) == {q[i] : i \in {j \in 1..k : q[j] \in S}}
           Good(k) == /\ f[k] \in Seq(A) /\ Len(f[k]) <= k
                      /\ Results!ToSet(f[k]) = From(k)
                      /\ Once(q) => Once(f[k])
           K == {k \in Nat : k <= Len(q) => Good(k)}
<1>3. 0 \in K
  <2>1. f[0] = <<>>
    BY <1>1, <1>2
  <2>2. <<>> \in Seq(A) /\ Len(<<>>) = 0
    OBVIOUS
  <2>3. From(0) = {} /\ Results!ToSet(<<>>) = {}
    BY DEF Results!ToSet
  <2>4. Once(<<>>)
    BY <2>2 DEF Once
  <2> DEFINE e == <<>>
  <2>5. f[0] = e /\ e \in Seq(A) /\ Len(e) = 0 /\ Results!ToSet(e) = From(0) /\ Once(e)
    BY <2>1, <2>2, <2>3, <2>4
  <2> HIDE DEF From, e
  <2>6. Good(0)
    BY <2>5
  <2> QED BY <2>6
<1>4. ASSUME NEW k \in Nat, k \in K PROVE k + 1 \in K
  <2> SUFFICES ASSUME k + 1 <= Len(q) PROVE Good(k + 1)
    OBVIOUS
  <2>1. Good(k) /\ k + 1 \in 1..Len(q) /\ k + 1 \in 0..Len(q)
    BY <1>2, <1>4
  <2> DEFINE x == q[k + 1]
             t == IF x \in S THEN <<x>> ELSE <<>>
  <2>2. f[k + 1] = f[k] \o t
    <3>1. f[k + 1] = f[(k + 1) - 1] \o t
      <4>1. \A n \in 0..Len(q) : n # 0 => f[n] = f[n - 1] \o (IF q[n] \in S THEN <<q[n]>> ELSE <<>>)
        BY <1>1
      <4>2. k + 1 # 0
        OBVIOUS
      <4> QED BY <2>1, <4>1, <4>2
    <3>2. (k + 1) - 1 = k
      OBVIOUS
    <3> QED BY <3>1, <3>2
  <2>3. x \in A
    BY <1>2, <2>1
  <2> HIDE DEF Good
  <2>4. CASE x \in S
    <3>1. t = <<x>> /\ <<x>> \in Seq(A) /\ Len(<<x>>) = 1 /\ Results!ToSet(<<x>>) = {x} /\ Once(<<x>>)
      <4>1. t = <<x>>
        BY <2>4
      <4> HIDE DEF x
      <4>2. <<x>> \in Seq(A) /\ Len(<<x>>) = 1 /\ <<x>>[1] = x /\ DOMAIN <<x>> = {1}
        BY <2>3
      <4> QED BY <4>1, <4>2 DEF Results!ToSet, Once
    <3>2. From(k + 1) = From(k) \cup {x}
      BY <2>4
    <3> HIDE DEF From, t
    <3>3. /\ f[k] \o <<x>> \in Seq(A) /\ Len(f[k] \o <<x>>) = Len(f[k]) + 1
          /\ Results!ToSet(f[k] \o <<x>>) = Results!ToSet(f[k]) \cup {x}
          /\ Once(f[k]) /\ Results!ToSet(f[k]) \cap {x} = {} => Once(f[k] \o <<x>>)
      <4> DEFINE e == <<x>>
                 g == f[k]
      <4>1. g \in Seq(A) /\ e \in Seq(A) /\ Len(e) = 1 /\ Results!ToSet(e) = {x} /\ Once(e)
        BY <2>1, <3>1 DEF Good
      <4> HIDE DEF x, e, g
      <4>2. /\ g \o e \in Seq(A) /\ Len(g \o e) = Len(g) + Len(e)
            /\ Results!ToSet(g \o e) = Results!ToSet(g) \cup Results!ToSet(e)
            /\ Once(g) /\ Once(e) /\ Results!ToSet(g) \cap Results!ToSet(e) = {} => Once(g \o e)
        BY <4>1, JoinedQueues
      <4> QED BY <4>1, <4>2 DEF e, g
    <3>4. Once(q) => x \notin From(k)
      BY <1>2, <2>1 DEF Once, From
    <3>5. Len(f[k]) \in Nat
      BY <2>1 DEF Good
    <3>6. /\ Len(f[k]) <= k /\ Results!ToSet(f[k]) = From(k) /\ (Once(q) => Once(f[k]))
          /\ f[k + 1] = f[k] \o <<x>>
      BY <2>1, <2>2, <3>1 DEF Good
    <3> HIDE DEF x
    <3>7. Once(q) => Once(f[k + 1])
      BY <3>3, <3>4, <3>6
    <3>8. Len(f[k + 1]) <= k + 1
      BY <3>3, <3>5, <3>6
    <3>9. f[k + 1] \in Seq(A) /\ Results!ToSet(f[k + 1]) = From(k + 1)
      BY <3>2, <3>3, <3>6
    <3> QED BY <3>7, <3>8, <3>9 DEF Good
  <2>5. CASE x \notin S
    <3>1. t = <<>>
      BY <2>5
    <3>2. From(k + 1) = From(k)
      BY <2>5
    <3>3. f[k] \in Seq(A)
      BY <2>1 DEF Good
    <3>4. f[k] \o <<>> = f[k] /\ Len(f[k]) \in Nat
      BY <3>3
    <3> HIDE DEF From, t
    <3> QED BY <2>1, <2>2, <3>1, <3>2, <3>4 DEF Good
  <2> QED BY <2>4, <2>5
<1>5. Good(Len(q))
  <2>1. Nat \subseteq K
    <3> HIDE DEF K
    <3> QED BY <1>3, <1>4, NatSets
  <2>2. Len(q) \in K
    <3> HIDE DEF K
    <3> QED BY <1>2, <2>1
  <2> QED BY <1>2, <2>2
<1>6. From(Len(q)) = Results!ToSet(q) \cap S
  BY <1>2 DEF Results!ToSet
<1> HIDE DEF From
<1> QED BY <1>1, <1>5, <1>6

(* A queue with no entry twice is as long as it has members. *)
LEMMA OnceCounts ==
    ASSUME NEW A, NEW q \in Seq(A), Once(q)
    PROVE  IsFiniteSet(Results!ToSet(q)) /\ Len(q) = Cardinality(Results!ToSet(q))
<1> DEFINE N == 1..Len(q)
           T == Results!ToSet(q)
<1>1. Len(q) \in Nat /\ DOMAIN q = N
  OBVIOUS
<1>2. q \in Bijection(N, T)
  <2>1. T = {q[i] : i \in N}
    BY <1>1 DEF Results!ToSet
  <2>2. q \in [N -> T]
    <3>1. q = [i \in N |-> q[i]]
      BY <1>1
    <3> QED BY <2>1, <3>1
  <2>3. \A i, j \in N : q[i] = q[j] => i = j
    BY DEF Once
  <2> HIDE DEF N, T
  <2> QED BY <2>1, <2>2, <2>3 DEF Bijection, Injection, Surjection, IsInjective
<1>3. IsFiniteSet(N) /\ Cardinality(N) = Len(q)
  <2>1. 1 \in Int /\ Len(q) \in Int
    BY <1>1
  <2>2. IsFiniteSet(1..Len(q)) /\ Cardinality(1..Len(q)) = IF 1 > Len(q) THEN 0 ELSE Len(q) - 1 + 1
    BY <2>1, FS_Interval, Zenon
  <2> QED BY <1>1, <2>2
<1>4. ExistsBijection(N, T)
  BY <1>2, Zenon DEF ExistsBijection
<1> HIDE DEF N, T
<1>5. IsFiniteSet(T) /\ Cardinality(T) = Cardinality(N)
  BY <1>3, <1>4, FS_Bijection
<1> QED BY <1>3, <1>5 DEF T

(* An order of the members of a finite set names each of them, once. *)
LEMMA OrderOfSet ==
    ASSUME NEW S, IsFiniteSet(S), NEW q \in Results!SetToSeqs(S)
    PROVE  q \in Seq(S) /\ Once(q) /\ Results!ToSet(q) = S
<1> DEFINE n == Cardinality(S)
<1>1. n \in Nat
  BY FS_CardinalityType
<1>2. q \in [1..n -> S] /\ \A i, j \in 1..n : i # j => q[i] # q[j]
  BY DEF Results!SetToSeqs, Results!Cardinality, Cardinality
<1> HIDE DEF n
<1>3. q \in Seq(S) /\ Len(q) = n
  BY <1>1, <1>2
<1>4. Once(q)
  BY <1>2, <1>3 DEF Once
<1>5. Results!ToSet(q) \in SUBSET S
  BY <1>2 DEF Results!ToSet
<1>6. Cardinality(Results!ToSet(q)) = Cardinality(S)
  BY <1>3, <1>4, OnceCounts DEF n
<1>7. Results!ToSet(q) = S
  BY <1>5, <1>6, FS_Subset
<1> QED BY <1>3, <1>4, <1>7

(* The queue holds every pending signal once, and so does the batch that    *)
(* was read of it.                                                          *)
QueueInv ==
    /\ waiting \in Seq(SignalIds) /\ Once(waiting)
    /\ Results!ToSet(waiting) = {s \in SignalIds : Results!Pending(s)}
    /\ batch \in Seq(SignalIds) /\ Once(batch) /\ Len(batch) <= Batch

(* What the tracker assumes of the constants. *)
LEMMA TrackerAssumption ==
    /\ IsFiniteSet(SignalIds) /\ Batch \in Nat \ {0} /\ Day \in Nat \ {0} /\ Life \in Nat \ {0}
<1>1. Results!IsFiniteSet(SignalIds) /\ Batch \in Nat \ {0} /\ Day \in Nat \ {0} /\ Life \in Nat \ {0}
  BY PartsAssumption DEF Results!OutcomesAssumption
<1> QED BY <1>1 DEF Results!IsFiniteSet, IsFiniteSet

(* The empty queue. *)
LEMMA EmptyQueue ==
    ASSUME NEW A
    PROVE  <<>> \in Seq(A) /\ Len(<<>>) = 0 /\ Once(<<>>) /\ Results!ToSet(<<>>) = {}
<1>1. <<>> \in Seq(A) /\ Len(<<>>) = 0
  OBVIOUS
<1> QED BY <1>1 DEF Once, Results!ToSet

(* The head of a queue. *)
LEMMA HeadOfQueue ==
    ASSUME NEW A, NEW q \in Seq(A), Once(q), NEW n \in 0..Len(q)
    PROVE  SubSeq(q, 1, n) \in Seq(A) /\ Len(SubSeq(q, 1, n)) = n /\ Once(SubSeq(q, 1, n))
<1> DEFINE h == SubSeq(q, 1, n)
<1>1. Len(q) \in Nat
  OBVIOUS
<1>2. h \in Seq(A) /\ Len(h) = n /\ \A i \in 1..n : h[i] = q[i]
  BY <1>1
<1> HIDE DEF h
<1>3. Once(h)
  BY <1>1, <1>2 DEF Once
<1> QED BY <1>2, <1>3 DEF h

(* Entering new signals keeps the queue and adds them. *)
LEMMA EnqueuedQueue ==
    ASSUME NEW table, NEW queue \in Seq(SignalIds), Once(queue),
           NEW new \in Seq(SignalIds), Once(new),
           Results!ToSet(queue) \cap Results!ToSet(new) = {}
    PROVE  LET q == Results!Enqueued(table, queue, new) IN
           /\ q \in Seq(SignalIds) /\ Once(q)
           /\ Results!ToSet(q) = Results!ToSet(queue) \cup Results!ToSet(new)
<1> DEFINE C == {x \in SignalIds : table[x].checked}
           a == Results!Those(queue, SignalIds \ C)
           b == Results!Those(queue, C)
           ab == a \o new
           q == Results!Enqueued(table, queue, new)
<1>1. q = ab \o b
  BY DEF Results!Enqueued
<1>2. Results!ToSet(queue) \subseteq SignalIds /\ C \subseteq SignalIds
  BY DEF Results!ToSet
<1> HIDE DEF C
<1>3. a \in Seq(SignalIds) /\ Once(a) /\ Results!ToSet(a) = Results!ToSet(queue) \cap (SignalIds \ C)
  BY ThoseOfQueue
<1>4. b \in Seq(SignalIds) /\ Once(b) /\ Results!ToSet(b) = Results!ToSet(queue) \cap C
  BY ThoseOfQueue
<1> HIDE DEF a, b
<1>5. /\ ab \in Seq(SignalIds) /\ Once(ab)
      /\ Results!ToSet(ab) = Results!ToSet(a) \cup Results!ToSet(new)
  <2>1. Results!ToSet(a) \cap Results!ToSet(new) = {}
    BY <1>3
  <2> QED BY <1>3, <2>1, JoinedQueues
<1> HIDE DEF ab, q
<1>6. /\ ab \o b \in Seq(SignalIds) /\ Once(ab \o b)
      /\ Results!ToSet(ab \o b) = Results!ToSet(ab) \cup Results!ToSet(b)
  <2>1. Results!ToSet(ab) \cap Results!ToSet(b) = {}
    BY <1>3, <1>4, <1>5
  <2> QED BY <1>4, <1>5, <2>1, JoinedQueues
<1>7. Results!ToSet(q) = Results!ToSet(queue) \cup Results!ToSet(new)
  BY <1>1, <1>2, <1>3, <1>4, <1>5, <1>6
<1> QED BY <1>1, <1>6, <1>7 DEF q

(* After a round the queue keeps those not checked, and those still pending. *)
LEMMA RequeuedQueue ==
    ASSUME NEW table, waiting \in Seq(SignalIds), Once(waiting),
           NEW done \in Seq(SignalIds), Once(done)
    PROVE  LET q == Results!Requeued(table, done) IN
           /\ q \in Seq(SignalIds) /\ Once(q)
           /\ Results!ToSet(q) = (Results!ToSet(waiting) \ Results!ToSet(done))
                  \cup {s \in Results!ToSet(done) : table[s].status = "PENDING"}
<1> DEFINE P == {x \in SignalIds : table[x].status = "PENDING"}
           a == Results!Those(waiting, SignalIds \ Results!ToSet(done))
           b == Results!Those(done, P)
           q == Results!Requeued(table, done)
<1>1. q = a \o b
  BY DEF Results!Requeued
<1>2. Results!ToSet(waiting) \subseteq SignalIds /\ Results!ToSet(done) \subseteq SignalIds
  BY DEF Results!ToSet
<1>3. /\ a \in Seq(SignalIds) /\ Once(a)
      /\ Results!ToSet(a) = Results!ToSet(waiting) \cap (SignalIds \ Results!ToSet(done))
  BY ThoseOfQueue
<1> HIDE DEF P
<1>4. b \in Seq(SignalIds) /\ Once(b) /\ Results!ToSet(b) = Results!ToSet(done) \cap P
  BY ThoseOfQueue
<1> HIDE DEF a, b, q
<1>5. /\ a \o b \in Seq(SignalIds) /\ Once(a \o b)
      /\ Results!ToSet(a \o b) = Results!ToSet(a) \cup Results!ToSet(b)
  <2>1. Results!ToSet(a) \cap Results!ToSet(b) = {}
    BY <1>3, <1>4
  <2> QED BY <1>3, <1>4, <2>1, JoinedQueues
<1>6. Results!ToSet(q) = (Results!ToSet(waiting) \ Results!ToSet(done)) \cup (Results!ToSet(done) \cap P)
  BY <1>1, <1>2, <1>3, <1>4, <1>5
<1>7. Results!ToSet(done) \cap P = {s \in Results!ToSet(done) : table[s].status = "PENDING"}
  BY <1>2 DEF P
<1> QED BY <1>1, <1>5, <1>6, <1>7 DEF q

(* The records of a round: what is not among them stays. *)
LEMMA AppliedQueue ==
    ASSUME QueueInv, NEW read \in Seq(SignalIds), Once(read), NEW daily, NEW single
    PROVE  LET done == Results!Checked(read, daily \cup single)
               rows1 == Results!Applied(read, daily, single)
               q == Results!Requeued(rows1, done)
           IN  /\ q \in Seq(SignalIds) /\ Once(q)
               /\ Results!ToSet(q) = {s \in SignalIds : rows1[s].status = "PENDING"}
<1> DEFINE done == Results!Checked(read, daily \cup single)
           rows1 == Results!Applied(read, daily, single)
           q == Results!Requeued(rows1, done)
<1>1. done \in Seq(SignalIds) /\ Once(done)
  BY ThoseOfQueue DEF Results!Checked
<1>2. \A s \in SignalIds \ Results!ToSet(done) : rows1[s] = outcome[s]
  BY DEF Results!Applied
<1>3. Results!ToSet(done) \subseteq SignalIds
  <2> HIDE DEF done
  <2> QED BY <1>1 DEF Results!ToSet
<1> HIDE DEF done, rows1, q
<1>4. /\ q \in Seq(SignalIds) /\ Once(q)
      /\ Results!ToSet(q) = (Results!ToSet(waiting) \ Results!ToSet(done))
             \cup {s \in Results!ToSet(done) : rows1[s].status = "PENDING"}
  <2>1. waiting \in Seq(SignalIds) /\ Once(waiting)
    BY DEF QueueInv
  <2> QED BY <1>1, <2>1, RequeuedQueue DEF q
<1>5. Results!ToSet(waiting) = {s \in SignalIds : outcome[s].status = "PENDING"}
  BY DEF QueueInv, Results!Pending
<1>6. Results!ToSet(q) = {s \in SignalIds : rows1[s].status = "PENDING"}
  BY <1>2, <1>3, <1>4, <1>5
<1> QED BY <1>4, <1>6 DEF q, done, rows1

(* Every step of the tracker keeps the queue.  A signal is entered in it    *)
(* when it becomes pending and leaves it when it is closed, also when the   *)
(* program ends in the middle of a round and what was read is read again.   *)
LEMMA QueueStep ==
    ASSUME ResultInv, QueueInv, [Results!OutcomesNext]_(Results!outcomeVars)
    PROVE  QueueInv'
<1> DEFINE PendingNow == {s \in SignalIds : outcome[s].status = "PENDING"}
           PendingThen == {s \in SignalIds : outcome'[s].status = "PENDING"}
<1>0. /\ waiting \in Seq(SignalIds) /\ Once(waiting) /\ Results!ToSet(waiting) = PendingNow
      /\ batch \in Seq(SignalIds) /\ Once(batch) /\ Len(batch) <= Batch
      /\ outcome \in [SignalIds -> ResultRecord]
  BY DEF QueueInv, ResultInv, Results!Pending
<1>a. ASSUME waiting' \in Seq(SignalIds), Once(waiting'), Results!ToSet(waiting') = PendingThen,
             batch' \in Seq(SignalIds), Once(batch'), Len(batch') <= Batch
      PROVE  QueueInv'
  BY <1>a DEF QueueInv, Results!Pending, Results!ToSet, Once
<1>1. CASE Results!Elapse
  <2>1. \A s \in SignalIds : outcome'[s].status = outcome[s].status
    <3>1. PICK p \in Results!Price :
            outcome' = [s \in SignalIds |->
               IF outcome[s].status \notin {"stored", "PENDING"} THEN outcome[s]
               ELSE [outcome[s] EXCEPT !.age = Results!Lower(Life, outcome[s].age + 1),
                                       !.gap = Results!Lower(Day + 1, outcome[s].gap + 1),
                                       !.low = Results!Lower(outcome[s].low, p),
                                       !.high = Results!Higher(outcome[s].high, p)]]
      BY <1>1 DEF Results!Elapse
    <3> QED BY <1>0, <3>1 DEF ResultRecord
  <2>2. UNCHANGED <<waiting, batch>>
    BY <1>1 DEF Results!Elapse
  <2>3. PendingThen = PendingNow
    BY <2>1
  <2> HIDE DEF PendingNow, PendingThen
  <2> QED BY <1>0, <1>a, <2>2, <2>3
<1>2. ASSUME NEW s \in SignalIds, Results!SaveSignal(s) PROVE QueueInv'
  <2>1. PICK tracked \in BOOLEAN :
          /\ outcome' = [outcome EXCEPT ![s].status = IF tracked THEN "PENDING" ELSE "stored"]
          /\ waiting' = IF tracked THEN Results!Enqueued(outcome, waiting, <<s>>) ELSE waiting
    BY <1>2 DEF Results!SaveSignal
  <2>2. outcome[s].status = "none" /\ batch' = batch
    BY <1>2 DEF Results!SaveSignal
  <2>3. /\ outcome'[s].status = IF tracked THEN "PENDING" ELSE "stored"
        /\ \A x \in SignalIds \ {s} : outcome'[x] = outcome[x]
    BY <1>0, <2>1 DEF ResultRecord
  <2>4. PendingThen = PendingNow \cup (IF tracked THEN {s} ELSE {})
    BY <2>2, <2>3
  <2>5. CASE tracked
    <3> DEFINE e == <<s>>
    <3>1. e \in Seq(SignalIds) /\ Len(e) = 1 /\ e[1] = s /\ DOMAIN e = {1}
      OBVIOUS
    <3> HIDE DEF e
    <3>2. Once(e) /\ Results!ToSet(e) = {s}
      BY <3>1 DEF Once, Results!ToSet
    <3>3. s \notin PendingNow
      BY <2>2
    <3>4. waiting' = Results!Enqueued(outcome, waiting, e)
      BY <2>1, <2>5 DEF e
    <3> HIDE DEF PendingNow, PendingThen
    <3>5. waiting' \in Seq(SignalIds) /\ Once(waiting') /\ Results!ToSet(waiting') = PendingNow \cup {s}
      <4> DEFINE w == Results!Enqueued(outcome, waiting, e)
      <4>1. Results!ToSet(waiting) \cap Results!ToSet(e) = {}
        BY <1>0, <3>2, <3>3
      <4>2. w \in Seq(SignalIds) /\ Once(w) /\ Results!ToSet(w) = Results!ToSet(waiting) \cup Results!ToSet(e)
        BY <1>0, <3>1, <3>2, <4>1, EnqueuedQueue
      <4> HIDE DEF w
      <4>3. waiting' = w
        BY <3>4 DEF w
      <4> QED BY <1>0, <3>2, <4>2, <4>3
    <3> QED BY <1>0, <1>a, <2>2, <2>4, <2>5, <3>5
  <2>6. CASE ~tracked
    <3> HIDE DEF PendingNow, PendingThen
    <3> QED BY <1>0, <1>a, <2>1, <2>2, <2>4, <2>6
  <2> QED BY <2>5, <2>6
<1>3. CASE Results!BeginRound
  <2>1. /\ batch' = SubSeq(waiting, 1, Results!Lower(Batch, Len(waiting)))
        /\ UNCHANGED <<path, outcome, waiting>>
    BY <1>3 DEF Results!BeginRound
  <2>2. /\ Results!Lower(Batch, Len(waiting)) \in 0..Len(waiting)
        /\ Results!Lower(Batch, Len(waiting)) <= Batch
    BY <1>0, TrackerAssumption DEF Results!Lower
  <2>3. batch' \in Seq(SignalIds) /\ Once(batch') /\ Len(batch') <= Batch
    BY <1>0, <2>1, <2>2, HeadOfQueue
  <2>4. PendingThen = PendingNow
    BY <2>1
  <2> HIDE DEF PendingNow, PendingThen
  <2> QED BY <1>0, <1>a, <2>1, <2>3, <2>4
<1>4. ASSUME NEW daily, NEW single, Results!EndRound(daily, single) PROVE QueueInv'
  <2> DEFINE rows1 == Results!Applied(batch, daily, single)
             q == Results!Requeued(rows1, Results!Checked(batch, daily \cup single))
  <2>1. outcome' = rows1 /\ waiting' = q /\ batch' = <<>>
    BY <1>4 DEF Results!EndRound
  <2>2. q \in Seq(SignalIds) /\ Once(q) /\ Results!ToSet(q) = {s \in SignalIds : rows1[s].status = "PENDING"}
    BY <1>0, AppliedQueue
  <2>3. batch' \in Seq(SignalIds) /\ Once(batch') /\ Len(batch') <= Batch
    BY <2>1, EmptyQueue, TrackerAssumption
  <2> HIDE DEF rows1, q
  <2>4. Results!ToSet(q) = PendingThen
    BY <2>1, <2>2
  <2> HIDE DEF PendingNow, PendingThen
  <2> QED BY <1>a, <2>1, <2>2, <2>3, <2>4
<1>5. CASE Results!Restart
  <2>1. PICK n \in 0..Len(batch) :
          LET read   == SubSeq(batch, 1, n)
              priced == Results!ToSet(read) \ Unlisted
              rows1  == Results!Applied(read, priced, {})
              missed == {s \in SignalIds : rows1[s].status = "stored"}
          IN  /\ outcome' = [s \in SignalIds |-> IF s \in missed THEN [rows1[s] EXCEPT !.status = "PENDING"]
                                                 ELSE rows1[s]]
              /\ \E new \in Results!SetToSeqs(missed) :
                    waiting' = Results!Enqueued(rows1, Results!Requeued(rows1, Results!Checked(read, priced)), new)
              /\ batch' = <<>>
    BY <1>5 DEF Results!Restart
  <2> DEFINE read   == SubSeq(batch, 1, n)
             priced == Results!ToSet(read) \ Unlisted
             rows1  == Results!Applied(read, priced, {})
             missed == {s \in SignalIds : rows1[s].status = "stored"}
             q      == Results!Requeued(rows1, Results!Checked(read, priced))
  <2>2. PICK new \in Results!SetToSeqs(missed) : waiting' = Results!Enqueued(rows1, q, new)
    BY <2>1
  <2>3. /\ outcome' = [s \in SignalIds |-> IF s \in missed THEN [rows1[s] EXCEPT !.status = "PENDING"]
                                           ELSE rows1[s]]
        /\ batch' = <<>>
    BY <2>1
  <2>4. read \in Seq(SignalIds) /\ Once(read)
    BY <1>0, HeadOfQueue
  <2> HIDE DEF read
  <2>5. priced \cup {} = priced
    OBVIOUS
  <2>6. q \in Seq(SignalIds) /\ Once(q) /\ Results!ToSet(q) = {s \in SignalIds : rows1[s].status = "PENDING"}
    <3> HIDE DEF priced
    <3>1. LET d == Results!Checked(read, priced \cup {})
              t == Results!Requeued(Results!Applied(read, priced, {}), d)
          IN  /\ t \in Seq(SignalIds) /\ Once(t)
              /\ Results!ToSet(t) = {s \in SignalIds : Results!Applied(read, priced, {})[s].status = "PENDING"}
      BY <2>4, AppliedQueue
    <3> QED BY <2>5, <3>1
  <2>7. \A s \in SignalIds : rows1[s] \in ResultRecord
    <3> HIDE DEF priced
    <3> QED BY AppliedSees DEF SeenFrom
  <2> HIDE DEF priced, rows1, q
  <2>8. new \in Seq(SignalIds) /\ Once(new) /\ Results!ToSet(new) = missed
    <3>1. missed \in SUBSET SignalIds
      OBVIOUS
    <3> HIDE DEF missed
    <3>2. IsFiniteSet(missed)
      BY <3>1, TrackerAssumption, FS_Subset
    <3>3. new \in Seq(missed) /\ Once(new) /\ Results!ToSet(new) = missed
      BY <3>2, OrderOfSet
    <3> QED BY <3>1, <3>3
  <2>9. Results!ToSet(q) \cap Results!ToSet(new) = {}
    BY <2>6, <2>8
  <2>10. /\ waiting' \in Seq(SignalIds) /\ Once(waiting')
         /\ Results!ToSet(waiting') = Results!ToSet(q) \cup Results!ToSet(new)
    <3> HIDE DEF missed
    <3> QED BY <2>2, <2>6, <2>8, <2>9, EnqueuedQueue
  <2>11. ASSUME NEW s \in SignalIds
         PROVE  outcome'[s].status = IF s \in missed THEN "PENDING" ELSE rows1[s].status
    BY <2>3, <2>7 DEF ResultRecord
  <2>12. PendingThen = Results!ToSet(q) \cup Results!ToSet(new)
    BY <2>6, <2>8, <2>11
  <2>13. batch' \in Seq(SignalIds) /\ Once(batch') /\ Len(batch') <= Batch
    BY <2>3, EmptyQueue, TrackerAssumption
  <2> HIDE DEF PendingThen, PendingNow
  <2> QED BY <1>a, <2>10, <2>12, <2>13
<1>6. CASE UNCHANGED Results!outcomeVars
  <2>1. UNCHANGED <<outcome, waiting, batch>>
    BY <1>6 DEF Results!outcomeVars
  <2> QED BY <1>0, <1>a, <2>1
<1> QED BY <1>1, <1>2, <1>3, <1>4, <1>5, <1>6 DEF Results!OutcomesNext

(* The bounds of a record: targets are two, and time is counted no further  *)
(* than the end of the signal and the day of a ticker.                      *)
Bounded(r) ==
    /\ r.hit \in 0..2 /\ r.age \in 0..Life /\ r.gap \in 0..(Day + 1)
    /\ r.low \in Results!Price /\ r.high \in Results!Price

AllBounded == \A s \in SignalIds : Bounded(outcome[s])

(* A check keeps a record within its bounds. *)
LEMMA UpdateBounded ==
    ASSUME NEW r \in ResultRecord, Bounded(r), NEW kind
    PROVE  Bounded(Results!Updated(r, kind))
<1>1. CASE Results!IsClosed(r)
  BY <1>1 DEF Results!Updated
<1>2. CASE ~Results!IsClosed(r)
  <2> DEFINE w == Results!Window(kind)
             q == Results!Updated(r, kind)
             ht == IF Results!Lowest(w) <= Results!Stop THEN r.hit ELSE Results!Higher(r.hit, Results!TargetsHit(w))
  <2>1. q.hit = ht /\ q.age = r.age /\ q.gap = 0 /\ q.low = r.low /\ q.high = r.high
    BY <1>2 DEF Results!Updated, ResultRecord
  <2>2. ht \in 0..2
    <3>1. Results!TargetsHit(w) \in 0..2
      BY TwoTargets
    <3> HIDE DEF w
    <3> QED BY <3>1 DEF Bounded, Results!Higher
  <2>3. 0 \in 0..(Day + 1)
    BY TrackerAssumption
  <2> HIDE DEF q, ht
  <2>4. Bounded(q)
    BY <2>1, <2>2, <2>3 DEF Bounded
  <2> QED BY <2>4 DEF q
<1> QED BY <1>1, <1>2

(* So do the records of a round. *)
LEMMA AppliedBounded ==
    ASSUME ResultInv, AllBounded, NEW read, NEW daily, NEW single, NEW s \in SignalIds
    PROVE  Bounded(Results!Applied(read, daily, single)[s])
<1>1. outcome[s] \in ResultRecord /\ Bounded(outcome[s])
  BY DEF ResultInv, AllBounded
<1>2. \/ Results!Applied(read, daily, single)[s] = outcome[s]
      \/ \E kind : Results!Applied(read, daily, single)[s] = Results!Updated(outcome[s], kind)
  BY DEF Results!Applied
<1> QED BY <1>1, <1>2, UpdateBounded

(* Another status leaves the bounds alone. *)
LEMMA StatusBounded ==
    ASSUME NEW r \in ResultRecord, Bounded(r), NEW st
    PROVE  Bounded([r EXCEPT !.status = st])
<1> DEFINE q == [r EXCEPT !.status = st]
<1>1. q.hit = r.hit /\ q.age = r.age /\ q.gap = r.gap /\ q.low = r.low /\ q.high = r.high
  BY DEF ResultRecord
<1> HIDE DEF q
<1>2. Bounded(q)
  BY <1>1 DEF Bounded
<1> QED BY <1>2 DEF q

(* Every step of the tracker keeps the bounds. *)
LEMMA BoundedStep ==
    ASSUME ResultInv, AllBounded, [Results!OutcomesNext]_(Results!outcomeVars)
    PROVE  AllBounded'
<1>0. \A s \in SignalIds : outcome[s] \in ResultRecord /\ Bounded(outcome[s])
  BY DEF ResultInv, AllBounded
<1>a. ASSUME \A s \in SignalIds : Bounded(outcome'[s]) PROVE AllBounded'
  BY <1>a DEF AllBounded, Bounded
<1>1. CASE Results!Elapse
  <2>1. PICK p \in Results!Price :
          outcome' = [s \in SignalIds |->
             IF outcome[s].status \notin {"stored", "PENDING"} THEN outcome[s]
             ELSE [outcome[s] EXCEPT !.age = Results!Lower(Life, outcome[s].age + 1),
                                     !.gap = Results!Lower(Day + 1, outcome[s].gap + 1),
                                     !.low = Results!Lower(outcome[s].low, p),
                                     !.high = Results!Higher(outcome[s].high, p)]]
    BY <1>1 DEF Results!Elapse
  <2>2. ASSUME NEW s \in SignalIds PROVE Bounded(outcome'[s])
    <3> DEFINE r == outcome[s]
               ag == Results!Lower(Life, r.age + 1)
               gp == Results!Lower(Day + 1, r.gap + 1)
               lw == Results!Lower(r.low, p)
               hg == Results!Higher(r.high, p)
               q == [r EXCEPT !.age = ag, !.gap = gp, !.low = lw, !.high = hg]
    <3>1. r \in ResultRecord /\ Bounded(r)
      BY <1>0
    <3>2. outcome'[s] = r \/ outcome'[s] = q
      BY <2>1
    <3> HIDE DEF r
    <3>3. ag \in 0..Life /\ gp \in 0..(Day + 1)
      BY <3>1, TrackerAssumption DEF Bounded, Results!Lower
    <3>4. lw \in Results!Price /\ hg \in Results!Price
      BY <3>1 DEF Bounded, Results!Lower, Results!Higher
    <3> HIDE DEF ag, gp, lw, hg
    <3>5. q.hit = r.hit /\ q.age = ag /\ q.gap = gp /\ q.low = lw /\ q.high = hg
      BY <3>1 DEF ResultRecord
    <3> HIDE DEF q
    <3>6. Bounded(q)
      BY <3>1, <3>3, <3>4, <3>5 DEF Bounded
    <3> QED BY <3>1, <3>2, <3>6
  <2> QED BY <1>a, <2>2
<1>2. ASSUME NEW s \in SignalIds, Results!SaveSignal(s) PROVE AllBounded'
  <2>1. PICK st : outcome' = [outcome EXCEPT ![s].status = st]
    BY <1>2 DEF Results!SaveSignal
  <2>2. \A x \in SignalIds : outcome'[x] = outcome[x] \/ outcome'[x] = [outcome[x] EXCEPT !.status = st]
    BY <2>1 DEF ResultInv
  <2>3. ASSUME NEW x \in SignalIds PROVE Bounded(outcome'[x])
    <3>1. Bounded([outcome[x] EXCEPT !.status = st])
      BY <1>0, StatusBounded
    <3>2. outcome'[x] = outcome[x] \/ outcome'[x] = [outcome[x] EXCEPT !.status = st]
      BY <2>2
    <3> QED BY <1>0, <3>1, <3>2, Zenon
  <2> QED BY <1>a, <2>3
<1>3. ASSUME NEW daily, NEW single, Results!EndRound(daily, single) PROVE AllBounded'
  <2>1. outcome' = Results!Applied(batch, daily, single)
    BY <1>3 DEF Results!EndRound
  <2>2. \A x \in SignalIds : Bounded(outcome'[x])
    BY <2>1, AppliedBounded
  <2> QED BY <1>a, <2>2
<1>4. CASE Results!Restart
  <2>1. PICK n \in 0..Len(batch) :
          LET read   == SubSeq(batch, 1, n)
              priced == Results!ToSet(read) \ Unlisted
              rows1  == Results!Applied(read, priced, {})
              missed == {s \in SignalIds : rows1[s].status = "stored"}
          IN  outcome' = [s \in SignalIds |-> IF s \in missed THEN [rows1[s] EXCEPT !.status = "PENDING"]
                                              ELSE rows1[s]]
    BY <1>4 DEF Results!Restart
  <2> DEFINE read   == SubSeq(batch, 1, n)
             priced == Results!ToSet(read) \ Unlisted
             rows1  == Results!Applied(read, priced, {})
  <2>2. \A s \in SignalIds : outcome'[s] = rows1[s] \/ outcome'[s] = [rows1[s] EXCEPT !.status = "PENDING"]
    BY <2>1
  <2>3. \A s \in SignalIds : rows1[s] \in ResultRecord /\ Bounded(rows1[s])
    <3> HIDE DEF read, priced
    <3> QED BY AppliedSees, AppliedBounded DEF SeenFrom
  <2> HIDE DEF rows1
  <2>4. ASSUME NEW x \in SignalIds PROVE Bounded(outcome'[x])
    <3>1. Bounded([rows1[x] EXCEPT !.status = "PENDING"])
      BY <2>3, StatusBounded
    <3>2. outcome'[x] = rows1[x] \/ outcome'[x] = [rows1[x] EXCEPT !.status = "PENDING"]
      BY <2>2
    <3> QED BY <2>3, <3>1, <3>2, Zenon
  <2> QED BY <1>a, <2>4
<1>5. CASE Results!BeginRound \/ UNCHANGED Results!outcomeVars
  <2>1. UNCHANGED outcome
    BY <1>5 DEF Results!BeginRound, Results!outcomeVars
  <2> QED BY <1>0, <1>a, <2>1
<1> QED BY <1>1, <1>2, <1>3, <1>4, <1>5 DEF Results!OutcomesNext

(* Together these are the types of the tracker, its queue counted. *)
LEMMA ResultsTyped == ResultInv /\ QueueInv /\ AllBounded => Results!OutcomesTypeOK
<1> SUFFICES ASSUME ResultInv, QueueInv, AllBounded PROVE Results!OutcomesTypeOK
  OBVIOUS
<1>1. \A s \in SignalIds : outcome[s] \in Results!Outcome
  <2>1. ASSUME NEW r \in ResultRecord, Bounded(r) PROVE r \in Results!Outcome
    BY <2>1 DEF ResultRecord, Statuses, Bounded, Results!Outcome
  <2> QED BY <2>1 DEF ResultInv, AllBounded
<1>2. path \in [1..Day -> Results!Price] /\ outcome \in [SignalIds -> Results!Outcome]
  BY <1>1 DEF ResultInv
<1>3. Len(waiting) = Results!Cardinality(Results!ToSet(waiting))
  <2>1. Len(waiting) = Cardinality(Results!ToSet(waiting))
    BY OnceCounts DEF QueueInv
  <2> QED BY <2>1 DEF Results!Cardinality, Cardinality
<1>4. /\ Results!ToSet(waiting) = {s \in SignalIds : Results!Pending(s)}
      /\ Results!ToSet(batch) \subseteq SignalIds /\ Len(batch) <= Batch
  BY DEF QueueInv, Results!ToSet
<1> QED BY <1>2, <1>3, <1>4 DEF Results!OutcomesTypeOK

(* Initially the queue is empty. *)
LEMMA QueueStart == Init => QueueInv /\ AllBounded
<1> SUFFICES ASSUME Init PROVE QueueInv /\ AllBounded
  OBVIOUS
<1>1. outcome = [s \in SignalIds |-> Results!Unmade] /\ waiting = <<>> /\ batch = <<>>
  BY DEF Init, Results!OutcomesInit
<1>2. Results!Unmade.status = "none"
  BY DEF Results!Unmade
<1>3. Bounded(Results!Unmade)
  BY TrackerAssumption DEF Results!Unmade, Results!Entry, Results!Price, Results!Stop, Results!Final, Bounded
<1> HIDE DEF Results!Unmade
<1>4. AllBounded
  BY <1>1, <1>3 DEF AllBounded
<1>5. Results!ToSet(waiting) = {s \in SignalIds : Results!Pending(s)}
  <2>1. {s \in SignalIds : Results!Pending(s)} = {}
    BY <1>1, <1>2 DEF Results!Pending
  <2> QED BY <1>1, <2>1, EmptyQueue
<1>6. QueueInv
  BY <1>1, <1>5, EmptyQueue, TrackerAssumption DEF QueueInv
<1> QED BY <1>4, <1>6
-----------------------------------------------------------------------------
(* The table as one of staged trades: each step of the monitor, the user    *)
(* and the engine is one of StagedTrades, because what a round remembers of *)
(* a row's mode and targets is what the row still says (CopiesMatch).       *)

(* What the rows say of their trades. *)
TradesNow == [j \in Ids |-> Monitor!TradeOf(rows[j])]

(* Of the row that is absent and of a new one. *)
LEMMA NewTrades ==
    /\ Monitor!TradeOf(Monitor!NoRow) = Monitor!Staging!Nothing
    /\ \A mode \in {"paper", "live"}, n \in 1..3 :
          Monitor!TradeOf(Monitor!NewRow(mode, n)) = Monitor!Staging!Entered(mode, n)
BY DEF Monitor!TradeOf, Monitor!NoRow, Monitor!NewRow, Monitor!Staging!Nothing, Monitor!Staging!Entered

(* A trade of a row is made of its fields. *)
IsTrade(t) ==
    t = [stage |-> t.stage, mode |-> t.mode, targets |-> t.targets, next |-> t.next,
         left |-> t.left, sold |-> t.sold, by |-> t.by]

(* Three of them changed, spelled out. *)
LEMMA TradeSold ==
    ASSUME NEW t, IsTrade(t), NEW h1, h1 = t.next + 1,
           NEW l1, l1 = t.left - Monitor!Staging!Share(t), NEW s1, s1 = t.sold + Monitor!Staging!Share(t)
    PROVE  Monitor!Staging!OneSold(t)
             = [stage |-> t.stage, mode |-> t.mode, targets |-> t.targets, next |-> h1,
                left |-> l1, sold |-> s1, by |-> t.by]
<1> DEFINE a1 == [t EXCEPT !.next = h1]
           a2 == [a1 EXCEPT !.left = l1]
           a3 == [a2 EXCEPT !.sold = s1]
           st == t.stage
           m == t.mode
           n == t.targets
           b == t.by
<1>1. t = [stage |-> st, mode |-> m, targets |-> n, next |-> t.next, left |-> t.left, sold |-> t.sold, by |-> b]
  BY DEF IsTrade
<1> HIDE DEF st, m, n, b
<1>2. a1 = [stage |-> st, mode |-> m, targets |-> n, next |-> h1, left |-> t.left, sold |-> t.sold, by |-> b]
  BY <1>1
<1> HIDE DEF a1
<1>3. a2 = [stage |-> st, mode |-> m, targets |-> n, next |-> h1, left |-> l1, sold |-> t.sold, by |-> b]
  BY <1>2
<1> HIDE DEF a2
<1>4. a3 = [stage |-> st, mode |-> m, targets |-> n, next |-> h1, left |-> l1, sold |-> s1, by |-> b]
  BY <1>3
<1>5. Monitor!Staging!OneSold(t) = [t EXCEPT !.next = h1, !.left = l1, !.sold = s1]
  BY DEF Monitor!Staging!OneSold
<1> QED BY <1>4, <1>5 DEF a1, a2, st, m, n, b

(* Four of them. *)
LEMMA TradeClosed ==
    ASSUME NEW t, IsTrade(t), NEW s1, s1 = t.sold + t.left, NEW who
    PROVE  Monitor!Staging!AllSold(t, who)
             = [stage |-> "closed", mode |-> t.mode, targets |-> t.targets, next |-> t.next,
                left |-> 0, sold |-> s1, by |-> who]
<1> DEFINE a1 == [t EXCEPT !.stage = "closed"]
           a2 == [a1 EXCEPT !.left = 0]
           a3 == [a2 EXCEPT !.sold = s1]
           a4 == [a3 EXCEPT !.by = who]
           m == t.mode
           n == t.targets
           h == t.next
<1>1. t = [stage |-> t.stage, mode |-> m, targets |-> n, next |-> h, left |-> t.left, sold |-> t.sold, by |-> t.by]
  BY DEF IsTrade
<1> HIDE DEF m, n, h
<1>2. a1 = [stage |-> "closed", mode |-> m, targets |-> n, next |-> h, left |-> t.left, sold |-> t.sold, by |-> t.by]
  BY <1>1
<1> HIDE DEF a1
<1>3. a2 = [stage |-> "closed", mode |-> m, targets |-> n, next |-> h, left |-> 0, sold |-> t.sold, by |-> t.by]
  BY <1>2
<1> HIDE DEF a2
<1>4. a3 = [stage |-> "closed", mode |-> m, targets |-> n, next |-> h, left |-> 0, sold |-> s1, by |-> t.by]
  BY <1>3
<1> HIDE DEF a3
<1>5. a4 = [stage |-> "closed", mode |-> m, targets |-> n, next |-> h, left |-> 0, sold |-> s1, by |-> who]
  BY <1>4
<1>6. Monitor!Staging!AllSold(t, who)
        = [t EXCEPT !.stage = "closed", !.left = 0, !.sold = s1, !.by = who]
  BY DEF Monitor!Staging!AllSold
<1> QED BY <1>5, <1>6 DEF a1, a2, a3, m, n, h

(* Of a row that is closed. *)
LEMMA ClosedTrade ==
    ASSUME NEW r \in Monitor!Row, r.status = "open", NEW who \in {"monitor", "user", "engine"}
    PROVE  Monitor!TradeOf(Monitor!Closed(r, who)) = Monitor!Staging!AllSold(Monitor!TradeOf(r), who)
<1> DEFINE c == Monitor!Closed(r, who)
<1>1. /\ c \in Monitor!Row /\ c.status = "closed" /\ c.by = who
      /\ c.sold = r.sold + r.quantity /\ c.mode = r.mode /\ c.targets = r.targets /\ c.hit = r.hit
  BY ClosedFields
<1> HIDE DEF c
<1> DEFINE sold1 == r.sold + r.quantity
           after == [stage |-> "closed", mode |-> r.mode, targets |-> r.targets, next |-> r.hit,
                     left |-> 0, sold |-> sold1, by |-> who]
<1>2. Monitor!TradeOf(c) = after
  BY <1>1 DEF Monitor!TradeOf
<1> DEFINE t == Monitor!TradeOf(r)
<1>3. IsTrade(t) /\ t.sold + t.left = sold1
  BY DEF Monitor!TradeOf, IsTrade
<1>4. t.mode = r.mode /\ t.targets = r.targets /\ t.next = r.hit
  BY DEF Monitor!TradeOf
<1> HIDE DEF t, sold1
<1>5. Monitor!Staging!AllSold(t, who)
        = [stage |-> "closed", mode |-> t.mode, targets |-> t.targets, next |-> t.next,
           left |-> 0, sold |-> sold1, by |-> who]
  BY <1>3, TradeClosed
<1>6. Monitor!Staging!AllSold(t, who) = after
  BY <1>4, <1>5
<1> QED BY <1>2, <1>6 DEF c, t

(* Of a row of which the part of its next target is sold. *)
LEMMA SoldTrade ==
    ASSUME NEW r \in Monitor!Row, r.status = "open", r.hit \in 0..2,
           Monitor!Share(r) \in 1..Whole, Monitor!Share(r) < r.quantity
    PROVE  Monitor!TradeOf(Monitor!TargetHit(Monitor!PartSold(r, Monitor!Share(r)), r.hit))
             = Monitor!Staging!OneSold(Monitor!TradeOf(r))
<1> DEFINE p == Monitor!PartSold(r, Monitor!Share(r))
           c == Monitor!TargetHit(p, r.hit)
<1>1. /\ p \in Monitor!Row /\ p.status = r.status /\ p.by = r.by
      /\ p.mode = r.mode /\ p.targets = r.targets /\ p.hit = r.hit
      /\ p.quantity = r.quantity - Monitor!Share(r) /\ p.sold = r.sold + Monitor!Share(r)
  BY PartSoldFields
<1> HIDE DEF p
<1>2. /\ c.status = p.status /\ c.by = p.by
      /\ c.mode = p.mode /\ c.targets = p.targets /\ c.quantity = p.quantity
      /\ c.sold = p.sold /\ c.hit = IF p.hit > r.hit + 1 THEN p.hit ELSE r.hit + 1
  BY <1>1, TargetHitFields
<1>3. c.hit = r.hit + 1
  BY <1>1, <1>2
<1>4. Monitor!Staging!Share(Monitor!TradeOf(r)) = Monitor!Share(r)
  BY DEF Monitor!Staging!Share, Monitor!Share, Monitor!TradeOf
<1> HIDE DEF c
<1> DEFINE next1 == r.hit + 1
           left1 == r.quantity - Monitor!Share(r)
           sold1 == r.sold + Monitor!Share(r)
           after == [stage |-> "open", mode |-> r.mode, targets |-> r.targets, next |-> next1,
                     left |-> left1, sold |-> sold1, by |-> r.by]
<1>5. Monitor!TradeOf(c) = after
  BY <1>1, <1>2, <1>3 DEF Monitor!TradeOf
<1> DEFINE t == Monitor!TradeOf(r)
<1>6. /\ IsTrade(t) /\ t.next + 1 = next1
      /\ t.left - Monitor!Staging!Share(t) = left1 /\ t.sold + Monitor!Staging!Share(t) = sold1
  <2>1. IsTrade(t)
    BY DEF Monitor!TradeOf, IsTrade
  <2>2. t.next = r.hit /\ t.left = r.quantity /\ t.sold = r.sold
    BY DEF Monitor!TradeOf
  <2> HIDE DEF t
  <2> QED BY <1>4, <2>1, <2>2 DEF t
<1>7. t.stage = "open" /\ t.mode = r.mode /\ t.targets = r.targets /\ t.by = r.by
  BY DEF Monitor!TradeOf
<1> HIDE DEF t, next1, left1, sold1
<1>8. Monitor!Staging!OneSold(t)
        = [stage |-> t.stage, mode |-> t.mode, targets |-> t.targets, next |-> next1,
           left |-> left1, sold |-> sold1, by |-> t.by]
  BY <1>6, TradeSold
<1>9. Monitor!Staging!OneSold(t) = after
  BY <1>7, <1>8
<1> QED BY <1>5, <1>9 DEF c, p, t

(* A step that writes one row changes one trade. *)
LEMMA OneTrade ==
    ASSUME NEW i \in Ids, OthersStay(i), NEW u, Monitor!TradeOf(rows'[i]) = u
    PROVE  [j \in Ids |-> Monitor!TradeOf(rows'[j])] = [TradesNow EXCEPT ![i] = u]
BY DEF OthersStay, TradesNow

(* A close is one of the staged trade, if it is of a row that is open; a live *)
(* row must be the engine's.                                                  *)
LEMMA ClosesTrade ==
    ASSUME MonitorTypes, NEW i \in Ids, NEW who \in {"monitor", "user", "engine"},
           Monitor!CloseRow(i, who), rows[i].mode = "live" => who = "engine"
    PROVE  UNCHANGED rows \/ Monitor!Staging!Close(i)
<1>1. CASE ~Monitor!Open(i)
  BY <1>1 DEF Monitor!CloseRow
<1>2. CASE Monitor!Open(i)
  <2> DEFINE c == Monitor!Closed(rows[i], who)
  <2>1. rows' = [rows EXCEPT ![i] = c] /\ rows[i] \in Monitor!Row /\ rows[i].status = "open"
    BY <1>2 DEF Monitor!CloseRow, Monitor!Open, MonitorTypes
  <2>2. Monitor!TradeOf(c) = Monitor!Staging!AllSold(Monitor!TradeOf(rows[i]), who)
    BY <2>1, ClosedTrade
  <2> HIDE DEF c
  <2>3. rows'[i] = c /\ OthersStay(i)
    BY <2>1 DEF OthersStay, MonitorTypes
  <2>4. [j \in Ids |-> Monitor!TradeOf(rows'[j])]
          = [TradesNow EXCEPT ![i] = Monitor!Staging!AllSold(Monitor!TradeOf(rows[i]), who)]
    BY <2>2, <2>3, OneTrade
  <2>5. TradesNow[i] = Monitor!TradeOf(rows[i])
    BY DEF TradesNow
  <2>6. TradesNow[i].stage = "open" /\ TradesNow[i].mode = rows[i].mode
    BY <2>1, <2>5 DEF Monitor!TradeOf
  <2> QED BY <2>4, <2>5, <2>6 DEF Monitor!Staging!Close, TradesNow
<1> QED BY <1>1, <1>2

(* The sale of a target by a round is the sale of the next target of the      *)
(* trade as it is now, although the round decided on the row as it was.       *)
LEMMA SellsTarget ==
    ASSUME MonitorTypes, CopiesMatch, NEW i \in Ids, i \in DOMAIN seen, round = "apply",
           Monitor!StepOf(seen[i], price) = "partial",
           Monitor!PartialClose(i, Monitor!Share(seen[i]), seen[i].hit)
    PROVE  UNCHANGED rows \/ Monitor!Staging!SellTarget(i)
<1> DEFINE r == rows[i]
           share == Monitor!Share(r)
<1>1. /\ r \in Monitor!Row /\ seen[i].hit = r.hit /\ seen[i].targets = r.targets /\ r.mode = "paper"
      /\ seen[i].hit + 1 < seen[i].targets
  <2>1. seen[i].hit + 1 < seen[i].targets
    BY DEF Monitor!StepOf
  <2> QED BY <2>1, RowFields DEF MonitorTypes, CopiesMatch
<1>2. Monitor!Share(seen[i]) = share /\ share \in Nat
  BY <1>1, ShareType DEF Monitor!Share
<1>3. CASE ~Monitor!MaySell(i, share)
  BY <1>1, <1>2, <1>3 DEF Monitor!PartialClose
<1>4. CASE Monitor!MaySell(i, share)
  <2> DEFINE c == Monitor!TargetHit(Monitor!PartSold(r, share), r.hit)
  <2>1. rows' = [rows EXCEPT ![i] = c]
    BY <1>1, <1>2, <1>4 DEF Monitor!PartialClose
  <2>2. /\ r.status = "open" /\ share \in 1..Whole /\ share < r.quantity
        /\ r.hit \in 0..2
    BY <1>1, <1>2, <1>4, RowFields, TradeAssumptions
       DEF Monitor!MaySell, Monitor!Open, Monitor!MonitorAssumption
  <2>3. Monitor!TradeOf(c) = Monitor!Staging!OneSold(Monitor!TradeOf(r))
    <3> HIDE DEF r
    <3> QED BY <1>1, <2>2, SoldTrade
  <2> HIDE DEF c
  <2>4. rows'[i] = c /\ OthersStay(i)
    BY <2>1 DEF OthersStay, MonitorTypes
  <2>5. [j \in Ids |-> Monitor!TradeOf(rows'[j])]
          = [TradesNow EXCEPT ![i] = Monitor!Staging!OneSold(Monitor!TradeOf(r))]
    BY <2>3, <2>4, OneTrade
  <2>6. TradesNow[i] = Monitor!TradeOf(r)
    BY DEF TradesNow
  <2>7. Monitor!Staging!Share(Monitor!TradeOf(r)) = share
    BY DEF Monitor!Staging!Share, Monitor!Share, Monitor!TradeOf
  <2>8. /\ TradesNow[i].stage = "open" /\ TradesNow[i].mode = "paper"
        /\ TradesNow[i].next + 1 < TradesNow[i].targets
        /\ Monitor!Staging!Share(TradesNow[i]) < TradesNow[i].left
    <3> HIDE DEF r, share
    <3>1. /\ Monitor!TradeOf(r).stage = "open" /\ Monitor!TradeOf(r).mode = "paper"
          /\ Monitor!TradeOf(r).next = r.hit /\ Monitor!TradeOf(r).targets = r.targets
          /\ Monitor!TradeOf(r).left = r.quantity
      BY <1>1, <2>2 DEF Monitor!TradeOf
    <3> QED BY <1>1, <2>2, <2>6, <2>7, <3>1
  <2> QED BY <2>5, <2>6, <2>8 DEF Monitor!Staging!SellTarget, TradesNow
<1> QED BY <1>3, <1>4

(* Every step of the monitor, the user and the engine on the table is one of  *)
(* the staged trades.                                                         *)
LEMMA StagingStep ==
    ASSUME MonitorTypes, CopiesMatch, [Monitor!MonitorNext]_(Monitor!monVars)
    PROVE  UNCHANGED rows \/ Monitor!Staging!Next
<1> DEFINE Goal == UNCHANGED rows \/ Monitor!Staging!Next
<1>1. ASSUME NEW i \in Ids, Monitor!Staging!Close(i) \/ Monitor!Staging!SellTarget(i) \/ Monitor!Staging!Enter(i)
      PROVE  Goal
  BY <1>1 DEF Monitor!Staging!Next
<1>2. ASSUME NEW i \in Ids, Monitor!ApplyStep(i) PROVE Goal
  <2>1. /\ i \in DOMAIN seen /\ round = "apply" /\ rows[i].mode # "live"
    BY <1>2 DEF Monitor!ApplyStep, CopiesMatch
  <2>2. \/ rows' = rows
        \/ Monitor!CloseRow(i, "monitor")
        \/ /\ Monitor!StepOf(seen[i], price) = "partial"
           /\ Monitor!PartialClose(i, Monitor!Share(seen[i]), seen[i].hit)
    BY <1>2 DEF Monitor!ApplyStep
  <2> QED BY <1>1, <2>1, <2>2, ClosesTrade, SellsTarget
<1>3. ASSUME NEW i \in Ids, Monitor!UserOpens(i) \/ Monitor!EngineWrites(i) PROVE Goal
  <2>1. PICK mode \in {"paper", "live"}, n \in 1..3 :
          rows' = [rows EXCEPT ![i] = Monitor!NewRow(mode, n)]
    BY <1>3, TradeAssumptions DEF Monitor!UserOpens, Monitor!EngineWrites, Monitor!MonitorAssumption
  <2>2. rows[i] = Monitor!NoRow
    BY <1>3 DEF Monitor!UserOpens, Monitor!EngineWrites, Monitor!FreeIds
  <2>3. rows'[i] = Monitor!NewRow(mode, n) /\ OthersStay(i)
    BY <2>1 DEF OthersStay, MonitorTypes
  <2>4. [j \in Ids |-> Monitor!TradeOf(rows'[j])]
          = [TradesNow EXCEPT ![i] = Monitor!Staging!Entered(mode, n)]
    BY <2>3, NewTrades, OneTrade
  <2>5. TradesNow[i] = Monitor!Staging!Nothing
    BY <2>2, NewTrades DEF TradesNow
  <2>6. Monitor!Staging!Enter(i)
    BY <2>4, <2>5 DEF Monitor!Staging!Enter, TradesNow
  <2> QED BY <1>1, <2>6
<1>4. ASSUME NEW i \in Ids, Monitor!UserClosed(i) PROVE Goal
  <2>1. rows[i].mode = "paper" /\ (UNCHANGED rows \/ Monitor!CloseRow(i, "user"))
    BY <1>4 DEF Monitor!UserClosed, CopiesMatch
  <2> QED BY <1>1, <2>1, ClosesTrade
<1>5. ASSUME NEW i \in Ids, Monitor!EngineCloses(i) PROVE Goal
  <2>1. Monitor!CloseRow(i, "engine")
    BY <1>5 DEF Monitor!EngineCloses
  <2> QED BY <1>1, <2>1, ClosesTrade
<1>6. ASSUME Monitor!ClearHistory PROVE Goal
  <2>1. [j \in Ids |-> Monitor!TradeOf(rows'[j])] = [j \in Ids |-> Monitor!Staging!Nothing]
    BY <1>6, NewTrades DEF Monitor!ClearHistory
  <2> QED BY <2>1 DEF Monitor!Staging!Next, Monitor!Staging!Clear
<1>7. ASSUME UNCHANGED rows PROVE Goal
  BY <1>7
<1> HIDE DEF Goal
<1>8. Goal
  BY <1>2, <1>3, <1>4, <1>5, <1>6, <1>7
     DEF Monitor!MonitorNext, Monitor!MonitorTick, Monitor!LeaveOutManaged,
         Monitor!FetchPrices, Monitor!UserCloses, Monitor!EngineRegisters,
         Monitor!MonitorRestarts, Monitor!MarketMoves, Monitor!monVars, Monitor!table
<1> QED BY <1>8 DEF Goal
(* The trade table implements the staged trades: whatever the monitor, the    *)
(* user and the engine do, from rows read before an await, is one step of a   *)
(* staged trade or none, as long as the history is not cleared while rows are *)
(* worked on.                                                                 *)
THEOREM TradesImplemented ==
    ASSUME ~ClearBusy
    PROVE  Spec => KeepsTrades /\ Monitor!Staging!Spec
<1> DEFINE Inv == MonitorTypes /\ CopiesMatch
           Step == UNCHANGED rows \/ Monitor!Staging!Next
<1>1. Inv /\ [Next]_vars => Inv'
  BY MonitorSteps, MonitorTypesStep, CopiesStep
<1>2. Init => Inv
  BY MonitorStart, CopiesStart
<1>3. Init => Monitor!Staging!Init
  BY MonitorStart, NewTrades DEF Monitor!MonitorInit, Monitor!Staging!Init
<1>4. Inv /\ [Next]_vars => Step
  BY MonitorSteps, StagingStep
<1>5. Step => [Step]_rows
  OBVIOUS
<1>6. Step => [Monitor!Staging!Next]_[i \in Ids |-> Monitor!TradeOf(rows[i])]
  OBVIOUS
<1>7. KeepsTrades <=> Monitor!Staging!Init /\ [][Step]_rows
  BY DEF KeepsTrades, Monitor!KeepsTrades
<1> HIDE DEF Inv, Step
<1>8. Spec => [][Step]_rows /\ [][Monitor!Staging!Next]_[i \in Ids |-> Monitor!TradeOf(rows[i])]
  BY <1>1, <1>2, <1>4, <1>5, <1>6, PTL DEF Spec
<1>9. Spec => KeepsTrades
  BY <1>3, <1>7, <1>8, PTL DEF Spec
<1>10. Spec => Monitor!Staging!Spec
  BY <1>3, <1>8, PTL DEF Spec, Monitor!Staging!Spec
<1> QED BY <1>9, <1>10

(* What was sold of one trade, in shares. *)
InShares(t) ==
    /\ t.stage = "open" => t.sold = t.next * Monitor!Staging!Share(t)
    /\ t.stage # "none" => t.sold + t.left = Whole

(* A trade with its numbers. *)
Counted(t) ==
    /\ IsTrade(t) /\ Monitor!Staging!Share(t) \in Nat
    /\ t.next \in Nat /\ t.left \in Nat /\ t.sold \in Nat

(* The trade of a row has them. *)
LEMMA TradeCounted ==
    ASSUME NEW r \in Monitor!Row PROVE Counted(Monitor!TradeOf(r))
<1>1. r.hit \in Nat /\ r.quantity \in Nat /\ r.sold \in Nat /\ Monitor!Share(r) \in Nat
  BY RowFields, ShareType, TradeAssumptions DEF Monitor!MonitorAssumption
<1>2. Monitor!Staging!Share(Monitor!TradeOf(r)) = Monitor!Share(r)
  BY DEF Monitor!Staging!Share, Monitor!Share, Monitor!TradeOf
<1> QED BY <1>1, <1>2 DEF Counted, IsTrade, Monitor!TradeOf

(* One share more. *)
LEMMA ShareMore ==
    ASSUME NEW n \in Nat, NEW h \in Nat
    PROVE  n * h + h = (n + 1) * h /\ 0 * h = 0
OBVIOUS

(* Each step of a trade keeps what was sold of it in shares. *)
LEMMA OneSoldInShares ==
    ASSUME NEW t, Counted(t), t.stage = "open", InShares(t) PROVE InShares(Monitor!Staging!OneSold(t))
<1> DEFINE h == Monitor!Staging!Share(t)
           n1 == t.next + 1
           l1 == t.left - h
           s1 == t.sold + h
           u == Monitor!Staging!OneSold(t)
<1>1. u = [stage |-> t.stage, mode |-> t.mode, targets |-> t.targets, next |-> n1,
           left |-> l1, sold |-> s1, by |-> t.by]
  BY TradeSold DEF Counted
<1> HIDE DEF u
<1>2. u.stage = "open" /\ u.targets = t.targets /\ u.next = n1 /\ u.left = l1 /\ u.sold = s1
  <2> HIDE DEF n1, l1, s1
  <2> QED BY <1>1
<1>3. Monitor!Staging!Share(u) = h
  BY <1>2 DEF Monitor!Staging!Share
<1>4. h \in Nat /\ t.next \in Nat /\ t.left \in Nat /\ t.sold \in Nat
      /\ t.sold = t.next * h /\ t.sold + t.left = Whole
  BY DEF Counted, InShares
<1> HIDE DEF h
<1>5. s1 = n1 * h
  BY <1>4, ShareMore
<1>6. s1 + l1 = Whole
  BY <1>4
<1> HIDE DEF n1, l1, s1
<1> QED BY <1>2, <1>3, <1>5, <1>6 DEF InShares, u

(* The close sells the rest. *)
LEMMA AllSoldInShares ==
    ASSUME NEW t, Counted(t), t.stage = "open", InShares(t), NEW who
    PROVE  InShares(Monitor!Staging!AllSold(t, who))
<1> DEFINE s1 == t.sold + t.left
           u == Monitor!Staging!AllSold(t, who)
<1>1. u = [stage |-> "closed", mode |-> t.mode, targets |-> t.targets, next |-> t.next,
           left |-> 0, sold |-> s1, by |-> who]
  BY TradeClosed DEF Counted
<1> HIDE DEF u
<1>2. u.stage = "closed" /\ u.left = 0 /\ u.sold = s1
  <2> HIDE DEF s1
  <2> QED BY <1>1
<1>3. s1 + 0 = Whole
  BY DEF Counted, InShares
<1> HIDE DEF s1
<1> QED BY <1>2, <1>3 DEF InShares, u

(* Nothing was sold of a new one. *)
LEMMA NewInShares ==
    /\ InShares(Monitor!Staging!Nothing)
    /\ \A mode \in {"paper", "live"}, n \in 1..3 : InShares(Monitor!Staging!Entered(mode, n))
<1>1. InShares(Monitor!Staging!Nothing)
  BY DEF InShares, Monitor!Staging!Nothing
<1>2. ASSUME NEW mode \in {"paper", "live"}, NEW n \in 1..3
      PROVE  InShares(Monitor!Staging!Entered(mode, n))
  <2>1. Whole \in Nat
    BY TradeAssumptions DEF Monitor!MonitorAssumption
  <2>2. Whole \div n \in Nat
    BY <2>1
  <2>3. 0 * (Whole \div n) = 0
    BY <2>2, ShareMore
  <2> QED BY <2>1, <2>3 DEF InShares, Monitor!Staging!Entered, Monitor!Staging!Share
<1> QED BY <1>1, <1>2

(* So does each step of the table. *)
LEMMA SharesStep ==
    ASSUME MonitorTypes, Monitor!Staging!SoldInShares, UNCHANGED rows \/ Monitor!Staging!Next
    PROVE  Monitor!Staging!SoldInShares'
<1> DEFINE had == TradesNow
           has == [j \in Ids |-> Monitor!TradeOf(rows'[j])]
<1>1. \A i \in Ids : Counted(had[i]) /\ InShares(had[i])
  <2>1. \A i \in Ids : Counted(had[i])
    BY TradeCounted DEF TradesNow, MonitorTypes
  <2>2. \A i \in Ids : InShares(had[i])
    BY DEF TradesNow, InShares, Monitor!Staging!SoldInShares
  <2> QED BY <2>1, <2>2
<1>2. \A i \in Ids : InShares(has[i])
  <2>1. CASE UNCHANGED rows
    BY <1>1, <2>1 DEF TradesNow
  <2>2. CASE Monitor!Staging!Clear
    BY <2>2, NewInShares DEF Monitor!Staging!Clear
  <2>3. ASSUME NEW i \in Ids, NEW u, InShares(u), has = [had EXCEPT ![i] = u]
        PROVE  \A j \in Ids : InShares(has[j])
    <3>1. had \in [Ids -> {had[j] : j \in Ids}] /\ DOMAIN had = Ids
      BY DEF TradesNow
    <3> HIDE DEF had, has
    <3>2. \A j \in Ids : has[j] = IF j = i THEN u ELSE had[j]
      BY <2>3, <3>1
    <3> QED BY <1>1, <2>3, <3>2
  <2>4. ASSUME NEW i \in Ids, Monitor!Staging!Enter(i) \/ Monitor!Staging!SellTarget(i) \/ Monitor!Staging!Close(i)
        PROVE  \E u : InShares(u) /\ has = [had EXCEPT ![i] = u]
    <3>1. CASE Monitor!Staging!Enter(i)
      BY <3>1, NewInShares DEF Monitor!Staging!Enter, TradesNow
    <3>2. CASE Monitor!Staging!SellTarget(i)
      <4>1. had[i].stage = "open" /\ has = [had EXCEPT ![i] = Monitor!Staging!OneSold(had[i])]
        BY <3>2 DEF Monitor!Staging!SellTarget, TradesNow
      <4> HIDE DEF had, has
      <4> QED BY <1>1, <4>1, OneSoldInShares
    <3>3. CASE Monitor!Staging!Close(i)
      <4>1. had[i].stage = "open" /\ \E who : has = [had EXCEPT ![i] = Monitor!Staging!AllSold(had[i], who)]
        BY <3>3 DEF Monitor!Staging!Close, TradesNow
      <4> HIDE DEF had, has
      <4> QED BY <1>1, <4>1, AllSoldInShares
    <3> QED BY <2>4, <3>1, <3>2, <3>3
  <2> HIDE DEF had, has
  <2> QED BY <2>1, <2>2, <2>3, <2>4 DEF Monitor!Staging!Next
<1> QED BY <1>2 DEF InShares, Monitor!Staging!SoldInShares

(* What was sold of an open trade is the sum of the parts of the targets      *)
(* behind it, and with what is left it is the whole trade.                    *)
THEOREM TradesSoldInShares ==
    ASSUME ~ClearBusy
    PROVE  Spec => []Monitor!Staging!SoldInShares
<1> DEFINE Inv == MonitorTypes /\ CopiesMatch /\ Monitor!Staging!SoldInShares
<1>1. Inv /\ [Next]_vars => Inv'
  BY MonitorSteps, MonitorTypesStep, CopiesStep, StagingStep, SharesStep
<1>2. Init => Inv
  <2> SUFFICES ASSUME Init PROVE Monitor!Staging!SoldInShares
    BY MonitorStart, CopiesStart
  <2>1. \A i \in Ids : Monitor!TradeOf(rows[i]) = Monitor!Staging!Nothing
    BY MonitorStart, NewTrades DEF Monitor!MonitorInit
  <2> QED BY <2>1, NewInShares DEF InShares, Monitor!Staging!SoldInShares
<1> QED BY <1>1, <1>2, PTL DEF Spec
=============================================================================
