---------------------------- MODULE Connectivity ----------------------------
(***************************************************************************)
(* What the program says of its connection.  Three judges watch the data:  *)
(* the redundant stream tells whether one of its clients is connected and  *)
(* not silent, the market data engine counts failed requests and hears     *)
(* from the stream, and the connection supervisor looks at the loop that   *)
(* polls the prices, starts it again when it has died, and tells the user  *)
(* whether the prices are fresh.                                           *)
(***************************************************************************)
EXTENDS Naturals

CONSTANTS
    Clients,    \* the connections of the redundant stream
    FailureTolerance  \* REST_FAILURE_TOLERANCE

\* What the constants must satisfy.
ConnectivityAssumption == FailureTolerance \in Nat \ {0}

VARIABLES
    rest,      \* does the exchange answer requests?
    link,      \* is a client connected?
    heard,     \* had a client data lately (silent_seconds), or is nothing subscribed?
    told,      \* RedundantStream._last_status
    failures, restAlive,   \* of the requests, in the engine
    status,    \* MarketDataEngine._connection_status
    poll,      \* the poll loop of the feed; "off" when the feed is not running
    polled, ticked,    \* did it, or the stream, bring prices lately?
    guard,     \* is the supervisor watching, or between stop and start?
    state      \* ConnectionSupervisor.state

stream   == <<link, heard, told>>
requests == <<failures, restAlive>>
feed     == <<poll, polled, ticked>>
super    == <<guard, state>>
connVars == <<rest, link, heard, told, failures, restAlive, status, poll, polled, ticked, guard, state>>

-----------------------------------------------------------------------------
(* The redundant stream.                                                   *)

\* status: connected, and not only open
StreamStatus(up, data) == IF \E c \in Clients : up[c] /\ data[c] THEN "connected" ELSE "reconnecting"

\* _notify_status and _handle_ws_status: a change is told to the engine, which
\* stays online without the stream while requests are answered.
Notify(before) ==
    /\ told' = StreamStatus(link', heard')
    /\ status' = IF told' = told THEN before
                 ELSE IF told' = "connected" THEN "connected"
                 ELSE IF ~restAlive THEN "reconnecting" ELSE before

\* A connection is made: nothing has been heard of it yet, but the clock of its
\* silence may have been set back by the watchdog.
Connects(c) ==
    /\ ~link[c]
    /\ link' = [link EXCEPT ![c] = TRUE] /\ UNCHANGED heard
    /\ Notify(status)
    /\ UNCHANGED <<rest, requests, feed, super>>

Loses(c) ==
    /\ link[c]
    /\ link' = [link EXCEPT ![c] = FALSE] /\ UNCHANGED heard
    /\ Notify(status)
    /\ UNCHANGED <<rest, requests, feed, super>>

\* _on_ticker, and _handle_live_ticker of the engine, which hears of no tick that
\* another connection brought before.
Ticks(c) ==
    /\ link[c]
    /\ heard' = [heard EXCEPT ![c] = TRUE] /\ UNCHANGED link
    /\ \/ Notify("connected") /\ ticked' = TRUE
       \/ Notify(status) /\ UNCHANGED ticked
    /\ UNCHANGED <<rest, requests, poll, polled, super>>

\* _check_health: a silent client is started again, and its clock with it; the
\* status is told again in any case.
CheckHealth(c) ==
    /\ IF heard[c] THEN UNCHANGED <<link, heard>>
       ELSE link' = [link EXCEPT ![c] = FALSE] /\ heard' = [heard EXCEPT ![c] = TRUE]
    /\ Notify(status)
    /\ UNCHANGED <<rest, requests, feed, super>>

-----------------------------------------------------------------------------
(* The requests of the engine.                                             *)

\* Variant: every failure counts from the first again.
MarkDeadAfresh ==
    /\ failures' = 1
    /\ restAlive' = (restAlive /\ failures' < FailureTolerance)
    /\ status' = IF failures' >= FailureTolerance /\ StreamStatus(link, heard) # "connected"
                 THEN "disconnected" ELSE status

\* _mark_rest_alive(False)
MarkDead ==
    /\ failures' = IF failures < FailureTolerance THEN failures + 1 ELSE failures
    /\ restAlive' = (restAlive /\ failures' < FailureTolerance)
    /\ status' = IF failures' >= FailureTolerance /\ StreamStatus(link, heard) # "connected"
                 THEN "disconnected" ELSE status

\* _mark_rest_alive(True)
MarkAlive == failures' = 0 /\ restAlive' = TRUE /\ status' = "connected"

\* keepalive
Ping ==
    /\ IF rest THEN MarkAlive ELSE MarkDead
    /\ UNCHANGED <<rest, stream, feed, super>>

\* A round of _poll_loop
Poll ==
    /\ poll = "alive"
    /\ IF rest THEN MarkAlive /\ polled' = TRUE ELSE MarkDead /\ UNCHANGED polled
    /\ UNCHANGED <<rest, stream, poll, ticked, super>>

\* An unexpected exception ends the loop; the flag of the feed stays up.
PollDies ==
    /\ poll = "alive"
    /\ poll' = "dead"
    /\ UNCHANGED <<rest, stream, requests, status, polled, ticked, super>>

-----------------------------------------------------------------------------
(* The supervisor.                                                         *)

\* Variant: the flag of the feed is believed.
PollAliveByFlag == poll # "off"

\* _poll_alive
PollAlive == poll = "alive"

Fresh == polled \/ ticked

\* Variant: a live loop is taken for fresh prices.
VerdictByLoop(alive) == IF alive THEN "online" ELSE "offline"

\* _evaluate
Verdict(alive) == IF alive /\ Fresh THEN "online" ELSE IF alive THEN "degraded" ELSE "offline"

\* _watch_loop: a loop that lives is judged, one that does not is stopped ...
Watch ==
    /\ guard = "watching"
    /\ IF PollAlive THEN state' = Verdict(TRUE) /\ UNCHANGED <<guard, poll>>
                    ELSE guard' = "reviving" /\ poll' = "off" /\ UNCHANGED state
    /\ UNCHANGED <<rest, stream, requests, status, polled, ticked>>

\* ... and started, and then judged.
Revive ==
    /\ guard = "reviving"
    /\ guard' = "watching" /\ poll' = "alive" /\ state' = Verdict(TRUE)
    /\ UNCHANGED <<rest, stream, requests, status, polled, ticked>>

-----------------------------------------------------------------------------
(* The world.                                                              *)

RestChanges ==
    /\ rest' = ~rest
    /\ UNCHANGED <<stream, requests, status, feed, super>>

\* Nothing is subscribed any more, and silence does not count; it does again with
\* the next subscription, which finds the clocks as they are.
Unsubscribes ==
    /\ heard' = [c \in Clients |-> TRUE]
    /\ UNCHANGED <<rest, link, told, requests, status, feed, super>>

\* Time passes without data.
Ages ==
    \/ \E c \in Clients : heard[c] /\ heard' = [heard EXCEPT ![c] = FALSE] /\ UNCHANGED <<polled, ticked>>
    \/ polled /\ polled' = FALSE /\ UNCHANGED <<heard, ticked>>
    \/ ticked /\ ticked' = FALSE /\ UNCHANGED <<heard, polled>>

Aging == Ages /\ UNCHANGED <<rest, link, told, requests, status, poll, super>>

ConnInit ==
    /\ rest \in BOOLEAN
    /\ link = [c \in Clients |-> FALSE] /\ heard = [c \in Clients |-> TRUE]
    /\ told = "reconnecting"
    /\ failures = 0 /\ restAlive = FALSE /\ status = "disconnected"
    /\ poll = "alive" /\ polled = FALSE /\ ticked = FALSE
    /\ guard = "watching" /\ state = "degraded"

ConnNext ==
    \/ \E c \in Clients : Connects(c) \/ Loses(c) \/ Ticks(c) \/ CheckHealth(c)
    \/ Ping \/ Poll \/ PollDies \/ Watch \/ Revive \/ RestChanges \/ Unsubscribes \/ Aging

ConnSpec == ConnInit /\ [][ConnNext]_connVars

\* The watchdog, the timer of the pings, the poll loop while it lives and the
\* supervisor go on for ever.
ConnFairness ==
    /\ \A c \in Clients : WF_connVars(CheckHealth(c))
    /\ WF_connVars(Ping) /\ WF_connVars(Poll) /\ WF_connVars(Watch) /\ WF_connVars(Revive)

-----------------------------------------------------------------------------
(* Properties.                                                             *)

\* Every variable keeps its type.
ConnTypeOK ==
    /\ rest \in BOOLEAN /\ link \in [Clients -> BOOLEAN] /\ heard \in [Clients -> BOOLEAN]
    /\ told \in {"connected", "reconnecting"}
    /\ failures \in 0..FailureTolerance /\ restAlive \in BOOLEAN
    /\ status \in {"connected", "reconnecting", "disconnected"}
    /\ poll \in {"alive", "dead", "off"} /\ {polled, ticked} \subseteq BOOLEAN
    /\ guard \in {"watching", "reviving"} /\ state \in {"online", "degraded", "offline"}

\* A poll loop that died is started again, whatever its flag says: the prices do
\* not freeze for ever (resilience.py).
DeadPollRevived == []<>(poll = "alive")

\* The state shown to the user follows the data: it does not stay online over
\* prices that are never fresh again, and it comes to be online over fresh ones.
StateFollows ==
    /\ <>[]~Fresh => <>[](state # "online")
    /\ <>[](Fresh /\ PollAlive) => <>[](state = "online")

\* When no request is answered any more and no socket connects, the engine comes
\* to say so, in whatever order the failures and the losses were counted.
OutageIsTold == <>[](~rest /\ \A c \in Clients : ~link[c]) => <>[](status # "connected")

\* While requests are answered the engine is online, whatever the sockets do: a
\* lost web socket alone does not put the program offline (_handle_ws_status).
AnsweredIsOnline == <>[]rest => <>[](status = "connected")

\* A stream that falls silent is told to be down, although no callback says so.
SilenceIsTold == []<>(told = StreamStatus(link, heard))

\* What the engine tells of the connection follows it, both ways, and so does
\* what the stream tells the engine.
StatusFollows == OutageIsTold /\ AnsweredIsOnline /\ SilenceIsTold
=============================================================================
