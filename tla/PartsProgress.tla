--------------------------- MODULE PartsProgress ---------------------------
(***************************************************************************)
(* The parts around the automatic trader whose promises need fairness, for *)
(* one run of their liveness properties.  They share no variable: an       *)
(* execution is one of one part, chosen at the start, while the others     *)
(* rest.  The fairness is a premise of every property and not of the       *)
(* specification, so that TLC looks at each part under its own alone.      *)
(***************************************************************************)
EXTENDS Naturals, Sequences

CONSTANTS
    Ids, Whole, Staged, EngineModes, ClearBusy, MaxRestarts,
    MaxSubmits, Keys, NoKey,
    Clients, FailureTolerance,
    Exchanges, Trades, MaxSwitches,
    SignalIds, Unlisted, Batch, Singles, Day, Life

VARIABLES
    part,   \* the part that runs
    rows, managed, entering, round, seen, manual, price, fresh, raced, restarts,
    task, keyOf, cancelled, active, signals, shown,
    rest, link, heard, told, failures, restAlive, status, poll, polled, ticked, guard, state,
    market, feed, running, unheard, pc, target, holders, doomed, submitted, switching,
    engine, admits, keys, scanning, open,
    path, outcome, waiting, batch

monitorVars == <<rows, managed, entering, round, seen, manual, price, fresh, raced, restarts>>
runnerVars  == <<task, keyOf, cancelled, active, signals, shown>>
linksVars   == <<rest, link, heard, told, failures, restAlive, status, poll, polled, ticked, guard, state>>
switchVars  == <<market, feed, running, unheard, pc, target, holders, doomed, submitted, switching,
                 engine, admits, keys, scanning, open>>
resultVars  == <<path, outcome, waiting, batch>>
vars        == <<part, monitorVars, runnerVars, linksVars, switchVars, resultVars>>

Monitor == INSTANCE TradeMonitor
Runner  == INSTANCE AsyncRunner
Links   == INSTANCE Connectivity
Switch  == INSTANCE ExchangeSwitch
Results == INSTANCE Outcomes

ASSUME ProgressAssumption ==
    /\ Monitor!MonitorAssumption /\ Runner!RunnerAssumption
    /\ Links!ConnectivityAssumption /\ Switch!SwitchAssumption
    /\ Results!OutcomesAssumption

Init ==
    /\ part \in {"monitor", "runner", "links", "switch", "results"}
    /\ Monitor!MonitorInit /\ Runner!RunnerInit /\ Links!ConnInit /\ Switch!SwitchInit /\ Results!OutcomesInit
    /\ part # "links" => rest
    /\ part # "switch" => market = CHOOSE x \in Exchanges : TRUE
    /\ part # "results" => \A i \in DOMAIN path : path[i] = Results!Entry

MonitorRuns ==
    /\ part = "monitor" /\ Monitor!MonitorNext
    /\ UNCHANGED <<part, runnerVars, linksVars, switchVars, resultVars>>

RunnerRuns ==
    /\ part = "runner" /\ Runner!RunnerNext
    /\ UNCHANGED <<part, monitorVars, linksVars, switchVars, resultVars>>

LinksRun ==
    /\ part = "links" /\ Links!ConnNext
    /\ UNCHANGED <<part, monitorVars, runnerVars, switchVars, resultVars>>

SwitchRuns ==
    /\ part = "switch" /\ Switch!SwitchNext
    /\ UNCHANGED <<part, monitorVars, runnerVars, linksVars, resultVars>>

ResultsRun ==
    /\ part = "results" /\ Results!OutcomesNext
    /\ UNCHANGED <<part, monitorVars, runnerVars, linksVars, switchVars>>

Next == MonitorRuns \/ RunnerRuns \/ LinksRun \/ SwitchRuns \/ ResultsRun

Spec == Init /\ [][Next]_vars

\* Each part, when it runs, is scheduled as its own module says.
MonitorFair == part = "monitor" /\ Monitor!MonitorFairness
RunnerFair  == part = "runner"  /\ Runner!RunnerFairness
LinksFair   == part = "links"   /\ Links!ConnFairness
SwitchFair  == part = "switch"  /\ Switch!SwitchFairness
ResultsFair == part = "results" /\ Results!OutcomesFairness

-----------------------------------------------------------------------------
\* The monitor sells at last what is due.
DueIsSold == MonitorFair => Monitor!DueIsSold

\* The end of all work of the runner is told.
EveryEndIsTold == RunnerFair => Runner!EveryEndIsTold

\* A dead poll loop is revived, and the two verdicts on the connection follow it.
DeadPollRevived == LinksFair => Links!DeadPollRevived
VerdictsFollow  == LinksFair => Links!StateFollows /\ Links!StatusFollows

\* A switch of the exchange ends.
SwitchEnds == SwitchFair => Switch!SwitchEnds

\* Every signal is answered for at last.
NoneForgotten == ResultsFair => Results!NoneForgotten
=============================================================================
