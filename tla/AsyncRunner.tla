---------------------------- MODULE AsyncRunner ----------------------------
(***************************************************************************)
(* How the interface thread runs its work on the network thread.  Work is  *)
(* submitted under a key; a new submission of a key cancels the one before *)
(* it.  Outcomes come back as signals, which the interface thread takes    *)
(* from its queue one after the other.                                     *)
(***************************************************************************)
EXTENDS Naturals, Sequences

CONSTANTS
    MaxSubmits,  \* bound on the submissions
    Keys,
    NoKey        \* the key of a submission that is not coalesced

\* What the constants must satisfy.
RunnerAssumption == MaxSubmits \in Nat /\ NoKey \notin Keys

VARIABLES
    task,       \* the coroutine of each handle
    keyOf,      \* the key it was submitted under
    cancelled,  \* handles whose outcome is not wanted any more
    active,     \* the handle in _active under each key, or 0
    signals,    \* emitted, and not yet taken by the interface thread
    shown       \* what each handle's callbacks were called with

runnerVars == <<task, keyOf, cancelled, active, signals, shown>>

-----------------------------------------------------------------------------
Handles  == 1..MaxSubmits
Outcomes == {"succeeded", "failed"}
Used     == {h \in Handles : task[h] # "none"}
Ended(h) == \E i \in DOMAIN shown[h] : shown[h][i] = "finished"
Answered(h) == \E i \in DOMAIN shown[h] : shown[h][i] \in Outcomes

Signal(h, what) == [of |-> h, what |-> what]

\* submit: the previous work of the key is cancelled, and gives way when it next
\* awaits; the new coroutine is scheduled.
Submit(h, k) ==
    /\ task[h] = "none" /\ \A g \in Handles : g < h => task[g] # "none"
    /\ task' = [task EXCEPT ![h] = "queued"]
    /\ keyOf' = [keyOf EXCEPT ![h] = k]
    /\ IF k \in Keys
       THEN /\ cancelled' = cancelled \cup ({active[k]} \ {0})
            /\ active' = [active EXCEPT ![k] = h]
       ELSE UNCHANGED <<cancelled, active>>
    /\ UNCHANGED <<signals, shown>>

\* cancel
Cancel(k) ==
    /\ active[k] # 0
    /\ cancelled' = cancelled \cup {active[k]}
    /\ active' = [active EXCEPT ![k] = 0]
    /\ UNCHANGED <<task, keyOf, signals, shown>>

\* Variant: a superseded coroutine is closed without a word.
BeginSilently(h) ==
    /\ task[h] = "queued" /\ \A g \in Handles : g < h => task[g] # "queued"
    /\ task' = [task EXCEPT ![h] = IF h \in cancelled THEN "over" ELSE "running"]
    /\ UNCHANGED <<keyOf, cancelled, active, signals, shown>>

\* The first step of _wrap, in the order of the submissions: superseded work is
\* closed before it starts.
Begin(h) ==
    /\ task[h] = "queued" /\ \A g \in Handles : g < h => task[g] # "queued"
    /\ task' = [task EXCEPT ![h] = IF h \in cancelled THEN "over" ELSE "running"]
    /\ signals' = IF h \in cancelled THEN Append(signals, Signal(h, "finished")) ELSE signals
    /\ UNCHANGED <<keyOf, cancelled, active, shown>>

\* Variant: the outcome is told although nobody wants it.
TellsAlways(h, what) == <<Signal(h, what), Signal(h, "finished")>>

\* The rest of _wrap: the outcome, unless it is not wanted, and the end.
Tells(h, what) ==
    IF h \in cancelled THEN <<Signal(h, "finished")>> ELSE <<Signal(h, what), Signal(h, "finished")>>

\* The coroutine returns or raises; cancelled work may come to its end first, or
\* pass the cancellation on.
Finish(h, what) ==
    /\ task[h] = "running"
    /\ task' = [task EXCEPT ![h] = "over"]
    /\ signals' = signals \o Tells(h, what)
    /\ UNCHANGED <<keyOf, cancelled, active, shown>>

\* _release: only by the handle that holds the key.
Release(h) == IF active[keyOf[h]] = h THEN [active EXCEPT ![keyOf[h]] = 0] ELSE active

\* The interface thread takes a signal and calls the callbacks.
Deliver ==
    /\ signals # <<>>
    /\ LET s == Head(signals)
       IN  /\ shown' = [shown EXCEPT ![s.of] = Append(@, s.what)]
           /\ active' = IF s.what = "finished" /\ keyOf[s.of] \in Keys THEN Release(s.of) ELSE active
    /\ signals' = Tail(signals)
    /\ UNCHANGED <<task, keyOf, cancelled>>

RunnerInit ==
    /\ task = [h \in Handles |-> "none"] /\ keyOf = [h \in Handles |-> NoKey]
    /\ cancelled = {}
    /\ active = [k \in Keys |-> 0]
    /\ signals = <<>> /\ shown = [h \in Handles |-> <<>>]

RunnerNext ==
    \/ \E h \in Handles : \/ Begin(h)
                          \/ \E k \in Keys \cup {NoKey} : Submit(h, k)
                          \/ \E what \in Outcomes : Finish(h, what)
    \/ \E k \in Keys : Cancel(k)
    \/ Deliver

RunnerSpec == RunnerInit /\ [][RunnerNext]_runnerVars

\* Both threads go on, and no work lasts for ever.
RunnerFairness ==
    /\ WF_runnerVars(Deliver)
    /\ \A h \in Handles : WF_runnerVars(Begin(h)) /\ WF_runnerVars(\E what \in Outcomes : Finish(h, what))

-----------------------------------------------------------------------------
(* Properties.                                                             *)

\* What the callbacks of a handle are called with: at most one outcome, and after
\* it the end, once (the signals succeeded, failed and finished of _wrap).
Courses ==
    {<<>>, <<"finished">>} \cup {<<what>> : what \in Outcomes} \cup {<<what, "finished">> : what \in Outcomes}

\* Every variable keeps its type.
RunnerTypeOK ==
    /\ task \in [Handles -> {"none", "queued", "running", "over"}]
    /\ keyOf \in [Handles -> Keys \cup {NoKey}]
    /\ cancelled \subseteq Used
    /\ active \in [Keys -> Handles \cup {0}]
    /\ \A i \in DOMAIN signals : signals[i].of \in Used
    /\ shown \in [Handles -> Courses]

\* The outcome of older work is never applied over that of newer work of its key.
LatestWins ==
    [][\A g, h \in Used : g < h /\ keyOf[g] = keyOf[h] /\ keyOf[g] \in Keys /\ Answered(h)
        => (Answered(g)' => Answered(g))]_runnerVars

\* The end of all work reaches the interface, which takes back its busy flags
\* there, and so does the outcome, unless the work was cancelled.
EveryEndIsTold ==
    \A h \in Handles : (h \in Used) ~> (Ended(h) /\ (Answered(h) \/ h \in cancelled))

=============================================================================
