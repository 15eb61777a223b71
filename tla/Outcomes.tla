------------------------------ MODULE Outcomes ------------------------------
(***************************************************************************)
(* What became of the signals.  A round of the tracker reads the signals   *)
(* whose check is the longest ago, waits for their prices and closes those *)
(* that reached their stop, their last target or their end.                *)
(*                                                                         *)
(* All signals are of one market, long, with the same levels; a short one  *)
(* is its mirror image.  The price is the last level it passed, and jumps; *)
(* the exchange's high and low of the day are those of "path".             *)
(***************************************************************************)
EXTENDS Integers, Sequences, FiniteSets, SequencesExt

CONSTANTS
    SignalIds,
    Unlisted,   \* signals whose symbol the exchange gives no price for
    Batch,      \* records a round reads (signals.track_batch)
    Singles,    \* symbols a round asks for one by one (20)
    Day,        \* moves of the price in 24 hours
    Life        \* moves until a signal expires (EXPIRY_HOURS)

\* What the constants must satisfy.
OutcomesAssumption ==
    /\ IsFiniteSet(SignalIds) /\ Unlisted \subseteq SignalIds
    /\ {Batch, Day, Life} \subseteq Nat \ {0}
    /\ Singles \in Nat

VARIABLES
    path,      \* the prices of the last day, the present one last
    outcome,   \* the signals and their outcomes
    waiting,   \* the pending ones, in the order of open_outcomes
    batch      \* the records the round under way has read

outcomeVars == <<path, outcome, waiting, batch>>

-----------------------------------------------------------------------------
Stop  == 0
Entry == 1
First == 2
Final == 3
Price == Stop..Final

\* "low" and "high" are the extremes since the signal was made, "gap" the moves
\* since its last check; "blind" says whether a part of its course was in no
\* window: the program sees none of these.
Outcome == [status : {"none", "stored", "PENDING", "TARGET", "STOP", "EXPIRED"},
            hit : 0..2, age : 0..Life, checked : BOOLEAN,
            low : Price, high : Price, gap : 0..(Day + 1), blind : BOOLEAN]

Unmade == [status |-> "none", hit |-> 0, age |-> 0, checked |-> FALSE,
           low |-> Entry, high |-> Entry, gap |-> 0, blind |-> FALSE]

Higher(a, b) == IF a > b THEN a ELSE b
Lower(a, b)  == IF a < b THEN a ELSE b
Highest(s)   == CHOOSE x \in ToSet(s) : \A y \in ToSet(s) : y <= x
Lowest(s)    == CHOOSE x \in ToSet(s) : \A y \in ToSet(s) : x <= y

Pending(s) == outcome[s].status = "PENDING"
LastPrice  == path[Day]

\* The prices of a ticker, and of a single price (PriceWindow).
Window(kind) == IF kind = "day" THEN path ELSE <<LastPrice>>

TargetsHit(w) == Cardinality({t \in {First, Final} : t <= Highest(w)})

\* Neither its stop nor its last target.
Undecided(r) == IF r.age >= Life THEN "EXPIRED" ELSE "PENDING"

\* Variant: the target is looked at before the stop.
StatusInFavour(r, w) ==
    IF TargetsHit(w) = 2 THEN "TARGET" ELSE IF Lowest(w) <= Stop THEN "STOP" ELSE Undecided(r)

\* The stop goes before the target, and the target before the end.
Status(r, w) ==
    IF Lowest(w) <= Stop THEN "STOP" ELSE IF TargetsHit(w) = 2 THEN "TARGET" ELSE Undecided(r)

\* CLOSED_STATUSES
IsClosed(r) == r.status \in {"TARGET", "STOP", "EXPIRED"}

\* update_outcome, which leaves a closed outcome as it is, and apply_state
Updated(r, kind) ==
    LET w == Window(kind) IN
    IF IsClosed(r) THEN r
    ELSE [r EXCEPT !.status = Status(r, w),
                   !.hit = IF Lowest(w) <= Stop THEN r.hit ELSE Higher(r.hit, TargetsHit(w)),
                   !.checked = TRUE,
                   !.gap = 0,
                   !.blind = r.blind \/ kind = "last" \/ r.gap > Day]

\* Those of a queue that are in a set, in their order.
Those(queue, set) ==
    LET first[n \in 0..Len(queue)] ==
            IF n = 0 THEN <<>> ELSE first[n - 1] \o (IF queue[n] \in set THEN <<queue[n]>> ELSE <<>>)
    IN  first[Len(queue)]

\* Those never checked come first, in the order of the table.
Enqueued(rows, queue, new) ==
    LET checked == {x \in SignalIds : rows[x].checked}
    IN  Those(queue, SignalIds \ checked) \o new \o Those(queue, checked)

-----------------------------------------------------------------------------
\* The price moves, whether the program runs or not.
Elapse ==
    \E p \in Price :
        /\ path' = Append(Tail(path), p)
        /\ outcome' = [s \in SignalIds |->
               IF outcome[s].status \notin {"stored", "PENDING"} THEN outcome[s]
               ELSE [outcome[s] EXCEPT !.age = Lower(Life, outcome[s].age + 1),
                                       !.gap = Lower(Day + 1, outcome[s].gap + 1),
                                       !.low = Lower(outcome[s].low, p), !.high = Higher(outcome[s].high, p)]]
    /\ UNCHANGED <<waiting, batch>>

\* A signal is saved and _track_outcome enters it; an error there is only logged.
SaveSignal(s) ==
    /\ outcome[s].status = "none" /\ LastPrice = Entry
    /\ \E tracked \in BOOLEAN :
        /\ outcome' = [outcome EXCEPT ![s].status = IF tracked THEN "PENDING" ELSE "stored"]
        /\ waiting' = IF tracked THEN Enqueued(outcome, waiting, <<s>>) ELSE waiting
    /\ UNCHANGED <<path, batch>>

\* _run_outcome_check, unless a round is under way, up to the request for prices.
BeginRound ==
    /\ batch = <<>> /\ waiting # <<>>
    /\ batch' = SubSeq(waiting, 1, Lower(Batch, Len(waiting)))
    /\ UNCHANGED <<path, outcome, waiting>>

\* Variant: the round ends at the first record without a price.
CheckedUpToFirstGap(read, priced) ==
    LET gaps == {i \in DOMAIN read : read[i] \notin priced} IN
    IF gaps = {} THEN read ELSE SubSeq(read, 1, (CHOOSE i \in gaps : \A j \in gaps : i <= j) - 1)

\* The records of the round that have a price.
Checked(read, priced) == Those(read, priced)

\* The loop over "read": a record in "daily" has the window of its ticker, one in
\* "single" a single price.
Applied(read, daily, single) ==
    [s \in SignalIds |->
        IF s \notin ToSet(Checked(read, daily \cup single)) THEN outcome[s]
        ELSE Updated(outcome[s], IF s \in daily THEN "day" ELSE "last")]

\* open_outcomes after it: what is still pending of them was checked last.
Requeued(rows, done) ==
    LET pending == {x \in SignalIds : rows[x].status = "PENDING"}
    IN  Those(waiting, SignalIds \ ToSet(done)) \o Those(done, pending)

\* _outcome_prices answers; what its list leaves out, or all of it when the
\* request fails, is asked one by one.
EndRound(daily, single) ==
    /\ batch # <<>>
    /\ daily \subseteq ToSet(batch) \ Unlisted
    /\ single \subseteq ToSet(batch) \ (Unlisted \cup daily) /\ Cardinality(single) <= Singles
    /\ outcome' = Applied(batch, daily, single)
    /\ waiting' = Requeued(outcome', Checked(batch, daily \cup single))
    /\ batch' = <<>>
    /\ UNCHANGED path

AllAnswered == EndRound(ToSet(batch) \ Unlisted, {})

\* The program ends, perhaps in the middle of the loop, and starts again; backfill
\* enters the signals that are not tracked.
Restart ==
    \E n \in 0..Len(batch) :
        LET read    == SubSeq(batch, 1, n)
            priced  == ToSet(read) \ Unlisted
            rows    == Applied(read, priced, {})
            missed  == {s \in SignalIds : rows[s].status = "stored"}
        IN  /\ outcome' = [s \in SignalIds |-> IF s \in missed THEN [rows[s] EXCEPT !.status = "PENDING"] ELSE rows[s]]
            /\ \E new \in SetToSeqs(missed) :
                   waiting' = Enqueued(rows, Requeued(rows, Checked(read, priced)), new)
            /\ batch' = <<>>
            /\ UNCHANGED path

-----------------------------------------------------------------------------
OutcomesInit ==
    /\ path \in [1..Day -> Price]
    /\ outcome = [s \in SignalIds |-> Unmade]
    /\ waiting = <<>> /\ batch = <<>>

OutcomesNext ==
    \/ Elapse \/ BeginRound \/ Restart
    \/ \E s \in SignalIds : SaveSignal(s)
    \/ \E daily, single \in SUBSET ToSet(batch) : EndRound(daily, single)

OutcomesSpec == OutcomesInit /\ [][OutcomesNext]_outcomeVars

\* Time passes, the timer ticks, and the exchange answers again and again.
OutcomesFairness ==
    /\ WF_outcomeVars(Elapse) /\ WF_outcomeVars(BeginRound) /\ SF_outcomeVars(AllAnswered)

-----------------------------------------------------------------------------
(* Properties.                                                             *)

\* Every variable keeps its type, and the queue holds what is pending.
OutcomesTypeOK ==
    /\ path \in [1..Day -> Price] /\ outcome \in [SignalIds -> Outcome]
    /\ Len(waiting) = Cardinality(ToSet(waiting)) /\ ToSet(waiting) = {s \in SignalIds : Pending(s)}
    /\ ToSet(batch) \subseteq SignalIds /\ Len(batch) <= Batch

\* A signal counts as won only if its stop was not touched before: of a window
\* with both the worse is booked (outcome_tracker.py: the stop goes before the
\* target).  Claimed of signals whose whole course was seen, with no gap longer
\* than the day of a ticker and no check by a single price.
TargetMeansNoStop ==
    \A s \in SignalIds : outcome[s].status = "TARGET" /\ ~outcome[s].blind => outcome[s].low > Stop

\* A result is one of the signal: it counts as lost or won, or a target as hit,
\* only if the price was there after the signal was made (outcome_tracker.py:
\* the window is the range seen since the last check).
ResultSinceMade ==
    \A s \in SignalIds :
        /\ outcome[s].status = "STOP" => outcome[s].low = Stop
        /\ outcome[s].status = "TARGET" => outcome[s].high = Final

\* No signal falls behind for ever (open_outcomes), restarts and partial rounds
\* included, as long as those without a price do not fill a batch.
NoneForgotten ==
    Cardinality(Unlisted) < Batch => \A s \in SignalIds \ Unlisted : Pending(s) ~> ~Pending(s)
=============================================================================
