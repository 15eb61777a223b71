---------------------------- MODULE TradeMonitor ----------------------------
(***************************************************************************)
(* The general trade monitor and the manual close of a paper trade, beside *)
(* the automatic engine, all on the rows of the trade table.               *)
(*                                                                         *)
(* The monitor runs on the user interface thread.  A round reads the open  *)
(* rows, then the engine's trades, awaits fresh prices on the network      *)
(* thread, and applies its steps to the rows as it read them: a stop       *)
(* closes what is left, a target sells its share, the last target the      *)
(* rest.  The engine and the manual close work on the network thread.      *)
(*                                                                         *)
(* Prices are levels of a long trade: 0 is at the stop or below, 1 at the  *)
(* entry or below, 2 above the entry, 2 + k at target k or beyond.  A      *)
(* short trade is the mirror image.                                        *)
(***************************************************************************)
EXTENDS Naturals

CONSTANTS
    Ids,          \* row ids, 1..n: a bound on the rows of the table
    Whole,        \* the quantity of a new trade, divisible into its shares
    Staged,       \* numbers of targets the user's trades may have
    EngineModes,  \* execution modes the engine trades in
    ClearBusy,    \* may the history be cleared while rows are worked on?
    MaxRestarts   \* bound on restarts of the program

\* What the constants must satisfy.
MonitorAssumption ==
    /\ Ids \subseteq Nat \ {0}
    /\ Whole \in Nat \ {0}
    /\ Staged \subseteq 1..3
    /\ EngineModes \subseteq {"paper", "live"}
    /\ ClearBusy \in BOOLEAN
    /\ MaxRestarts \in Nat

VARIABLES
    rows,       \* the trade table
    managed,    \* ids of the trades the engine manages
    entering,   \* ids the engine has written and not yet registered
    round,      \* phase of the monitor's round
    seen,       \* the rows the round works on, as it read them
    manual,     \* the rows the user is closing, as the close read them
    price, fresh,   \* the quote of the tick engine and whether it is fresh
    raced,      \* did the interface thread look between an engine's row and its trade?
    restarts

table   == <<rows, managed, entering>>
market  == <<price, fresh>>
monVars == <<rows, managed, entering, round, seen, manual, price, fresh, raced, restarts>>

-----------------------------------------------------------------------------
\* "sold" and "parts" add up what partial_close and close_trade record.
Row == [status : {"none", "open", "closed"}, mode : {"paper", "live"},
        targets : 1..3, hit : 0..3, stop : {0, 1}, quantity : 0..Whole,
        sold : Nat, parts : Nat, by : {"nobody", "monitor", "user", "engine"}]

NoRow == [status |-> "none", mode |-> "paper", targets |-> 1, hit |-> 0, stop |-> 0,
          quantity |-> 0, sold |-> 0, parts |-> 0, by |-> "nobody"]

NewRow(mode, n) == [NoRow EXCEPT !.status = "open", !.mode = mode, !.targets = n, !.quantity = Whole]

Open(i) == rows[i].status = "open"
OpenIds == {i \in Ids : Open(i)}

\* SQLite gives a new row the id after the largest one in the table.
FreeIds == {i \in Ids : /\ rows[i] = NoRow
                        /\ \A j \in Ids : j > i => rows[j] = NoRow
                        /\ \A j \in Ids : j < i => rows[j] # NoRow}

-----------------------------------------------------------------------------
(* The decision of the monitor: the stop first, then the next target.      *)

StopCrossed(r, p)   == p <= r.stop
TargetCrossed(r, p) == r.hit < r.targets /\ p >= 3 + r.hit
Share(r)            == Whole \div r.targets

StepOf(r, p) ==
    CASE StopCrossed(r, p) -> "stop"
      [] ~StopCrossed(r, p) /\ TargetCrossed(r, p) /\ r.hit + 1 < r.targets
            /\ Share(r) < r.quantity -> "partial"
      [] ~StopCrossed(r, p) /\ TargetCrossed(r, p)
            /\ (r.hit + 1 = r.targets \/ Share(r) >= r.quantity) -> "final"
      [] OTHER -> "wait"

(* The writes of the trade table.  Each refuses a row that is not open.    *)

\* What a close and the sale of a part leave of a row.
Closed(r, who) == [r EXCEPT !.status = "closed", !.by = who, !.sold = r.sold + r.quantity]

PartSold(r, share) ==
    [r EXCEPT !.quantity = r.quantity - share, !.sold = r.sold + share, !.parts = r.parts + 1]

TargetHit(r, index) ==
    [r EXCEPT !.hit = IF r.hit > index + 1 THEN r.hit ELSE index + 1,
              !.stop = IF index = 0 THEN 1 ELSE r.stop]

MaySell(i, share) == Open(i) /\ 0 < share /\ share < rows[i].quantity

\* Variant: closes whatever the row is by now.
CloseAnyRow(i, who) == rows' = [rows EXCEPT ![i] = Closed(rows[i], who)]

CloseRow(i, who) ==
    IF Open(i) THEN rows' = [rows EXCEPT ![i] = Closed(rows[i], who)] ELSE UNCHANGED rows

\* Variant: the target just sold is not remembered.
PartialForgetsTarget(i, share, index) ==
    IF MaySell(i, share)
    THEN rows' = [rows EXCEPT ![i] = PartSold(rows[i], share)] ELSE UNCHANGED rows

PartialClose(i, share, index) ==
    IF MaySell(i, share)
    THEN rows' = [rows EXCEPT ![i] = TargetHit(PartSold(rows[i], share), index)]
    ELSE UNCHANGED rows

-----------------------------------------------------------------------------
(* The monitor.                                                            *)

\* _trade_monitor_tick: the open rows are read first ...
MonitorTick ==
    /\ round = "idle" /\ OpenIds # {}
    /\ round' = "read"
    /\ seen' = [i \in OpenIds |-> rows[i]]
    /\ UNCHANGED <<table, manual, market, raced, restarts>>

\* Variant: live rows are not told from the others.
OursLiveToo(i) == i \notin managed

\* Variant: the engine's trades are not left out.
OursManagedToo(i) == seen[i].mode # "live"

Ours(i) == i \notin managed /\ seen[i].mode # "live"

\* Variant: the round is not given back when there is nothing to do.
LeaveOutAndStay ==
    /\ round = "read"
    /\ LET ours == {i \in DOMAIN seen : Ours(i)}
       IN  /\ seen' = [i \in ours |-> seen[i]]
           /\ round' = IF ours = {} THEN "apply" ELSE "fetch"
           /\ raced' = (raced \/ ours \cap entering # {})
    /\ UNCHANGED <<table, manual, market, restarts>>

\* ... and then the engine's trades; live rows are left out.
LeaveOutManaged ==
    /\ round = "read"
    /\ LET ours == {i \in DOMAIN seen : Ours(i)}
       IN  /\ seen' = [i \in ours |-> seen[i]]
           /\ round' = IF ours = {} THEN "idle" ELSE "fetch"
           /\ raced' = (raced \/ ours \cap entering # {})
    /\ UNCHANGED <<table, manual, market, restarts>>

\* fetch: a stale price is asked for, for at most five seconds.
FetchPrices ==
    /\ round = "fetch"
    /\ fresh' \in {TRUE, fresh}
    /\ round' = IF fresh' THEN "apply" ELSE "idle"
    /\ seen' = IF fresh' THEN seen ELSE <<>>
    /\ UNCHANGED <<table, manual, price, raced, restarts>>

\* apply, one row after the other.
ApplyStep(i) ==
    /\ round = "apply" /\ i \in DOMAIN seen
    /\ seen' = [j \in DOMAIN seen \ {i} |-> seen[j]]
    /\ round' = IF DOMAIN seen = {i} THEN "idle" ELSE "apply"
    /\ LET r == seen[i]
           step == IF fresh THEN StepOf(r, price) ELSE "wait"
       IN  \/ step = "partial" /\ PartialClose(i, Share(r), r.hit)
           \/ step \in {"final", "stop"} /\ CloseRow(i, "monitor")
           \/ step = "wait" /\ UNCHANGED rows
    /\ UNCHANGED <<managed, entering, manual, market, raced, restarts>>

-----------------------------------------------------------------------------
(* The user.                                                               *)

\* record_paper_trade
UserOpens(i) ==
    /\ i \in FreeIds
    /\ \E n \in Staged : rows' = [rows EXCEPT ![i] = NewRow("paper", n)]
    /\ UNCHANGED <<managed, entering, round, seen, manual, market, raced, restarts>>

\* close_paper_trade of a row the engine does not manage: close_paper_position
\* reads the row, refuses what is not an open paper row, and awaits a price.
UserCloses(i) ==
    /\ i \notin DOMAIN manual /\ i \notin managed
    /\ Open(i) /\ rows[i].mode = "paper"
    /\ manual' = [j \in DOMAIN manual \cup {i} |-> IF j = i THEN rows[i] ELSE manual[j]]
    /\ raced' = (raced \/ i \in entering)
    /\ UNCHANGED <<table, round, seen, market, restarts>>

\* ... and closes the row, or gives up without a fresh price.
UserClosed(i) ==
    /\ i \in DOMAIN manual
    /\ manual' = [j \in DOMAIN manual \ {i} |-> manual[j]]
    /\ \/ fresh' = fresh /\ ~fresh /\ UNCHANGED rows
       \/ fresh' = TRUE /\ CloseRow(i, "user")
    /\ UNCHANGED <<managed, entering, round, seen, price, raced, restarts>>

\* clear_trade_history
ClearHistory ==
    /\ \E i \in Ids : rows[i] # NoRow
    /\ ClearBusy \/ (round = "idle" /\ manual = <<>> /\ managed \cup entering = {})
    /\ rows' = [i \in Ids |-> NoRow]
    /\ UNCHANGED <<managed, entering, round, seen, manual, market, raced, restarts>>

-----------------------------------------------------------------------------
(* The engine: a row is written and its trade registered, without a lock   *)
(* that the interface thread would take.                                   *)

EngineWrites(i) ==
    /\ i \in FreeIds
    /\ \E mode \in EngineModes : rows' = [rows EXCEPT ![i] = NewRow(mode, 1)]
    /\ entering' = entering \cup {i}
    /\ UNCHANGED <<managed, round, seen, manual, market, raced, restarts>>

EngineRegisters(i) ==
    /\ i \in entering
    /\ entering' = entering \ {i} /\ managed' = managed \cup {i}
    /\ UNCHANGED <<rows, round, seen, manual, market, raced, restarts>>

\* The engine closes its row, and forgets the trade when the row was closed.
EngineCloses(i) ==
    /\ i \in managed /\ Open(i)
    /\ CloseRow(i, "engine")
    /\ managed' = managed \ {i}
    /\ UNCHANGED <<entering, round, seen, manual, market, raced, restarts>>

-----------------------------------------------------------------------------
MonitorInit ==
    /\ rows = [i \in Ids |-> NoRow]
    /\ managed = {} /\ entering = {}
    /\ round = "idle" /\ seen = <<>> /\ manual = <<>>
    /\ price = 2 /\ fresh = FALSE
    /\ raced = FALSE /\ restarts = 0

\* Only the table survives.
MonitorRestarts ==
    /\ restarts < MaxRestarts
    /\ restarts' = restarts + 1
    /\ managed' = {} /\ entering' = {}
    /\ round' = "idle" /\ seen' = <<>> /\ manual' = <<>>
    /\ UNCHANGED <<rows, market, raced>>

\* The market moves, and its quotes come or cease.
MarketMoves ==
    /\ price' \in 0..5 /\ fresh' \in BOOLEAN
    /\ <<price', fresh'>> # <<price, fresh>>
    /\ UNCHANGED <<table, round, seen, manual, raced, restarts>>

MonitorNext ==
    \/ MonitorTick \/ LeaveOutManaged \/ FetchPrices
    \/ \E i \in Ids : \/ ApplyStep(i) \/ UserOpens(i) \/ UserCloses(i) \/ UserClosed(i)
                      \/ EngineWrites(i) \/ EngineRegisters(i) \/ EngineCloses(i)
    \/ ClearHistory \/ MonitorRestarts \/ MarketMoves

MonitorSpec == MonitorInit /\ [][MonitorNext]_monVars

\* The timer ticks, and neither thread stops between two statements.
MonitorFairness ==
    /\ WF_monVars(MonitorTick) /\ WF_monVars(LeaveOutManaged) /\ WF_monVars(FetchPrices)
    /\ \A i \in Ids : WF_monVars(ApplyStep(i)) /\ WF_monVars(EngineRegisters(i))

-----------------------------------------------------------------------------
(* Properties.                                                             *)

\* Every variable keeps its type.
MonitorTypeOK ==
    /\ rows \in [Ids -> Row]
    /\ managed \subseteq Ids /\ entering \subseteq Ids
    /\ round \in {"idle", "read", "fetch", "apply"}
    /\ DOMAIN seen \subseteq Ids /\ \A i \in DOMAIN seen : seen[i] \in Row
    /\ DOMAIN manual \subseteq Ids /\ \A i \in DOMAIN manual : manual[i] \in Row
    /\ price \in 0..5 /\ fresh \in BOOLEAN
    /\ raced \in BOOLEAN /\ restarts \in 0..MaxRestarts

\* What was sold of a trade and what is left of it are always the whole trade,
\* however the monitor, the user and the engine compete for the row: the exit of
\* partial_close and close_trade is booked once per unit.
SoldOnce ==
    \A i \in Ids : rows[i].status # "none" =>
        rows[i].sold + (IF Open(i) THEN rows[i].quantity ELSE 0) = Whole

\* Each target but the last sells one part, once: the rounds of the monitor
\* never repeat a target, although they work on rows read before an await.
EachTargetOnce == \A i \in Ids : rows[i].parts = rows[i].hit

\* Unless the interface thread looked just between the row and the registration,
\* neither the monitor nor a manual close touches a trade while the engine
\* manages it (RELEASE_2.3.0_FA.md: managed and live positions were taken out
\* of the general monitor).
ManagedUntouched == ~raced => \A i \in managed : Open(i) /\ rows[i].parts = 0

\* A live row is closed by the engine alone, which orders at the exchange
\* (paper_execution.py: this path never closes a live record as if it were a
\* simulated trade).
LiveNotSimulated == \A i \in Ids : rows[i].mode = "live" => rows[i].by \in {"nobody", "engine"}

\* What a row says of its trade.
TradeOf(r) ==
    [stage |-> r.status, mode |-> r.mode, targets |-> r.targets, next |-> r.hit,
     left |-> IF r.status = "open" THEN r.quantity ELSE 0, sold |-> r.sold, by |-> r.by]

Staging == INSTANCE StagedTrades WITH trades <- [i \in Ids |-> TradeOf(rows[i])]

\* The table is one of staged trades: the monitor, which works on rows as they
\* were before its await, the user and the engine together do nothing to a trade
\* that StagedTrades does not allow: no target twice or out of order, none of the
\* wrong share, nothing after the close (TradeRepository.partial_close and
\* close_trade, staged_targets.py).  A step that writes no row changes no trade,
\* so this implies Staging!Spec.
KeepsTrades == Staging!Init /\ [][UNCHANGED rows \/ Staging!Next]_rows

\* An open paper trade that nobody else manages does not stay past its stop or
\* its target for ever: while the price stays there and is fresh, the rounds
\* sell it at last, in all its parts.
DueIsSold ==
    \A i \in Ids :
        []<>~(/\ Open(i) /\ rows[i].mode = "paper" /\ i \notin managed \cup entering
              /\ fresh /\ StepOf(rows[i], price) # "wait")
=============================================================================
