------------------------ MODULE AutoTraderLimitProofs ------------------------
(***************************************************************************)
(* The switches of the engine, in every execution: the loss limit halts it *)
(* and refuses entries, and once stop() has returned no scan is left.      *)
(***************************************************************************)
EXTENDS AutoTraderTableProofs

(* A close that takes the day's result to the limit stops the engine in the *)
(* same step.                                                               *)
LEMMA CommitHalts ==
    ASSUME TypeOK, NEW k \in ExitKey, NEW s, Commit(k, s),
           LossLimit > 0, realised' <= -LossLimit,
           NEW i \in OpenRows, i \notin OpenRows'
    PROVE  ~running'
<1> DEFINE j == k[2]
<1>1. PICK result \in Results, edgeLost \in BOOLEAN :
        LET found == j \in OpenRows
            total == IF found THEN realised + result ELSE realised
            halt  == edgeLost \/ (LossLimit > 0 /\ SeenAfterClose(total) <= -LossLimit)
        IN /\ row' = IF found THEN [row EXCEPT ![j].open = FALSE] ELSE row
           /\ realised' = total
           /\ halt => BeginStop(k, s)
  BY DEF Commit
<1> HIDE DEF j
<1>2. j \in OpenRows
  <2> SUFFICES ASSUME j \notin OpenRows PROVE FALSE
    OBVIOUS
  <2>1. row' = row
    BY <1>1
  <2> QED BY <2>1 DEF OpenRows
<1>3. BeginStop(k, s)
  BY <1>1 DEF SeenAfterClose
<1> QED BY <1>3 DEF BeginStop

(* The close that takes the day's result to the loss limit also switches    *)
(* automatic entries off, before any other coroutine runs.                  *)
THEOREM LimitHalts == Spec => LossLimitHalts
<1> DEFINE Halts == LossLimit > 0 /\ realised' <= -LossLimit
                    /\ (\E i \in OpenRows \cap DOMAIN open : i \notin OpenRows') => ~running'
<1>1. TypeOK /\ [Next]_vars => [Halts]_vars
  <2> SUFFICES ASSUME TypeOK, [Next]_vars, LossLimit > 0, realised' <= -LossLimit,
                      NEW i \in OpenRows \cap DOMAIN open, i \notin OpenRows'
               PROVE  ~running'
    OBVIOUS
  <2>1. CASE \E k \in ExitKey, s \in Symbol : Commit(k, s)
    BY <2>1, CommitHalts
  <2>2. CASE UNCHANGED row
    BY <2>2 DEF OpenRows
  <2>3. ASSUME NEW e \in Entry, NEW live \in BOOLEAN, Record(e, live) PROVE FALSE
    BY <2>3 DEF Record, Put, OpenRows
  <2>4. ASSUME NEW s \in Symbol, UserRecords(s) PROVE FALSE
    BY <2>4 DEF UserRecords, Put, OpenRows
  <2>5. ASSUME NEW j \in Id, RowCloses(j) PROVE FALSE
    <3>1. row' = [row EXCEPT ![j].open = FALSE] /\ j # i
      BY <2>5 DEF RowCloses
    <3> QED BY <3>1 DEF OpenRows, TypeOK, BookType
  <2>6. CASE ClearHistory
    BY <2>6, NumberAssumption DEF ClearHistory
  <2>7. ASSUME NEW k \in ExitKey, ExitStep(k)
        PROVE  UNCHANGED row \/ \E s \in Symbol : Commit(k, s)
    BY <2>7 DEF ExitStep, ExitPriced, ExitGivesUp, CloseOrdered, CloseOrderFails, Settle,
                CommitFails, TypeOK, ExitType, Exit
  <2>8. ASSUME NEW j \in Id, UserCloses(j) \/ PanicCloses(j) \/ TickCloses(j) \/ RoundCloses(j)
        PROVE  UNCHANGED row \/ \E k \in ExitKey, s \in Symbol : Commit(k, s)
    <3>1. PICK c \in Caller : CloseTrade(<<c, j>>)
      BY <2>8 DEF UserCloses, PanicCloses, TickCloses, RoundCloses, Caller
    <3>2. <<c, j>> \in ExitKey
      BY Identities
    <3> QED BY <3>1, <3>2 DEF CloseTrade, MayExit, Settle, CommitFails, TypeOK, BookType, Position
  <2>9. ASSUME NEW e \in Entry, EntryStep(e)
        PROVE  UNCHANGED row \/ \E live \in BOOLEAN : Record(e, live)
    BY <2>9 DEF EntryStep, Refreshed, Reject, Admit, Priced, Ordered, OrderFails, Place,
                RecordFails
  <2>10. CASE \/ \E e \in Manual, s \in Symbol : ManualEntry(e, s)
              \/ \E e \in ScanTask : ScanStep(e)
              \/ \E j \in Id : RoundPasses(j) \/ RoundRefreshes(j)
              \/ PanicAgain
              \/ \E s \in Symbol : Tick(s) \/ GoStale(s) \/ TickChecked(s)
              \/ \E k \in ExitKey \cup {UserStop} : StopReturns(k)
              \/ BeginRound \/ EndRound \/ EndLoop \/ Start \/ Stop
              \/ ApplyConfig \/ CacheExpires \/ NewDay \/ Restart
              \/ UNCHANGED vars
    <3>1. UNCHANGED row
      BY <2>10 DEF ManualEntry, ScanStep, Candidates, Pick, ScanCancelled, CancelSwallowed,
                   RoundPasses, RoundRefreshes, PanicAgain, Tick, GoStale, TickChecked,
                   StopReturns, BeginRound, EndRound, EndLoop, Start, Stop, ApplyConfig,
                   CacheExpires, NewDay, Restart, vars
    <3> QED BY <2>2, <3>1
  <2> QED BY <2>1, <2>2, <2>3, <2>4, <2>5, <2>6, <2>7, <2>8, <2>9, <2>10 DEF Next
<1> QED BY <1>1, InitTypes, NextTypes, PTL DEF Spec, LossLimitHalts

-----------------------------------------------------------------------------
(* Only the engine closes rows: the user records none of his own, clears    *)
(* nothing, and the process lives.                                          *)
EngineOnly == LossLimit > 0 /\ ~UserTrades /\ ~MayClear /\ ~MayRestart

(* The inductive invariant: a cached figure is as bad as the table's, once  *)
(* the limit is reached, because nobody but an exit of the engine, which    *)
(* refreshes the cache, closes a row.                                       *)
LimitSeen ==
    EngineOnly =>
        /\ \A i \in DOMAIN row : row[i].auto
        /\ realised <= -LossLimit => \A v \in dailyCache : v <= -LossLimit

(* No row is closed by anybody else. *)
LEMMA NobodyElse ==
    ASSUME EngineOnly, TableInv, LimitSeen, NEW i \in Id
    PROVE  ~RowCloses(i)
BY DEF RowCloses, EngineOnly, TableInv, RowsProtected, LimitSeen, OpenRows

(* What a step does to the figures and to the table. *)
LEMMA LimitFigures ==
    ASSUME TypeOK, LimitSeen, EngineOnly,
           \A i \in DOMAIN row' : (i \in DOMAIN row /\ row'[i].auto = row[i].auto) \/ row'[i].auto,
           \/ realised' = realised /\ (dailyCache' = dailyCache \/ dailyCache' = {} \/ LookAtLimit)
           \/ realised' = 0
           \/ dailyCache' = {realised'}
    PROVE  LimitSeen'
<1>1. \A i \in DOMAIN row' : row'[i].auto
  BY DEF LimitSeen
<1>2. ASSUME realised' <= -LossLimit PROVE \A v \in dailyCache' : v <= -LossLimit
  <2>1. CASE realised' = realised /\ (dailyCache' = dailyCache \/ dailyCache' = {} \/ LookAtLimit)
    BY <1>2, <2>1 DEF LimitSeen, LookAtLimit, DailyTotals
  <2>2. CASE realised' = 0
    BY <1>2, <2>2, NumberAssumption DEF EngineOnly
  <2>3. CASE dailyCache' = {realised'}
    BY <1>2, <2>3
  <2> QED BY <2>1, <2>2, <2>3
<1> QED BY <1>1, <1>2 DEF LimitSeen

(* An exit that is written to the table. *)
LEMMA CommitFigures ==
    ASSUME TypeOK, LimitSeen, EngineOnly, NEW k \in ExitKey, NEW s, Commit(k, s)
    PROVE  LimitSeen'
<1> DEFINE j == k[2]
<1>1. PICK result \in Results :
        LET total == IF j \in OpenRows THEN realised + result ELSE realised
        IN /\ row' = IF j \in OpenRows THEN [row EXCEPT ![j].open = FALSE] ELSE row
           /\ realised' = total
           /\ dailyCache' = IF LossLimit > 0 THEN {SeenAfterClose(total)} ELSE {}
  BY DEF Commit
<1> HIDE DEF j
<1>2. \A i \in DOMAIN row' : i \in DOMAIN row /\ row'[i].auto = row[i].auto
  BY <1>1 DEF TypeOK, BookType, Row, OpenRows
<1>3. dailyCache' = {realised'}
  BY <1>1 DEF SeenAfterClose, EngineOnly
<1> QED BY <1>2, <1>3, LimitFigures

(* A close that is settled at once or after its price. *)
LEMMA SettleFigures ==
    ASSUME TypeOK, LimitSeen, EngineOnly, NEW k \in ExitKey, NEW t, Settle(k, t)
    PROVE  LimitSeen'
<1>1. CASE Commit(k, t.symbol)
  BY <1>1, CommitFigures
<1>2. CASE UNCHANGED <<row, realised, dailyCache>>
  BY <1>2, LimitFigures
<1> QED BY <1>1, <1>2 DEF Settle, CommitFails, moneyVars

(* A step of an entry. *)
LEMMA EntryFigures ==
    ASSUME TypeOK, LimitSeen, EngineOnly, NEW e \in Entry, EntryStep(e)
    PROVE  LimitSeen'
<1>1. realised' = realised /\ (dailyCache' = dailyCache \/ LookAtLimit)
  BY DEF EntryStep, Refreshed, Reject, Admit, Priced, Ordered, OrderFails, moneyVars
<1>2. CASE UNCHANGED row
  BY <1>1, <1>2, LimitFigures
<1>3. CASE \E live \in BOOLEAN : Record(e, live)
  <2>1. PICK live \in BOOLEAN : Record(e, live)
    BY <1>3
  <2> DEFINE n == NextId
             r == [symbol |-> target[e], live |-> live, auto |-> TRUE, open |-> TRUE]
  <2>2. row' = Put(row, n, r)
    BY <2>1 DEF Record
  <2>3. r.auto
    OBVIOUS
  <2> HIDE DEF n, r
  <2>4. \A i \in DOMAIN row' : (i \in DOMAIN row /\ row'[i].auto = row[i].auto) \/ row'[i].auto
    BY <2>2, <2>3 DEF Put
  <2> QED BY <1>1, <2>4, LimitFigures
<1> QED BY <1>2, <1>3 DEF EntryStep, Refreshed, Reject, Admit, Priced, Ordered, OrderFails, Place,
                          RecordFails

(* The inductive step. *)
LEMMA NextKeepsLimit == TypeOK /\ TableInv /\ LimitSeen /\ [Next]_vars => LimitSeen'
<1> SUFFICES ASSUME TypeOK, TableInv, LimitSeen, [Next]_vars, EngineOnly PROVE LimitSeen'
  BY DEF LimitSeen, EngineOnly
<1>1. ASSUME NEW e \in Entry, EntryStep(e) PROVE LimitSeen'
  BY <1>1, EntryFigures
<1>2. ASSUME NEW k \in ExitKey, ExitStep(k) PROVE LimitSeen'
  <2>1. CASE ExitPriced(k)
    BY <2>1, SettleFigures DEF ExitPriced
  <2>2. CASE \E s : Commit(k, s)
    BY <2>2, CommitFigures
  <2>3. CASE UNCHANGED <<row, realised, dailyCache>>
    BY <2>3, LimitFigures
  <2> QED BY <1>2, <2>1, <2>2, <2>3
          DEF ExitStep, ExitGivesUp, CloseOrdered, CloseOrderFails, CommitFails, moneyVars
<1>3. ASSUME NEW i \in Id, UserCloses(i) \/ PanicCloses(i) \/ TickCloses(i) \/ RoundCloses(i)
      PROVE  LimitSeen'
  <2>1. PICK c \in Caller : CloseTrade(<<c, i>>)
    BY <1>3 DEF UserCloses, PanicCloses, TickCloses, RoundCloses, Caller
  <2>2. <<c, i>> \in ExitKey
    BY Identities
  <2>3. CASE \E t : Settle(<<c, i>>, t)
    BY <2>2, <2>3, SettleFigures
  <2>4. CASE UNCHANGED <<row, realised, dailyCache>>
    BY <2>4, LimitFigures
  <2> QED BY <2>1, <2>3, <2>4 DEF CloseTrade, moneyVars
<1>4. ASSUME NEW i \in Id, RowCloses(i) PROVE LimitSeen'
  BY <1>4, NobodyElse
<1>5. CASE \/ \E e \in Manual, s \in Symbol : ManualEntry(e, s)
           \/ \E e \in ScanTask : ScanStep(e)
           \/ \E i \in Id : RoundPasses(i) \/ RoundRefreshes(i)
           \/ PanicAgain
           \/ \E s \in Symbol : Tick(s) \/ GoStale(s) \/ TickChecked(s)
           \/ \E k \in ExitKey \cup {UserStop} : StopReturns(k)
           \/ BeginRound \/ EndRound \/ EndLoop \/ Start \/ Stop
           \/ ApplyConfig \/ CacheExpires \/ NewDay \/ UNCHANGED vars
  <2>1. /\ UNCHANGED row
        /\ \/ realised' = realised /\ (dailyCache' = dailyCache \/ dailyCache' = {} \/ LookAtLimit)
           \/ realised' = 0
    BY <1>5 DEF ManualEntry, ScanStep, Candidates, Pick, ScanCancelled, CancelSwallowed,
                RoundPasses, RoundRefreshes, PanicAgain, Tick, GoStale, TickChecked,
                StopReturns, BeginRound, EndRound, EndLoop, Start, Stop, ApplyConfig,
                CacheExpires, NewDay, vars, moneyVars
  <2> QED BY <2>1, LimitFigures
<1>6. ~(\E s \in Symbol : UserRecords(s)) /\ ~ClearHistory /\ ~Restart
  BY DEF UserRecords, ClearHistory, Restart, EngineOnly
<1> QED BY <1>1, <1>2, <1>3, <1>4, <1>5, <1>6 DEF Next

(* No entry passes its guards once the limit is reached. *)
LEMMA LimitRefuses ==
    ASSUME TypeOK, LimitSeen, EngineOnly, realised <= -LossLimit, NEW e \in Entry
    PROVE  ~Admit(e)
<1>1. \E v \in DailyTotals : ~(v > -LossLimit)
  <2>1. CASE dailyCache = {}
    BY <2>1, NumberAssumption DEF DailyTotals, TypeOK, OtherType
  <2>2. CASE dailyCache # {}
    BY <2>2, NumberAssumption DEF DailyTotals, LimitSeen, TypeOK, OtherType
  <2> QED BY <2>1, <2>2
<1> QED BY <1>1 DEF Admit, Admissible, WithinLimit, EngineOnly

(* No entry is admitted once the table's result has reached the loss limit, *)
(* as long as only the engine closes rows.                                  *)
THEOREM LimitAdmitsNone == Spec => AdmissionWithinLimit
<1> DEFINE Refused == LossLimit > 0 /\ realised <= -LossLimit /\ ~UserTrades /\ ~MayClear /\ ~MayRestart =>
              \A e \in Entry :
                at[e] = "lock" => /\ at'[e] \notin {"price", "order"}
                                  /\ at'[e] = "lock" \/ DOMAIN open' \subseteq DOMAIN open
<1>1. TypeOK /\ LimitSeen /\ [Next]_vars => [Refused]_vars
  <2> SUFFICES ASSUME TypeOK, LimitSeen, [Next]_vars, EngineOnly, realised <= -LossLimit,
                      NEW e \in Entry, at[e] = "lock"
               PROVE  /\ at'[e] \notin {"price", "order"}
                      /\ at'[e] = "lock" \/ DOMAIN open' \subseteq DOMAIN open
    BY DEF EngineOnly
  <2>1. CASE at'[e] = "lock"
    BY <2>1
  <2>2. CASE Leave(e) /\ UNCHANGED open
    BY <2>2 DEF Leave, TypeOK, EntryType
  <2>3. CASE Fail(e) /\ UNCHANGED open
    BY <2>3 DEF Fail, TypeOK, EntryType
  <2>4. ASSUME NEW x \in Entry, EntryStep(x)
        PROVE  at'[e] = "lock" \/ ((Leave(e) \/ Fail(e)) /\ UNCHANGED open)
    <3>1. CASE x = e
      BY <2>4, <3>1, LimitRefuses
         DEF EntryStep, Refreshed, Reject, Priced, Ordered, OrderFails
    <3>2. CASE x # e
      BY <2>4, <3>2, LimitRefuses
         DEF EntryStep, Refreshed, Reject, Priced, Ordered, OrderFails, Place, Record,
             RecordFails, Leave, Fail, TypeOK, EntryType
    <3> QED BY <3>1, <3>2
  <2>5. ASSUME NEW x \in ScanTask, ScanStep(x)
        PROVE  at'[e] = "lock" \/ (Fail(e) /\ UNCHANGED open)
    <3>1. x \in Entry
      BY Identities
    <3>2. CASE x = e
      BY <2>5, <3>2 DEF ScanStep, Candidates, Pick, ScanCancelled, CancelSwallowed
    <3>3. CASE x # e
      BY <2>5, <3>1, <3>3
         DEF ScanStep, Candidates, Pick, ScanCancelled, CancelSwallowed, Fail, TypeOK, EntryType
    <3> QED BY <3>2, <3>3
  <2>6. ASSUME NEW k \in ExitKey, ExitStep(k) PROVE UNCHANGED at
    BY <2>6, SettleOpen
       DEF ExitStep, ExitPriced, ExitGivesUp, CloseOrdered, CloseOrderFails, Commit, CommitFails,
           entryVars
  <2>7. ASSUME NEW i \in Id, UserCloses(i) \/ PanicCloses(i) \/ TickCloses(i) \/ RoundCloses(i)
        PROVE  UNCHANGED at
    <3>1. PICK c \in Caller : CloseTrade(<<c, i>>)
      BY <2>7 DEF UserCloses, PanicCloses, TickCloses, RoundCloses, Caller
    <3> QED BY <3>1, SettleOpen DEF CloseTrade, entryVars
  <2>8. ASSUME NEW x \in Manual, NEW s \in Symbol, ManualEntry(x, s) PROVE at'[e] = "lock"
    BY <2>8 DEF ManualEntry, Entry, TypeOK, EntryType
  <2>9. CASE EndRound
    BY <2>1, <2>9 DEF EndRound, TypeOK, EntryType
  <2>10. CASE \/ \E i \in Id : RoundPasses(i) \/ RoundRefreshes(i) \/ RowCloses(i)
              \/ PanicAgain
              \/ \E s \in Symbol : Tick(s) \/ GoStale(s) \/ TickChecked(s) \/ UserRecords(s)
              \/ \E k \in ExitKey \cup {UserStop} : StopReturns(k)
              \/ BeginRound \/ EndLoop \/ Start \/ Stop
              \/ ApplyConfig \/ CacheExpires \/ NewDay \/ ClearHistory \/ UNCHANGED vars
    <3>1. UNCHANGED at
      BY <2>10 DEF RoundPasses, RoundRefreshes, RowCloses, PanicAgain, Tick, GoStale,
                   TickChecked, UserRecords, StopReturns, BeginRound, EndLoop, Start, Stop,
                   ApplyConfig, CacheExpires, NewDay, ClearHistory, vars, entryVars
    <3> QED BY <2>1, <3>1
  <2>11. ~Restart
    BY DEF Restart, EngineOnly
  <2> QED BY <2>1, <2>2, <2>3, <2>4, <2>5, <2>6, <2>7, <2>8, <2>9, <2>10, <2>11 DEF Next
<1>2. Init => LimitSeen
  <2> SUFFICES ASSUME Init PROVE LimitSeen
    OBVIOUS
  <2>1. DOMAIN row = {} /\ dailyCache = {}
    BY DEF Init
  <2> QED BY <2>1 DEF LimitSeen
<1> QED BY <1>1, <1>2, InitTypes, NextTypes, TableSafe, NextKeepsLimit, PTL
        DEF Spec, AdmissionWithinLimit

-----------------------------------------------------------------------------
(* The inductive invariant for scans: while the engine runs it refers to    *)
(* every scan that lives, and once it is off some stop() waits for each.    *)
ScanAccounted ==
    /\ running => DOMAIN stopping = {}
    /\ \A e \in ScanTask : at[e] # "idle" =>
          IF running THEN scanTask = e ELSE \E k \in DOMAIN stopping : stopping[k].scan = e

(* No scan begins and neither the switch nor a stop() is touched. *)
LEMMA ScansGoOn ==
    ASSUME ScanAccounted, UNCHANGED <<running, scanTask, stopping>>,
           \A e \in ScanTask : at'[e] # "idle" => at[e] # "idle"
    PROVE  ScanAccounted'
BY DEF ScanAccounted

(* stop() waits for the scan that lives. *)
LEMMA StopWaits ==
    ASSUME TypeOK, ScanAccounted, NEW k, k \notin DOMAIN stopping, NEW s, BeginStop(k, s),
           UNCHANGED at
    PROVE  ScanAccounted'
<1>1. running' = FALSE
  BY DEF BeginStop
<1>2. CASE ScanAlive
  <2> DEFINE r == [scan |-> scanTask, symbol |-> s]
  <2>1. stopping' = Put(stopping, k, r) /\ r.scan = scanTask
    BY <1>2 DEF BeginStop
  <2> HIDE DEF r
  <2>2. /\ DOMAIN stopping' = DOMAIN stopping \cup {k} /\ stopping'[k].scan = scanTask
        /\ \A x \in DOMAIN stopping : stopping'[x] = stopping[x]
    BY <2>1 DEF Put
  <2> QED BY <1>1, <2>2 DEF ScanAccounted
<1>3. CASE ~ScanAlive
  <2>1. UNCHANGED stopping
    BY <1>3 DEF BeginStop
  <2>2. running => \A e \in ScanTask : at[e] = "idle"
    BY <1>3 DEF ScanAlive, ScanAccounted
  <2> QED BY <1>1, <2>1, <2>2 DEF ScanAccounted
<1> QED BY <1>2, <1>3

(* An exit, which may halt the engine. *)
LEMMA SettleScans ==
    ASSUME TypeOK, ExitInv, ScanAccounted, NEW k \in ExitKey, Proceeds(k), NEW s,
           Commit(k, s) \/ CommitFails(k) \/ UNCHANGED <<at, running, scanTask, stopping>>
    PROVE  ScanAccounted'
<1>1. k \notin DOMAIN stopping
  BY ProceedsNotStopping
<1>2. CASE BeginStop(k, s) /\ UNCHANGED at
  BY <1>1, <1>2, StopWaits
<1>3. CASE UNCHANGED <<at, running, scanTask, stopping>>
  BY <1>3, ScansGoOn
<1> QED BY <1>2, <1>3 DEF Commit, CommitFails, entryVars

(* A stop() whose scan has ended returns. *)
LEMMA ReturnScans ==
    ASSUME TypeOK, ScanAccounted, NEW k \in ExitKey \cup {UserStop}, StopReturns(k)
    PROVE  ScanAccounted'
<1>1. /\ k \in DOMAIN stopping /\ at[stopping[k].scan] = "idle"
      /\ DOMAIN stopping' = DOMAIN stopping \ {k}
      /\ \A x \in DOMAIN stopping' : stopping'[x] = stopping[x]
      /\ UNCHANGED <<running, at>>
  BY DEF StopReturns, Drop, entryVars
<1>2. ~running
  BY <1>1 DEF ScanAccounted
<1> QED BY <1>1, <1>2 DEF ScanAccounted

(* A round begins a scan only when none lives. *)
LEMMA RoundScans ==
    ASSUME TypeOK, ScanAccounted, EndRound
    PROVE  ScanAccounted'
<1>1. CASE UNCHANGED <<at, scanTask>>
  BY <1>1, ScansGoOn DEF EndRound
<1>2. ASSUME NEW e \in ScanTask, running, ~ScanAlive,
             at' = [at EXCEPT ![e] = "source"], scanTask' = e
      PROVE  ScanAccounted'
  <2>1. \A x \in ScanTask : at[x] = "idle"
    BY <1>2 DEF ScanAlive, ScanAccounted
  <2>2. \A x \in ScanTask : at'[x] # "idle" => x = e
    BY <1>2, <2>1, Identities DEF TypeOK, EntryType
  <2>3. UNCHANGED <<running, stopping>>
    BY DEF EndRound
  <2> QED BY <1>2, <2>2, <2>3 DEF ScanAccounted
<1> QED BY <1>1, <1>2 DEF EndRound

(* start() waits for the stop() before it. *)
LEMMA StartScans ==
    ASSUME ~StartDuringStop, ScanAccounted, Start
    PROVE  ScanAccounted'
<1>1. DOMAIN stopping = {} /\ ~running /\ UNCHANGED <<at, stopping>>
  BY DEF Start, entryVars
<1> QED BY <1>1 DEF ScanAccounted

(* Entries and scans: none begins. *)
LEMMA EntryScans ==
    ASSUME TypeOK, ScanAccounted,
           \/ \E e \in Entry : EntryStep(e)
           \/ \E e \in ScanTask : ScanStep(e)
           \/ \E e \in Manual, s \in Symbol : ManualEntry(e, s)
    PROVE  ScanAccounted'
<1>1. UNCHANGED <<running, scanTask, stopping>>
  BY DEF EntryStep, Refreshed, Reject, Admit, Priced, Ordered, OrderFails, ScanStep, Candidates,
         Pick, ScanCancelled, CancelSwallowed, ManualEntry, loopVars
<1>2. ASSUME NEW e \in Entry, EntryStep(e) \/ (e \in ScanTask /\ ScanStep(e))
      PROVE  at[e] # "idle" /\ (at' = at \/ \E v : at' = [at EXCEPT ![e] = v])
  BY <1>2 DEF EntryStep, Refreshed, Reject, Admit, Priced, Ordered, OrderFails, Place, Record,
              RecordFails, Leave, Fail, ScanStep, Candidates, Pick, ScanCancelled,
              CancelSwallowed
<1>3. ASSUME NEW e \in Manual, NEW s \in Symbol, ManualEntry(e, s)
      PROVE  e \notin ScanTask /\ \E v : at' = [at EXCEPT ![e] = v]
  BY <1>3, SetAssumption DEF ManualEntry
<1>4. \A e \in ScanTask : at'[e] # "idle" => at[e] # "idle"
  BY <1>2, <1>3, Identities DEF TypeOK, EntryType
<1> QED BY <1>1, <1>4, ScansGoOn

(* The inductive step. *)
LEMMA NextKeepsScans ==
    ASSUME MaxPresses = 0, ~StartDuringStop
    PROVE  TypeOK /\ ExitInv /\ ScanAccounted /\ [Next]_vars => ScanAccounted'
<1> SUFFICES ASSUME TypeOK, ExitInv, ScanAccounted, [Next]_vars PROVE ScanAccounted'
  OBVIOUS
<1>1. ASSUME NEW k \in ExitKey, ExitStep(k) PROVE ScanAccounted'
  <2>1. Proceeds(k)
    BY <1>1 DEF ExitStep, ExitPriced, ExitGivesUp, CloseOrdered, CloseOrderFails, Proceeds
  <2>2. \E s : Commit(k, s) \/ CommitFails(k) \/ UNCHANGED <<at, running, scanTask, stopping>>
    BY <1>1 DEF ExitStep, ExitPriced, ExitGivesUp, CloseOrdered, CloseOrderFails, Settle, entryVars
  <2> QED BY <2>1, <2>2, SettleScans
<1>2. ASSUME NEW i \in Id, UserCloses(i) \/ PanicCloses(i) \/ TickCloses(i) \/ RoundCloses(i)
      PROVE  ScanAccounted'
  <2>1. PICK c \in Caller : CloseTrade(<<c, i>>)
    BY <1>2 DEF UserCloses, PanicCloses, TickCloses, RoundCloses, Caller
  <2> DEFINE k == <<c, i>>
  <2>2. k \in ExitKey /\ Proceeds(k)
    BY <2>1, Identities DEF CloseTrade, MayExit, Proceeds
  <2>3. \E s : Commit(k, s) \/ CommitFails(k) \/ UNCHANGED <<at, running, scanTask, stopping>>
    BY <2>1 DEF CloseTrade, Settle, entryVars
  <2> HIDE DEF k
  <2> QED BY <2>2, <2>3, SettleScans
<1>3. CASE Stop
  BY <1>3, StopWaits DEF Stop
<1>4. CASE \E k \in ExitKey \cup {UserStop} : StopReturns(k)
  BY <1>4, ReturnScans
<1>5. CASE PanicAgain
  <2>1. PICK k \in PanicExits : closeOrders[k[2]] < MaxPresses
    BY <1>5 DEF PanicAgain
  <2>2. k \in ExitKey
    <3>1. k # UserStop
      BY DEF PanicExits, UserStop
    <3> QED BY <3>1 DEF PanicExits, TypeOK, LoopType, ExitType
  <2> QED BY <2>1, <2>2, Identities DEF TypeOK, ExitType
<1>6. CASE \/ \E e \in Entry : EntryStep(e)
           \/ \E e \in ScanTask : ScanStep(e)
           \/ \E e \in Manual, s \in Symbol : ManualEntry(e, s)
  BY <1>6, EntryScans
<1>7. CASE \/ \E i \in Id : RoundPasses(i) \/ RoundRefreshes(i) \/ RowCloses(i)
           \/ \E s \in Symbol : Tick(s) \/ GoStale(s) \/ TickChecked(s) \/ UserRecords(s)
           \/ BeginRound \/ EndLoop
           \/ ApplyConfig \/ CacheExpires \/ NewDay \/ ClearHistory \/ UNCHANGED vars
  <2>1. UNCHANGED <<at, running, scanTask, stopping>>
    BY <1>7 DEF RoundPasses, RoundRefreshes, RowCloses, Tick, GoStale, TickChecked, UserRecords,
                BeginRound, EndLoop, ApplyConfig, CacheExpires, NewDay, ClearHistory, vars,
                entryVars, loopVars
  <2> QED BY <2>1, ScansGoOn
<1>8. CASE Restart
  <2>1. \A e \in ScanTask : at'[e] = "idle"
    BY <1>8, Identities DEF Restart
  <2>2. DOMAIN stopping' = {}
    BY <1>8 DEF Restart
  <2> QED BY <2>1, <2>2 DEF ScanAccounted
<1> QED BY <1>1, <1>2, <1>3, <1>4, <1>5, <1>6, <1>7, <1>8, RoundScans, StartScans DEF Next

(* Once stop() has returned, no scan is left that could open a trade, as    *)
(* long as start() is not called while a stop() waits and the emergency     *)
(* button is not pressed again.                                             *)
THEOREM StoppedWithoutScan ==
    ASSUME MaxPresses = 0, ~StartDuringStop
    PROVE  Spec => []StoppedMeansNoScan
<1>1. Init => ScanAccounted
  <2> SUFFICES ASSUME Init PROVE ScanAccounted
    OBVIOUS
  <2>1. DOMAIN stopping = {} /\ \A e \in ScanTask : at[e] = "idle"
    BY Identities DEF Init
  <2> QED BY <2>1 DEF ScanAccounted
<1>2. TypeOK /\ ExitInv /\ ScanAccounted /\ [Next]_vars => ScanAccounted'
  BY NextKeepsScans
<1>3. ScanAccounted => StoppedMeansNoScan
  <2>1. stopping = <<>> => DOMAIN stopping = {}
    OBVIOUS
  <2> QED BY <2>1 DEF ScanAccounted, StoppedMeansNoScan
<1> QED BY <1>1, <1>2, <1>3, InitTypes, NextTypes, InitKeepsExits, NextKeepsExits, PTL DEF Spec
=============================================================================
