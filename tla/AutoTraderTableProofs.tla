------------------------ MODULE AutoTraderTableProofs ------------------------
(***************************************************************************)
(* The trade table and the trades the engine manages, in every execution:  *)
(* they agree, no open row of the engine is without protection, no row is  *)
(* closed without its close order, no position is closed twice.            *)
(***************************************************************************)
EXTENDS AutoTraderExitProofs

(* The id of a new row is not in the table. *)
LEMMA NewId ==
    ASSUME DOMAIN row \subseteq Id
    PROVE  NextId \notin DOMAIN row
<1>1. CASE DOMAIN row = {}
  BY <1>1
<1>2. CASE DOMAIN row # {}
  <2> DEFINE m == CHOOSE i \in DOMAIN row : \A j \in DOMAIN row : j <= i
  <2>1. PICK i \in DOMAIN row : \A j \in DOMAIN row : j <= i
    BY <1>2, LargestId
  <2>2. m \in DOMAIN row /\ \A j \in DOMAIN row : j <= m
    BY <2>1
  <2>3. NextId = 1 + m
    BY <1>2 DEF NextId
  <2> HIDE DEF m
  <2>4. m \in Nat /\ \A j \in DOMAIN row : j \in Nat
    BY <2>2, NumberAssumption DEF Id
  <2> QED BY <2>2, <2>3, <2>4
<1> QED BY <1>1, <1>2

-----------------------------------------------------------------------------
(* What a step does to the table and to the managed trades.  An entry is    *)
(* recorded, after its guards or after it waited under the lock; ...        *)
Enters ==
    \E e \in Entry, live \in BOOLEAN :
        /\ Record(e, live)
        /\ target[e] \in Symbol
        /\ e \in Waiting \/ Admissible(target[e])
        /\ Waiting' = {}
        /\ UNCHANGED exit

(* ... an exit is written to the table, of a trade that is not live or of    *)
(* one whose close order the exchange has just accepted; ...                *)
Ends ==
    \E k \in ExitKey, live \in BOOLEAN, s \in Symbol :
        /\ \/ k \in DOMAIN exit /\ live = exit[k].live
           \/ k[2] \in DOMAIN open /\ live = open[k[2]].live
        /\ Commit(k, s)
        /\ \/ ~live /\ UNCHANGED closeOrders
           \/ closeOrders' = [closeOrders EXCEPT ![k[2]] = @ + 1]

(* ... or neither is written, although exits come and go.                   *)
Rests ==
    /\ UNCHANGED <<row, open>>
    /\ \A k \in DOMAIN exit' :
          \/ k \in DOMAIN exit /\ exit'[k].live = exit[k].live
          \/ k[2] \in DOMAIN open /\ exit'[k].live = open[k[2]].live
    /\ \A i \in Id : closeOrders'[i] >= closeOrders[i]

(* No entry starts to wait, or one does whose guards have just passed. *)
WaitsOn == Waiting' \subseteq Waiting /\ \A e \in Waiting' : target'[e] = target[e]
WaitsNow ==
    \E e \in Entry : /\ Admissible(target[e]) /\ Waiting' = {e} /\ target'[e] = target[e]
                     /\ UNCHANGED <<row, open>>

TableStep ==
    \/ Enters
    \/ Rests /\ (WaitsOn \/ WaitsNow)
    \/ WaitsOn /\ \/ Ends
                  \/ \E s \in Symbol : UserRecords(s)
                  \/ \E i \in Id : RowCloses(i)
                  \/ ClearHistory
                  \/ Restart

(* Nothing of the above is touched. *)
LEMMA RestsStep ==
    ASSUME TypeOK, UNCHANGED <<row, open, exit, closeOrders>>, WaitsOn \/ WaitsNow
    PROVE  TableStep
BY DEF TypeOK, ExitType, Rests, TableStep

(* An entry is given up. *)
LEMMA GivesUp ==
    ASSUME TypeOK, NEW e \in Entry, Leave(e) \/ Fail(e)
    PROVE  WaitsOn
<1>1. /\ at' = [at EXCEPT ![e] = at'[e]]
      /\ at'[e] \in {"pick", "idle"}
      /\ \A x \in Entry : x # e => target'[x] = target[x]
  BY DEF Leave, Fail, TypeOK, EntryType
<1> QED BY <1>1 DEF WaitsOn, Waiting, TypeOK, EntryType

(* An entry is recorded, or fails to be. *)
LEMMA RecordTable ==
    ASSUME TypeOK, LockHeld, NEW e \in Entry, target[e] \in Symbol,
           e \in Waiting \/ (LockFree /\ Admissible(target[e])),
           NEW live \in BOOLEAN, Record(e, live) \/ RecordFails(e, live), UNCHANGED exit
    PROVE  TableStep
<1>1. CASE Record(e, live)
  <2>1. Waiting \subseteq {e}
    BY FreeLockMeansNoClaim DEF LockHeld
  <2>2. at' = [at EXCEPT ![e] = at'[e]] /\ at'[e] \in {"pick", "idle"}
    BY <1>1 DEF Record, Leave, TypeOK, EntryType
  <2>3. Waiting' = {}
    BY <2>1, <2>2 DEF Waiting, TypeOK, EntryType
  <2>4. Enters
    BY <1>1, <2>3 DEF Enters
  <2> QED BY <2>4 DEF TableStep
<1>2. CASE RecordFails(e, live)
  BY <1>2, GivesUp, RestsStep DEF RecordFails
<1> QED BY <1>1, <1>2

(* An entry starts to wait, or goes on. *)
LEMMA WaitTable ==
    ASSUME TypeOK, LockHeld, NEW e \in Entry,
           e \in Waiting \/ (LockFree /\ Admissible(target[e])),
           at' = [at EXCEPT ![e] = "price"] \/ at' = [at EXCEPT ![e] = "order"],
           UNCHANGED <<target, row, open, exit, closeOrders>>
    PROVE  TableStep
<1>1. Waiting' = Waiting \cup {e}
  BY DEF Waiting, TypeOK, EntryType
<1>2. CASE e \in Waiting
  <2>1. WaitsOn
    BY <1>1, <1>2 DEF WaitsOn
  <2> QED BY <2>1, RestsStep
<1>3. CASE LockFree /\ Admissible(target[e])
  <2>1. Waiting' = {e}
    BY <1>1, <1>3, FreeLockMeansNoClaim
  <2>2. WaitsNow
    BY <1>3, <2>1 DEF WaitsNow
  <2> QED BY <2>2, RestsStep
<1> QED BY <1>2, <1>3

(* An entry from its price on. *)
LEMMA PlaceTable ==
    ASSUME TypeOK, LockHeld, NEW e \in Entry, target[e] \in Symbol,
           e \in Waiting \/ (LockFree /\ Admissible(target[e])),
           NEW mode, Place(e, mode), UNCHANGED exit
    PROVE  TableStep
<1>1. CASE mode = "paper"
  BY <1>1, RecordTable DEF Place
<1>2. CASE mode # "paper"
  BY <1>2, WaitTable DEF Place
<1> QED BY <1>1, <1>2

(* A step of an entry. *)
LEMMA EntryTable ==
    ASSUME TypeOK, LockHeld, NEW e \in Entry, EntryStep(e)
    PROVE  TableStep
<1>1. CASE Refreshed(e)
  <2>1. CASE Leave(e)
    BY <1>1, <2>1, GivesUp, RestsStep DEF Refreshed, exitVars
  <2>2. CASE at' = [at EXCEPT ![e] = "lock"] /\ UNCHANGED target
    <3>1. WaitsOn
      BY <1>1, <2>2 DEF WaitsOn, Waiting, TypeOK, EntryType
    <3> QED BY <1>1, <3>1, RestsStep DEF Refreshed, exitVars
  <2> QED BY <1>1, <2>1, <2>2 DEF Refreshed
<1>2. CASE Reject(e)
  BY <1>2, GivesUp, RestsStep DEF Reject, exitVars
<1>3. CASE Admit(e)
  <2>1. target[e] \in Symbol /\ LockFree /\ Admissible(target[e]) /\ UNCHANGED exit
    BY <1>3 DEF Admit, TypeOK, EntryType
  <2>2. CASE TickFeed
    BY <1>3, <2>1, <2>2, PlaceTable DEF Admit
  <2>3. CASE ~TickFeed
    BY <1>3, <2>1, <2>3, WaitTable DEF Admit
  <2> QED BY <2>2, <2>3
<1>4. CASE Priced(e)
  <2>1. target[e] \in Symbol /\ e \in Waiting /\ UNCHANGED exit
    BY <1>4 DEF Priced, Waiting, TypeOK, EntryType
  <2>2. CASE \E mode \in Modes : Place(e, mode)
    BY <2>1, <2>2, PlaceTable
  <2>3. CASE (Leave(e) \/ Fail(e)) /\ UNCHANGED <<row, open, closeOrders>>
    BY <2>1, <2>3, GivesUp, RestsStep
  <2> QED BY <1>4, <2>2, <2>3 DEF Priced
<1>5. CASE Ordered(e)
  <2>1. target[e] \in Symbol /\ e \in Waiting /\ UNCHANGED exit
    BY <1>5 DEF Ordered, Waiting, TypeOK, EntryType
  <2> QED BY <1>5, <2>1, RecordTable DEF Ordered
<1>6. CASE OrderFails(e)
  BY <1>6, GivesUp, RestsStep DEF OrderFails, exitVars
<1> QED BY <1>1, <1>2, <1>3, <1>4, <1>5, <1>6 DEF EntryStep

(* An exit from its price on. *)
LEMMA SettleTable ==
    ASSUME TypeOK, NEW k \in ExitKey, NEW t, t.symbol \in Symbol, t.live \in BOOLEAN,
           \/ k \in DOMAIN exit /\ t = exit[k]
           \/ k[2] \in DOMAIN open /\ t = open[k[2]],
           Settle(k, t), UNCHANGED closeOrders
    PROVE  TableStep
<1>0. WaitsOn
  BY SettleOpen DEF WaitsOn, Waiting
<1>1. CASE t.live
  <2>1. /\ DOMAIN exit' = DOMAIN exit \cup {k} /\ exit'[k].live = TRUE
        /\ \A x \in DOMAIN exit : x # k => exit'[x] = exit[x]
        /\ UNCHANGED <<row, open>>
    BY <1>1 DEF Settle, Put
  <2>2. \A i \in Id : closeOrders'[i] >= closeOrders[i]
    BY DEF TypeOK, ExitType
  <2>3. t.live = TRUE
    BY <1>1
  <2>4. Rests
    BY <2>1, <2>2, <2>3 DEF Rests
  <2> QED BY <1>0, <2>4 DEF TableStep
<1>2. CASE ~t.live /\ Commit(k, t.symbol)
  <2>1. Ends
    BY <1>2 DEF Ends
  <2> QED BY <1>0, <2>1 DEF TableStep
<1>3. CASE ~t.live /\ CommitFails(k)
  <2>1. DOMAIN exit' = DOMAIN exit \ {k} /\ \A x \in DOMAIN exit' : exit'[x] = exit[x]
    BY <1>3 DEF CommitFails, Drop
  <2>2. Rests
    BY <1>3, <2>1 DEF CommitFails, Rests, TypeOK, ExitType
  <2> QED BY <1>0, <2>2 DEF TableStep
<1> QED BY <1>1, <1>2, <1>3 DEF Settle

(* close_trade up to its first suspension. *)
LEMMA CloseTradeTable ==
    ASSUME TypeOK, NEW k \in ExitKey, CloseTrade(k), UNCHANGED closeOrders
    PROVE  TableStep
<1> DEFINE i == k[2]
<1>1. i \in DOMAIN open /\ open[i].symbol \in Symbol /\ open[i].live \in BOOLEAN
  BY DEF CloseTrade, MayExit, TypeOK, BookType, Position
<1>2. CASE Settle(k, open[i])
  BY <1>1, <1>2, SettleTable
<1>3. CASE ~Settle(k, open[i])
  <2>1. /\ DOMAIN exit' = DOMAIN exit \cup {k} /\ exit'[k].live = open[i].live
        /\ \A x \in DOMAIN exit : x # k => exit'[x] = exit[x]
        /\ UNCHANGED <<row, open, at, target>>
    BY <1>3 DEF CloseTrade, Put, entryVars
  <2>2. Rests /\ WaitsOn
    BY <1>1, <2>1 DEF Rests, WaitsOn, Waiting, TypeOK, ExitType
  <2> QED BY <2>2 DEF TableStep
<1> QED BY <1>2, <1>3

(* A step of a suspended exit. *)
LEMMA ExitTable ==
    ASSUME TypeOK, NEW k \in ExitKey, ExitStep(k)
    PROVE  TableStep
<1>1. k \in DOMAIN exit /\ exit[k].symbol \in Symbol /\ exit[k].live \in BOOLEAN /\ k[2] \in Id
  BY Identities
     DEF ExitStep, ExitPriced, ExitGivesUp, CloseOrdered, CloseOrderFails, TypeOK, ExitType, Exit
<1>2. CASE ExitPriced(k)
  BY <1>1, <1>2, SettleTable DEF ExitPriced
<1>3. CASE CloseOrdered(k) /\ Commit(k, exit[k].symbol)
  <2>1. WaitsOn
    BY <1>3 DEF Commit, WaitsOn, Waiting
  <2>2. Ends
    BY <1>1, <1>3 DEF CloseOrdered, Ends
  <2> QED BY <2>1, <2>2 DEF TableStep
<1>4. CASE ExitGivesUp(k) \/ CloseOrderFails(k) \/ (CloseOrdered(k) /\ CommitFails(k))
  <2>1. /\ DOMAIN exit' = DOMAIN exit \ {k} /\ \A x \in DOMAIN exit' : exit'[x] = exit[x]
        /\ UNCHANGED <<row, open, at, target>>
    BY <1>4 DEF ExitGivesUp, CloseOrderFails, CommitFails, Drop, entryVars
  <2>2. closeOrders' = closeOrders \/ closeOrders' = [closeOrders EXCEPT ![k[2]] = @ + 1]
    BY <1>4 DEF ExitGivesUp, CloseOrderFails, CloseOrdered
  <2>3. \A i \in Id : closeOrders'[i] >= closeOrders[i]
    BY <1>1, <2>2 DEF TypeOK, ExitType
  <2>4. Rests /\ WaitsOn
    BY <2>1, <2>3 DEF Rests, WaitsOn, Waiting
  <2> QED BY <2>4 DEF TableStep
<1> QED BY <1>2, <1>3, <1>4 DEF ExitStep, CloseOrdered

(* The emergency button pressed again. *)
LEMMA PanicTable ==
    ASSUME TypeOK, PanicAgain
    PROVE  TableStep
<1>1. PICK k \in PanicExits :
         /\ exit' = Drop(exit, k)
         /\ \/ UNCHANGED closeOrders
            \/ closeOrders' = [closeOrders EXCEPT ![k[2]] = @ + 1]
         /\ UNCHANGED <<row, open, at, target>>
  BY DEF PanicAgain
<1>2. \A x \in DOMAIN exit' : x \in DOMAIN exit /\ exit'[x] = exit[x]
  BY <1>1 DEF Drop
<1>3. \A i \in Id : closeOrders'[i] >= closeOrders[i]
  BY <1>1 DEF TypeOK, ExitType
<1>4. Rests /\ WaitsOn
  BY <1>1, <1>2, <1>3 DEF Rests, WaitsOn, Waiting
<1> QED BY <1>4 DEF TableStep

(* A step of a scan. *)
LEMMA ScanTable ==
    ASSUME TypeOK, NEW e \in ScanTask, ScanStep(e)
    PROVE  TableStep
<1>0. e \in Entry /\ UNCHANGED <<row, open, exit, closeOrders>>
  BY Identities DEF ScanStep, Candidates, Pick, ScanCancelled, CancelSwallowed, exitVars
<1>1. CASE Fail(e)
  BY <1>0, <1>1, GivesUp, RestsStep
<1>2. CASE ~Fail(e)
  <2>1. WaitsOn
    <3>1. CASE Candidates(e)
      BY <1>0, <1>2, <3>1 DEF Candidates, WaitsOn, Waiting, TypeOK, EntryType
    <3>2. CASE Pick(e)
      BY <1>0, <1>2, <3>2 DEF Pick, Knock, WaitsOn, Waiting, TypeOK, EntryType
    <3>3. CASE CancelSwallowed(e)
      BY <1>0, <3>3 DEF CancelSwallowed, WaitsOn, Waiting, TypeOK, EntryType
    <3> QED BY <1>2, <3>1, <3>2, <3>3 DEF ScanStep, ScanCancelled
  <2> QED BY <1>0, <2>1, RestsStep
<1> QED BY <1>1, <1>2

(* Every step is one of these. *)
LEMMA TableSteps == TypeOK /\ LockHeld /\ [Next]_vars => TableStep
<1> SUFFICES ASSUME TypeOK, LockHeld, [Next]_vars PROVE TableStep
  OBVIOUS
<1>1. ASSUME NEW e \in Entry, EntryStep(e) PROVE TableStep
  BY <1>1, EntryTable
<1>2. ASSUME NEW e \in ScanTask, ScanStep(e) PROVE TableStep
  BY <1>2, ScanTable
<1>3. ASSUME NEW k \in ExitKey, ExitStep(k) PROVE TableStep
  BY <1>3, ExitTable
<1>4. ASSUME NEW i \in Id, UserCloses(i) \/ PanicCloses(i) \/ TickCloses(i) \/ RoundCloses(i)
      PROVE  TableStep
  <2>1. PICK c \in Caller : CloseTrade(<<c, i>>) /\ UNCHANGED closeOrders
    BY <1>4 DEF UserCloses, PanicCloses, TickCloses, RoundCloses, Caller
  <2> QED BY <2>1, Identities, CloseTradeTable
<1>5. CASE PanicAgain
  BY <1>5, PanicTable
<1>6. ASSUME NEW e \in Manual, NEW s \in Symbol, ManualEntry(e, s) PROVE TableStep
  <2>1. e \in Entry
    BY DEF Entry
  <2>2. WaitsOn
    BY <1>6, <2>1 DEF ManualEntry, Knock, WaitsOn, Waiting, TypeOK, EntryType
  <2> QED BY <1>6, <2>2, RestsStep DEF ManualEntry, exitVars
<1>7. CASE EndRound
  <2>1. WaitsOn
    BY <1>7, Identities DEF EndRound, WaitsOn, Waiting, TypeOK, EntryType
  <2> QED BY <1>7, <2>1, RestsStep DEF EndRound, exitVars
<1>8. CASE \/ \E i \in Id : RoundPasses(i) \/ RoundRefreshes(i)
           \/ \E s \in Symbol : Tick(s) \/ GoStale(s) \/ TickChecked(s)
           \/ \E k \in ExitKey \cup {UserStop} : StopReturns(k)
           \/ BeginRound \/ EndLoop \/ Start \/ Stop
           \/ ApplyConfig \/ CacheExpires \/ NewDay
           \/ UNCHANGED vars
  <2>1. UNCHANGED <<row, open, exit, closeOrders, at, target>>
    BY <1>8 DEF RoundPasses, RoundRefreshes, Tick, GoStale, TickChecked, StopReturns,
                BeginRound, EndLoop, Start, Stop, ApplyConfig, CacheExpires, NewDay,
                vars, entryVars, exitVars
  <2>2. WaitsOn
    BY <2>1 DEF WaitsOn, Waiting
  <2> QED BY <2>1, <2>2, RestsStep
<1>9. CASE \/ \E s \in Symbol : UserRecords(s)
           \/ \E i \in Id : RowCloses(i)
           \/ ClearHistory \/ Restart
  <2>1. WaitsOn
    <3>1. CASE Restart
      BY <3>1 DEF Restart, WaitsOn, Waiting
    <3>2. CASE ~Restart
      BY <1>9, <3>2 DEF UserRecords, RowCloses, ClearHistory, entryVars, WaitsOn, Waiting
    <3> QED BY <3>1, <3>2
  <2> QED BY <1>9, <2>1 DEF TableStep
<1> QED BY <1>1, <1>2, <1>3, <1>4, <1>5, <1>6, <1>7, <1>8, <1>9 DEF Next

-----------------------------------------------------------------------------
(* An exit in flight is that of a row of the table, and of its kind. *)
ExitsKnown ==
    ~MayClear => \A k \in DOMAIN exit : /\ k[2] \in DOMAIN row
                                        /\ row[k[2]].live = exit[k].live

(* The inductive invariant.  ClosedMeansOrdered needs ExitsKnown: an exit    *)
(* knows from the trade it was started with, not from the table, whether    *)
(* it has to order at the exchange.                                         *)
TableInv == BookMatchesTable /\ RowsProtected /\ ExitsKnown /\ ClosedMeansOrdered

(* What is used of the invariant before a step. *)
LEMMA TableFacts ==
    ASSUME TypeOK, TableInv, ~MayClear
    PROVE  /\ DOMAIN open \subseteq OpenRows
           /\ \A i \in DOMAIN open :
                 row[i] = [symbol |-> open[i].symbol, live |-> open[i].live,
                           auto |-> TRUE, open |-> TRUE]
           /\ \A i \in DOMAIN open : row[i].live = open[i].live
           /\ \A k \in DOMAIN exit : k[2] \in DOMAIN row /\ row[k[2]].live = exit[k].live
           /\ ~MayRestart => \A i \in OpenRows : row[i].auto => i \in DOMAIN open
           /\ \A i \in DOMAIN row \ OpenRows : row[i].live => closeOrders[i] > 0
           /\ OpenRows \subseteq DOMAIN row
           /\ NextId \notin DOMAIN row /\ NextId \notin DOMAIN open
           /\ \A k \in DOMAIN exit : k[2] # NextId
<1>1. NextId \notin DOMAIN row
  BY NewId DEF TypeOK, BookType
<1>2. OpenRows \subseteq DOMAIN row
  BY DEF OpenRows
<1>3. DOMAIN open \subseteq OpenRows
  BY DEF TableInv, BookMatchesTable
<1>4. \A k \in DOMAIN exit : k[2] \in DOMAIN row /\ row[k[2]].live = exit[k].live
  BY DEF TableInv, ExitsKnown
<1>5. \A i \in DOMAIN row \ OpenRows : row[i].live => closeOrders[i] > 0
  BY DEF TableInv, ClosedMeansOrdered
<1>6. \A i \in DOMAIN open :
         /\ row[i] = [symbol |-> open[i].symbol, live |-> open[i].live,
                      auto |-> TRUE, open |-> TRUE]
         /\ row[i].live = open[i].live
  BY DEF TableInv, BookMatchesTable
<1> QED BY <1>1, <1>2, <1>3, <1>4, <1>5, <1>6 DEF TableInv, RowsProtected

(* A new row, of an entry or of the user. *)
LEMMA NewRowKeeps ==
    ASSUME TypeOK, TableInv, ~MayClear,
           NEW n, n = NextId,
           NEW r \in Row, r.open = TRUE, row' = Put(row, n, r),
           NEW t \in Position,
           \/ open' = open /\ ~r.auto
           \/ /\ open' = Put(open, n, t)
              /\ r = [symbol |-> t.symbol, live |-> t.live, auto |-> TRUE, open |-> TRUE],
           exit' = exit,
           \A i \in DOMAIN row : closeOrders'[i] = closeOrders[i]
    PROVE  TableInv'
<1>1. /\ DOMAIN row' = DOMAIN row \cup {n} /\ row'[n] = r
      /\ \A i \in DOMAIN row : row'[i] = row[i]
  BY TableFacts DEF Put
<1>2. OpenRows' = OpenRows \cup {n}
  BY <1>1, TableFacts DEF OpenRows
<1>3. CASE open' = open /\ ~r.auto
  <2>1. BookMatchesTable'
    BY <1>1, <1>2, <1>3, TableFacts DEF BookMatchesTable, OpenRows
  <2>2. RowsProtected'
    BY <1>1, <1>2, <1>3, TableFacts DEF RowsProtected, OpenRows
  <2>3. ExitsKnown' /\ ClosedMeansOrdered'
    <3>1. ExitsKnown'
      BY <1>1, TableFacts DEF ExitsKnown
    <3>2. ClosedMeansOrdered'
      BY <1>1, <1>2, TableFacts DEF ClosedMeansOrdered
    <3> QED BY <3>1, <3>2
  <2> QED BY <2>1, <2>2, <2>3 DEF TableInv
<1>4. CASE /\ open' = Put(open, n, t)
           /\ r = [symbol |-> t.symbol, live |-> t.live, auto |-> TRUE, open |-> TRUE]
  <2>0. /\ DOMAIN open' = DOMAIN open \cup {n} /\ open'[n] = t
        /\ \A i \in DOMAIN open : open'[i] = open[i]
    BY <1>4, TableFacts DEF Put
  <2>1. BookMatchesTable'
    <3>1. row'[n] = [symbol |-> open'[n].symbol, live |-> open'[n].live,
                    auto |-> TRUE, open |-> TRUE]
      BY <1>1, <1>4, <2>0
    <3>2. \A i \in DOMAIN open : row'[i] = [symbol |-> open'[i].symbol, live |-> open'[i].live,
                                           auto |-> TRUE, open |-> TRUE]
      BY <1>1, <2>0, TableFacts
    <3> QED BY <1>2, <2>0, <3>1, <3>2, TableFacts DEF BookMatchesTable
  <2>2. RowsProtected'
    BY <1>1, <1>2, <2>0, TableFacts DEF RowsProtected, OpenRows
  <2>3. ExitsKnown' /\ ClosedMeansOrdered'
    <3>1. ExitsKnown'
      BY <1>1, TableFacts DEF ExitsKnown
    <3>2. ClosedMeansOrdered'
      BY <1>1, <1>2, TableFacts DEF ClosedMeansOrdered
    <3> QED BY <3>1, <3>2
  <2> QED BY <2>1, <2>2, <2>3 DEF TableInv
<1> QED BY <1>3, <1>4

(* An entry is recorded. *)
LEMMA EntersKeeps ==
    ASSUME TypeOK, TableInv, ~MayClear, Enters
    PROVE  TableInv'
<1>1. PICK e \in Entry, live \in BOOLEAN :
         Record(e, live) /\ target[e] \in Symbol /\ UNCHANGED exit
  BY DEF Enters
<1> DEFINE r == [symbol |-> target[e], live |-> live, auto |-> TRUE, open |-> TRUE]
           t == [symbol |-> target[e], live |-> live]
<1>2. /\ row' = Put(row, NextId, r) /\ open' = Put(open, NextId, t)
      /\ closeOrders' = [closeOrders EXCEPT ![NextId] = 0]
  BY <1>1 DEF Record
<1>3. r \in Row /\ r.open = TRUE /\ t \in Position
      /\ r = [symbol |-> t.symbol, live |-> t.live, auto |-> TRUE, open |-> TRUE]
  BY <1>1 DEF Row, Position
<1>4. \A i \in DOMAIN row : closeOrders'[i] = closeOrders[i]
  BY <1>2, TableFacts DEF TypeOK, ExitType, BookType
<1> HIDE DEF r, t
<1> QED BY <1>1, <1>2, <1>3, <1>4, NewRowKeeps

(* The user records a trade of his own. *)
LEMMA UserRecordsKeeps ==
    ASSUME TypeOK, TableInv, ~MayClear, NEW s \in Symbol, UserRecords(s)
    PROVE  TableInv'
<1> DEFINE r == [symbol |-> s, live |-> FALSE, auto |-> FALSE, open |-> TRUE]
<1>1. row' = Put(row, NextId, r) /\ UNCHANGED <<open, exit, closeOrders>>
  BY DEF UserRecords, exitVars
<1>2. r \in Row /\ r.open = TRUE /\ ~r.auto
  BY DEF Row
<1>3. [symbol |-> s, live |-> FALSE] \in Position
  BY DEF Position
<1> HIDE DEF r
<1> QED BY <1>1, <1>2, <1>3, NewRowKeeps

(* A row is closed, in the table alone or together with its trade. *)
LEMMA ClosedRowKeeps ==
    ASSUME TypeOK, TableInv, ~MayClear,
           NEW i \in Id, row' = IF i \in OpenRows THEN [row EXCEPT ![i].open = FALSE] ELSE row,
           open' = Drop(open, i),
           \A k \in DOMAIN exit' : k \in DOMAIN exit /\ exit'[k] = exit[k],
           \A j \in DOMAIN row : closeOrders'[j] >= closeOrders[j] /\ closeOrders[j] \in Nat
                                 /\ closeOrders'[j] \in Nat,
           i \in OpenRows => ~row[i].live \/ closeOrders'[i] > 0
    PROVE  TableInv'
<1>1. /\ DOMAIN row' = DOMAIN row
      /\ \A j \in DOMAIN row : j # i => row'[j] = row[j]
      /\ \A j \in DOMAIN row : row'[j].live = row[j].live
      /\ i \notin OpenRows => row' = row
      /\ i \in OpenRows => row'[i].open = FALSE
  BY DEF TypeOK, BookType, Row, OpenRows
<1>2. DOMAIN open' = DOMAIN open \ {i} /\ \A j \in DOMAIN open' : open'[j] = open[j]
  BY DEF Drop
<1>3. OpenRows' = OpenRows \ {i}
  BY <1>1 DEF OpenRows
<1>4. BookMatchesTable'
  BY <1>1, <1>2, <1>3, TableFacts DEF BookMatchesTable, OpenRows
<1>5. RowsProtected'
  BY <1>1, <1>2, <1>3, TableFacts DEF RowsProtected, OpenRows
<1>6. ExitsKnown'
  BY <1>1, TableFacts DEF ExitsKnown
<1>7. ClosedMeansOrdered'
  <2> SUFFICES ASSUME NEW j \in DOMAIN row, j \notin OpenRows', row'[j].live
               PROVE  closeOrders'[j] > 0
    BY <1>1 DEF ClosedMeansOrdered
  <2>1. CASE j = i /\ i \in OpenRows
    BY <1>1, <2>1
  <2>2. CASE j # i \/ i \notin OpenRows
    <3>1. j \notin OpenRows /\ row[j].live
      BY <1>1, <1>3, <2>2
    <3>2. closeOrders[j] > 0
      BY <3>1, TableFacts
    <3> QED BY <3>2
  <2> QED BY <2>1, <2>2
<1> QED BY <1>4, <1>5, <1>6, <1>7 DEF TableInv

(* An exit is written to the table. *)
LEMMA EndsKeeps ==
    ASSUME TypeOK, TableInv, ~MayClear, Ends
    PROVE  TableInv'
<1>1. PICK k \in ExitKey, live \in BOOLEAN, s \in Symbol :
        /\ \/ k \in DOMAIN exit /\ live = exit[k].live
           \/ k[2] \in DOMAIN open /\ live = open[k[2]].live
        /\ Commit(k, s)
        /\ \/ ~live /\ UNCHANGED closeOrders
           \/ closeOrders' = [closeOrders EXCEPT ![k[2]] = @ + 1]
  BY DEF Ends
<1> DEFINE i == k[2]
<1>2. /\ row' = IF i \in OpenRows THEN [row EXCEPT ![i].open = FALSE] ELSE row
      /\ open' = Drop(open, i) /\ exit' = Drop(exit, k)
  BY <1>1 DEF Commit
<1>3. i \in Id /\ \A x \in DOMAIN exit' : x \in DOMAIN exit /\ exit'[x] = exit[x]
  BY <1>2, Identities DEF Drop
<1>4. row[i].live = live
  <2>1. CASE k \in DOMAIN exit /\ live = exit[k].live
    BY <2>1, TableFacts
  <2>2. CASE i \in DOMAIN open /\ live = open[i].live
    <3> HIDE DEF i
    <3> QED BY <2>2, TableFacts
  <2> QED BY <1>1, <2>1, <2>2
<1> HIDE DEF i
<1>5. \A j \in DOMAIN row : closeOrders'[j] >= closeOrders[j] /\ closeOrders[j] \in Nat
                            /\ closeOrders'[j] \in Nat
  BY <1>1 DEF i, TypeOK, ExitType, BookType
<1>6. ~row[i].live \/ closeOrders'[i] > 0
  BY <1>1, <1>3, <1>4 DEF i, TypeOK, ExitType
<1> QED BY <1>2, <1>3, <1>5, <1>6, ClosedRowKeeps

(* A row that the engine does not manage is closed. *)
LEMMA RowClosesKeeps ==
    ASSUME TypeOK, TableInv, ~MayClear, NEW i \in Id, RowCloses(i)
    PROVE  TableInv'
<1>1. /\ i \in OpenRows \ DOMAIN open /\ ~row[i].live
      /\ row' = [row EXCEPT ![i].open = FALSE]
      /\ UNCHANGED <<open, exit, closeOrders>>
  BY DEF RowCloses, exitVars
<1>2. DOMAIN open' = DOMAIN open \ {i}
  BY <1>1
<1>3. /\ DOMAIN row' = DOMAIN row
      /\ \A j \in DOMAIN row : j # i => row'[j] = row[j]
      /\ \A j \in DOMAIN row : row'[j].live = row[j].live
      /\ row'[i].open = FALSE
  BY <1>1 DEF TypeOK, BookType, Row, OpenRows
<1>4. OpenRows' = OpenRows \ {i}
  BY <1>3 DEF OpenRows
<1>5. BookMatchesTable'
  BY <1>1, <1>3, <1>4, TableFacts DEF BookMatchesTable, OpenRows
<1>6. RowsProtected'
  BY <1>1, <1>3, <1>4, TableFacts DEF RowsProtected, OpenRows
<1>7. ExitsKnown'
  BY <1>1, <1>3, TableFacts DEF ExitsKnown
<1>8. ClosedMeansOrdered'
  BY <1>1, <1>3, <1>4 DEF TableInv, ClosedMeansOrdered
<1> QED BY <1>5, <1>6, <1>7, <1>8 DEF TableInv

(* Exits come and go. *)
LEMMA RestsKeeps ==
    ASSUME TypeOK, TypeOK', TableInv, ~MayClear, Rests
    PROVE  TableInv'
<1>1. BookMatchesTable' /\ RowsProtected'
  BY DEF Rests, TableInv, BookMatchesTable, RowsProtected, OpenRows
<1>2. ExitsKnown'
  BY TableFacts DEF Rests, ExitsKnown
<1>3. ClosedMeansOrdered'
  <2> SUFFICES ASSUME NEW i \in DOMAIN row, i \notin OpenRows, row[i].live
               PROVE  closeOrders'[i] > 0
    BY DEF Rests, ClosedMeansOrdered, OpenRows
  <2>1. i \in Id /\ closeOrders[i] > 0
    BY DEF TableInv, ClosedMeansOrdered, TypeOK, BookType
  <2> QED BY <2>1 DEF Rests, TypeOK, ExitType
<1> QED BY <1>1, <1>2, <1>3 DEF TableInv

(* The process dies: what was managed or being closed is forgotten. *)
LEMMA RestartKeeps ==
    ASSUME TypeOK, TableInv, ~MayClear, Restart
    PROVE  TableInv'
<1>1. MayRestart /\ DOMAIN open' = {} /\ DOMAIN exit' = {} /\ UNCHANGED <<row, closeOrders>>
  BY DEF Restart
<1> QED BY <1>1 DEF TableInv, BookMatchesTable, RowsProtected, ExitsKnown, ClosedMeansOrdered,
                    OpenRows

(* The inductive step. *)
LEMMA NextKeepsTable == TypeOK /\ LockHeld /\ TableInv /\ [Next]_vars => TableInv'
<1> SUFFICES ASSUME TypeOK, LockHeld, TableInv, [Next]_vars PROVE TableInv'
  OBVIOUS
<1>1. CASE MayClear
  BY <1>1 DEF TableInv, BookMatchesTable, RowsProtected, ExitsKnown, ClosedMeansOrdered
<1>2. CASE ~MayClear
  <2>1. TableStep /\ TypeOK'
    BY TableSteps, NextTypes
  <2>2. CASE ClearHistory
    BY <1>2, <2>2 DEF ClearHistory
  <2> QED BY <1>2, <2>1, <2>2, EntersKeeps, EndsKeeps, RestsKeeps, UserRecordsKeeps,
             RowClosesKeeps, RestartKeeps DEF TableStep
<1> QED BY <1>1, <1>2

(* Initially the table is empty. *)
LEMMA InitKeepsTable == Init => TableInv
<1> SUFFICES ASSUME Init PROVE TableInv
  OBVIOUS
<1>1. DOMAIN open = {} /\ DOMAIN exit = {} /\ DOMAIN row = {}
  BY DEF Init
<1> QED BY <1>1 DEF TableInv, BookMatchesTable, RowsProtected, ExitsKnown, ClosedMeansOrdered,
                    OpenRows

(* The invariant in every execution. *)
LEMMA TableSafe == Spec => []TableInv
<1>1. Init => LockHeld
  BY InitKeepsLedger
<1>2. TypeOK /\ LockHeld /\ [Next]_vars => LockHeld'
  BY NextKeepsLedger DEF LedgerKept
<1> QED BY <1>1, <1>2, InitTypes, NextTypes, InitKeepsTable, NextKeepsTable, PTL DEF Spec

(* What the engine manages is, under the same id, what the table says is    *)
(* open: an id is never given to a second trade while the first lives.      *)
THEOREM BookAgrees == Spec => []BookMatchesTable
<1>1. TableInv => BookMatchesTable
  BY DEF TableInv
<1> QED BY <1>1, TableSafe, PTL

(* No open row of the engine is without protection while the process lives, *)
(* whatever writes and orders failed.                                       *)
THEOREM RowsStayProtected == Spec => []RowsProtected
<1>1. TableInv => RowsProtected
  BY DEF TableInv
<1> QED BY <1>1, TableSafe, PTL

(* No live row is recorded as closed before the exchange accepted a close   *)
(* order for it.                                                            *)
THEOREM ClosesOrdered == Spec => []ClosedMeansOrdered
<1>1. TableInv => ClosedMeansOrdered
  BY DEF TableInv
<1> QED BY <1>1, TableSafe, PTL

-----------------------------------------------------------------------------
(* An entry that waits has found no row of the engine for its symbol, and   *)
(* none is written while it waits under the lock.                           *)
WaitersApart ==
    \A e \in Waiting, i \in OpenRows : row[i].auto => row[i].symbol # target[e]

(* The inductive invariant for the rows of one symbol. *)
RowsApart == OneAutoRowPerSymbol /\ WaitersApart

(* No row of the engine is added and no entry starts to wait. *)
LEMMA FewerRowsKeep ==
    ASSUME RowsApart, WaitsOn,
           \A i \in OpenRows' : row'[i].auto => /\ i \in OpenRows /\ row[i].auto
                                                /\ row'[i].symbol = row[i].symbol
    PROVE  RowsApart'
<1>1. OneAutoRowPerSymbol'
  BY DEF RowsApart, OneAutoRowPerSymbol
<1>2. WaitersApart'
  BY DEF RowsApart, WaitersApart, WaitsOn
<1> QED BY <1>1, <1>2 DEF RowsApart

(* An entry is recorded. *)
LEMMA EntersApart ==
    ASSUME TypeOK, RowsApart, Enters
    PROVE  RowsApart'
<1>1. PICK e \in Entry, live \in BOOLEAN :
         /\ Record(e, live) /\ (e \in Waiting \/ Admissible(target[e])) /\ Waiting' = {}
  BY DEF Enters
<1> DEFINE n == NextId
           r == [symbol |-> target[e], live |-> live, auto |-> TRUE, open |-> TRUE]
<1>2. row' = Put(row, n, r)
  BY <1>1 DEF Record
<1>3. r.symbol = target[e] /\ r.open = TRUE
  OBVIOUS
<1> HIDE DEF n, r
<1>4. /\ DOMAIN row' = DOMAIN row \cup {n} /\ row'[n] = r
      /\ \A i \in DOMAIN row : i # n => row'[i] = row[i]
  BY <1>2 DEF Put
<1>5. OpenRows' = OpenRows \cup {n} /\ \A i \in OpenRows : i # n => row'[i] = row[i]
  BY <1>3, <1>4 DEF OpenRows
<1>6. \A i \in OpenRows : row[i].auto => row[i].symbol # target[e]
  BY <1>1 DEF Admissible, Taken, HasRow, RowsApart, WaitersApart
<1>7. OneAutoRowPerSymbol'
  BY <1>3, <1>4, <1>5, <1>6 DEF RowsApart, OneAutoRowPerSymbol
<1>8. WaitersApart'
  BY <1>1 DEF WaitersApart
<1> QED BY <1>7, <1>8 DEF RowsApart

(* The inductive step. *)
LEMMA NextKeepsRowsApart == TypeOK /\ LockHeld /\ RowsApart /\ [Next]_vars => RowsApart'
<1> SUFFICES ASSUME TypeOK, LockHeld, RowsApart, [Next]_vars PROVE RowsApart'
  OBVIOUS
<1>1. TableStep
  BY TableSteps
<1>2. CASE Enters
  BY <1>2, EntersApart
<1>3. CASE Rests /\ WaitsOn
  BY <1>3, FewerRowsKeep DEF Rests, OpenRows
<1>4. CASE Rests /\ WaitsNow
  <2>1. PICK e \in Entry : /\ Admissible(target[e]) /\ Waiting' = {e} /\ target'[e] = target[e]
                           /\ UNCHANGED row
    BY <1>4 DEF WaitsNow
  <2>2. OpenRows' = OpenRows
    BY <2>1 DEF OpenRows
  <2>3. WaitersApart'
    BY <2>1, <2>2 DEF WaitersApart, Admissible, Taken, HasRow
  <2> QED BY <2>1, <2>2, <2>3 DEF RowsApart, OneAutoRowPerSymbol
<1>5. CASE WaitsOn /\ Ends
  <2>1. PICK k \in ExitKey, s \in Symbol : Commit(k, s)
    BY <1>5 DEF Ends
  <2>2. row' = IF k[2] \in OpenRows THEN [row EXCEPT ![k[2]].open = FALSE] ELSE row
    BY <2>1 DEF Commit
  <2>3. \A i \in OpenRows' : i \in OpenRows /\ row'[i].auto = row[i].auto
                             /\ row'[i].symbol = row[i].symbol
    BY <2>2 DEF OpenRows, TypeOK, BookType, Row
  <2> QED BY <1>5, <2>3, FewerRowsKeep
<1>6. ASSUME WaitsOn, NEW i \in Id, RowCloses(i) PROVE RowsApart'
  <2>1. row' = [row EXCEPT ![i].open = FALSE]
    BY <1>6 DEF RowCloses
  <2>2. \A j \in OpenRows' : j \in OpenRows /\ row'[j].auto = row[j].auto
                             /\ row'[j].symbol = row[j].symbol
    BY <2>1 DEF OpenRows, TypeOK, BookType, Row
  <2> QED BY <1>6, <2>2, FewerRowsKeep
<1>7. ASSUME WaitsOn, NEW s \in Symbol, UserRecords(s) PROVE RowsApart'
  <2>1. /\ DOMAIN row' = DOMAIN row \cup {NextId} /\ row'[NextId].auto = FALSE
        /\ \A i \in DOMAIN row : i # NextId => row'[i] = row[i]
    BY <1>7 DEF UserRecords, Put
  <2>2. \A i \in OpenRows' : row'[i].auto => i \in OpenRows /\ row'[i] = row[i]
    BY <2>1 DEF OpenRows
  <2> QED BY <1>7, <2>2, FewerRowsKeep
<1>8. CASE WaitsOn /\ ClearHistory
  <2>1. DOMAIN row' = {}
    BY <1>8 DEF ClearHistory
  <2> QED BY <1>8, <2>1, FewerRowsKeep DEF OpenRows
<1>9. CASE WaitsOn /\ Restart
  BY <1>9, FewerRowsKeep DEF Restart, OpenRows
<1> QED BY <1>1, <1>2, <1>3, <1>4, <1>5, <1>6, <1>7, <1>8, <1>9 DEF TableStep

(* The table never holds two open rows of one symbol that the engine wrote, *)
(* across restarts and cleared histories too.                               *)
THEOREM AutoRowsDistinct == Spec => []OneAutoRowPerSymbol
<1>1. Init => RowsApart
  <2> SUFFICES ASSUME Init PROVE RowsApart
    OBVIOUS
  <2>1. OpenRows = {}
    BY DEF Init, OpenRows
  <2> QED BY <2>1 DEF RowsApart, OneAutoRowPerSymbol, WaitersApart
<1>2. Init => LockHeld
  BY InitKeepsLedger
<1>3. TypeOK /\ LockHeld /\ [Next]_vars => LockHeld'
  BY NextKeepsLedger DEF LedgerKept
<1>4. RowsApart => OneAutoRowPerSymbol
  BY DEF RowsApart
<1> QED BY <1>1, <1>2, <1>3, <1>4, InitTypes, NextTypes, NextKeepsRowsApart, PTL DEF Spec

-----------------------------------------------------------------------------
(* A trade that is managed or being closed has had no more close orders     *)
(* than there were faults: every one of them failed it.                     *)
OrdersCounted ==
    /\ \A i \in DOMAIN open : closeOrders[i] <= faults
    /\ \A k \in DOMAIN exit : closeOrders[k[2]] <= faults
    /\ CloseOrdersExplained

(* No close order is added, and no trade comes under management. *)
LEMMA NoOrderKeeps ==
    ASSUME TypeOK, TypeOK', OrdersCounted, UNCHANGED closeOrders, faults' >= faults,
           DOMAIN open' \subseteq DOMAIN open,
           \A k \in DOMAIN exit' : k \in DOMAIN exit \/ k[2] \in DOMAIN open
    PROVE  OrdersCounted'
<1>1. \A i \in Id : closeOrders[i] \in Nat
  BY DEF TypeOK, ExitType
<1>2. faults \in Nat /\ faults' \in Nat
  BY NumberAssumption DEF TypeOK, OtherType
<1>3. \A i \in DOMAIN open : i \in Id
  BY DEF TypeOK, BookType
<1>4. \A k \in DOMAIN exit' : closeOrders[k[2]] <= faults
  BY DEF OrdersCounted
<1>5. \A k \in DOMAIN exit' : k[2] \in Id
  BY Identities DEF TypeOK, ExitType
<1> QED BY <1>1, <1>2, <1>3, <1>4, <1>5 DEF OrdersCounted, CloseOrdersExplained

(* A close order is added for an exit that ends; no other exit is of its    *)
(* trade.                                                                   *)
LEMMA OrderKeeps ==
    ASSUME TypeOK, TypeOK', ExitInv, OrdersCounted, NEW k \in DOMAIN exit,
           closeOrders' = [closeOrders EXCEPT ![k[2]] = @ + 1],
           DOMAIN exit' = DOMAIN exit \ {k},
           \/ DOMAIN open' = DOMAIN open \ {k[2]} /\ faults' = faults
           \/ DOMAIN open' = DOMAIN open /\ faults' = faults + 1
    PROVE  OrdersCounted'
<1> DEFINE j == k[2]
<1>1. j \in Id /\ \A x \in DOMAIN exit : x[2] \in Id
  BY Identities DEF TypeOK, ExitType
<1>2. \A x \in DOMAIN exit' : x[2] # j
  BY DEF ExitInv, InFlight
<1> HIDE DEF j
<1>3. /\ closeOrders'[j] = closeOrders[j] + 1
      /\ \A i \in Id : i # j => closeOrders'[i] = closeOrders[i]
      /\ \A i \in Id : closeOrders[i] \in Nat /\ closeOrders'[i] \in Nat
  BY <1>1 DEF j, TypeOK, ExitType
<1>4. faults \in Nat /\ faults' \in Nat /\ faults <= faults'
  BY NumberAssumption DEF TypeOK, OtherType
<1>5. closeOrders[j] <= faults
  BY DEF j, OrdersCounted
<1>6. \A i \in DOMAIN open' : closeOrders'[i] <= faults'
  <2>1. \A i \in DOMAIN open : i \in Id /\ closeOrders[i] <= faults
    BY DEF OrdersCounted, TypeOK, BookType
  <2>2. CASE DOMAIN open' = DOMAIN open \ {j} /\ faults' = faults
    BY <1>3, <2>1, <2>2
  <2>3. CASE DOMAIN open' = DOMAIN open /\ faults' = faults + 1
    BY <1>3, <1>4, <1>5, <2>1, <2>3
  <2> QED BY <2>2, <2>3 DEF j
<1>7. \A x \in DOMAIN exit' : closeOrders'[x[2]] <= faults'
  <2>1. \A x \in DOMAIN exit' : closeOrders[x[2]] <= faults
    BY DEF OrdersCounted
  <2> QED BY <1>1, <1>2, <1>3, <1>4, <2>1
<1>8. CloseOrdersExplained'
  <2>1. \A i \in Id : closeOrders[i] <= 1 + faults
    BY DEF OrdersCounted, CloseOrdersExplained
  <2> QED BY <1>3, <1>4, <1>5, <2>1 DEF CloseOrdersExplained
<1> QED BY <1>6, <1>7, <1>8 DEF OrdersCounted

(* An entry is recorded: its trade has had no close order. *)
LEMMA EntersOrders ==
    ASSUME TypeOK, TypeOK', OrdersCounted, NEW e \in Entry, NEW live, Record(e, live),
           UNCHANGED exit
    PROVE  OrdersCounted'
<1> DEFINE n == NextId
<1>1. /\ n \in Id /\ DOMAIN open' = DOMAIN open \cup {n}
      /\ closeOrders' = [closeOrders EXCEPT ![n] = 0] /\ UNCHANGED faults
  BY DEF Record, Put
<1> HIDE DEF n
<1>2. closeOrders'[n] = 0 /\ \A i \in Id : i # n => closeOrders'[i] = closeOrders[i]
  BY <1>1 DEF TypeOK, ExitType
<1>3. faults \in Nat
  BY NumberAssumption DEF TypeOK, OtherType
<1>4. \A k \in DOMAIN exit : k[2] \in Id
  BY Identities DEF TypeOK, ExitType
<1>5. \A i \in DOMAIN open : i \in Id
  BY DEF TypeOK, BookType
<1> QED BY <1>1, <1>2, <1>3, <1>4, <1>5 DEF OrdersCounted, CloseOrdersExplained

(* An exit from its price on: it writes, fails to, or waits for its order. *)
LEMMA SettleOrders ==
    ASSUME TypeOK, TypeOK', OrdersCounted, NEW k \in ExitKey,
           k \in DOMAIN exit \/ k[2] \in DOMAIN open,
           NEW t, Settle(k, t), UNCHANGED closeOrders
    PROVE  OrdersCounted'
<1>1. DOMAIN open' \subseteq DOMAIN open
  BY SettleOpen DEF Drop
<1>2. DOMAIN exit' \subseteq DOMAIN exit \cup {k}
  BY DEF Settle, Commit, CommitFails, Drop, Put
<1>3. faults' >= faults
  <2>1. faults' = faults \/ faults' = faults + 1
    BY DEF Settle, Commit, CommitFails
  <2> QED BY <2>1, NumberAssumption DEF TypeOK, OtherType
<1> QED BY <1>1, <1>2, <1>3, NoOrderKeeps

(* A step of a suspended exit. *)
LEMMA ExitOrders ==
    ASSUME TypeOK, TypeOK', ExitInv, OrdersCounted, NEW k \in ExitKey, ExitStep(k)
    PROVE  OrdersCounted'
<1>0. k \in DOMAIN exit
  BY DEF ExitStep, ExitPriced, ExitGivesUp, CloseOrdered, CloseOrderFails
<1>1. CASE ExitPriced(k)
  BY <1>0, <1>1, SettleOrders DEF ExitPriced
<1>2. CASE CloseOrdered(k)
  <2>1. /\ closeOrders' = [closeOrders EXCEPT ![k[2]] = @ + 1]
        /\ DOMAIN exit' = DOMAIN exit \ {k}
    BY <1>2 DEF CloseOrdered, Commit, CommitFails, Drop
  <2>2. \/ DOMAIN open' = DOMAIN open \ {k[2]} /\ faults' = faults
        \/ DOMAIN open' = DOMAIN open /\ faults' = faults + 1
    BY <1>2 DEF CloseOrdered, Commit, CommitFails, Drop
  <2> QED BY <1>0, <2>1, <2>2, OrderKeeps
<1>3. CASE ExitGivesUp(k) \/ CloseOrderFails(k)
  <2>1. DOMAIN exit' = DOMAIN exit \ {k} /\ UNCHANGED open
    BY <1>3 DEF ExitGivesUp, CloseOrderFails, Drop
  <2>2. CASE UNCHANGED <<closeOrders, faults>>
    <3>1. faults' >= faults
      BY <2>2, NumberAssumption DEF TypeOK, OtherType
    <3> QED BY <2>1, <2>2, <3>1, NoOrderKeeps
  <2>3. CASE faults' = faults + 1 /\ closeOrders' = [closeOrders EXCEPT ![k[2]] = @ + 1]
    BY <1>0, <2>1, <2>3, OrderKeeps
  <2> QED BY <1>3, <2>2, <2>3 DEF ExitGivesUp, CloseOrderFails
<1> QED BY <1>1, <1>2, <1>3 DEF ExitStep

(* A step of an entry. *)
LEMMA EntryOrders ==
    ASSUME TypeOK, TypeOK', OrdersCounted, NEW e \in Entry, EntryStep(e)
    PROVE  OrdersCounted'
<1>1. UNCHANGED exit
  BY DEF EntryStep, Refreshed, Reject, Admit, Priced, Ordered, OrderFails, exitVars
<1>2. CASE \E live \in BOOLEAN : Record(e, live)
  BY <1>1, <1>2, EntersOrders
<1>3. CASE ~\E live \in BOOLEAN : Record(e, live)
  <2>1. UNCHANGED <<open, closeOrders>> /\ (faults' = faults \/ faults' = faults + 1)
    BY <1>3 DEF EntryStep, Refreshed, Reject, Admit, Priced, Ordered, OrderFails, Place,
                RecordFails, exitVars
  <2>2. faults' >= faults
    BY <2>1, NumberAssumption DEF TypeOK, OtherType
  <2> QED BY <1>1, <2>1, <2>2, NoOrderKeeps
<1> QED BY <1>2, <1>3

(* The inductive step, as long as the button is not pressed again. *)
LEMMA NextKeepsOrders ==
    ASSUME MaxPresses = 0
    PROVE  TypeOK /\ ExitInv /\ OrdersCounted /\ [Next]_vars => OrdersCounted'
<1> SUFFICES ASSUME TypeOK, ExitInv, OrdersCounted, [Next]_vars PROVE OrdersCounted'
  OBVIOUS
<1>0. TypeOK'
  BY NextTypes
<1>1. ASSUME NEW e \in Entry, EntryStep(e) PROVE OrdersCounted'
  BY <1>0, <1>1, EntryOrders
<1>2. ASSUME NEW k \in ExitKey, ExitStep(k) PROVE OrdersCounted'
  BY <1>0, <1>2, ExitOrders
<1>3. ASSUME NEW i \in Id, UserCloses(i) \/ PanicCloses(i) \/ TickCloses(i) \/ RoundCloses(i)
      PROVE  OrdersCounted'
  <2>1. PICK c \in Caller : CloseTrade(<<c, i>>) /\ UNCHANGED closeOrders
    BY <1>3 DEF UserCloses, PanicCloses, TickCloses, RoundCloses, Caller
  <2> DEFINE k == <<c, i>>
  <2>2. k \in ExitKey /\ k[2] \in DOMAIN open
    BY <2>1, Identities DEF CloseTrade, MayExit
  <2>3. CASE Settle(k, open[k[2]])
    BY <1>0, <2>1, <2>2, <2>3, SettleOrders
  <2>4. CASE ~Settle(k, open[k[2]])
    <3>1. DOMAIN exit' = DOMAIN exit \cup {k} /\ UNCHANGED <<open, faults>>
      BY <2>1, <2>4 DEF CloseTrade, Put
    <3>2. faults' >= faults
      BY <3>1, NumberAssumption DEF TypeOK, OtherType
    <3> QED BY <1>0, <2>1, <2>2, <3>1, <3>2, NoOrderKeeps
  <2> QED BY <2>3, <2>4
<1>4. CASE PanicAgain
  <2>1. PICK k \in PanicExits : closeOrders[k[2]] < MaxPresses
    BY <1>4 DEF PanicAgain
  <2>2. k \in ExitKey
    <3>1. k # UserStop
      BY DEF PanicExits, UserStop
    <3> QED BY <3>1 DEF PanicExits, TypeOK, LoopType, ExitType
  <2> QED BY <2>1, <2>2, Identities DEF TypeOK, ExitType
<1>5. CASE UNCHANGED <<open, exit, closeOrders, faults>>
  <2>1. faults' >= faults
    BY <1>5, NumberAssumption DEF TypeOK, OtherType
  <2> QED BY <1>0, <1>5, <2>1, NoOrderKeeps
<1>6. CASE \/ \E e \in Manual, s \in Symbol : ManualEntry(e, s)
           \/ \E e \in ScanTask : ScanStep(e)
           \/ \E i \in Id : RoundPasses(i) \/ RoundRefreshes(i) \/ RowCloses(i)
           \/ \E s \in Symbol : Tick(s) \/ GoStale(s) \/ TickChecked(s) \/ UserRecords(s)
           \/ \E k \in ExitKey \cup {UserStop} : StopReturns(k)
           \/ BeginRound \/ EndRound \/ EndLoop \/ Start \/ Stop
           \/ ApplyConfig \/ CacheExpires \/ NewDay \/ ClearHistory
           \/ UNCHANGED vars
  <2>1. UNCHANGED <<open, exit, closeOrders, faults>>
    BY <1>6 DEF ManualEntry, ScanStep, Candidates, Pick, ScanCancelled, CancelSwallowed,
                RoundPasses, RoundRefreshes, RowCloses, Tick, GoStale, TickChecked,
                UserRecords, StopReturns, BeginRound, EndRound, EndLoop, Start, Stop,
                ApplyConfig, CacheExpires, NewDay, ClearHistory, vars, exitVars
  <2> QED BY <1>5, <2>1
<1>7. CASE Restart
  <2>1. /\ DOMAIN open' = {} /\ DOMAIN exit' = {}
        /\ UNCHANGED <<closeOrders, faults>>
    BY <1>7 DEF Restart
  <2> QED BY <2>1 DEF OrdersCounted, CloseOrdersExplained
<1> QED BY <1>1, <1>2, <1>3, <1>4, <1>6, <1>7 DEF Next

(* A position is closed at the exchange once: every further close order     *)
(* answers a fault, as long as the emergency button is not pressed again    *)
(* while its exits are in flight.                                           *)
THEOREM OrdersExplained ==
    ASSUME MaxPresses = 0
    PROVE  Spec => []CloseOrdersExplained
<1>1. Init => OrdersCounted
  <2> SUFFICES ASSUME Init PROVE OrdersCounted
    OBVIOUS
  <2>1. /\ DOMAIN open = {} /\ DOMAIN exit = {} /\ faults = 0
        /\ \A i \in Id : closeOrders[i] = 0
    BY DEF Init
  <2> QED BY <2>1 DEF OrdersCounted, CloseOrdersExplained
<1>2. TypeOK /\ ExitInv /\ OrdersCounted /\ [Next]_vars => OrdersCounted'
  BY NextKeepsOrders
<1>3. OrdersCounted => CloseOrdersExplained
  BY DEF OrdersCounted
<1> QED BY <1>1, <1>2, <1>3, InitTypes, NextTypes, InitKeepsExits, NextKeepsExits, PTL DEF Spec
=============================================================================
