-------------------------- MODULE AutoTraderProofs --------------------------
(***************************************************************************)
(* Theorems about AutoTrader for all values of its constants.              *)
(***************************************************************************)
EXTENDS AutoTrader, WellFoundedInduction, FiniteSetTheorems, TLAPS

(* The identities of coroutines and of keys do not clash. *)
LEMMA Identities ==
    /\ None \notin Entry
    /\ None \notin ScanTask
    /\ ScanTask \subseteq Entry
    /\ UserStop \notin ExitKey
    /\ \A k \in ExitKey : k[2] \in Id /\ k[1] \in Caller
    /\ \A i \in Id, c \in Caller : <<c, i>> \in ExitKey
    /\ \A i \in Id : i # 0
BY SetAssumption, NumberAssumption DEF Entry, ExitKey, UserStop, Id, Caller

-----------------------------------------------------------------------------
(* Type correctness, operation by operation *)

(* An entry that leaves. *)
LEMMA LeaveTypes ==
    ASSUME EntryType, NEW e \in Entry, Leave(e)
    PROVE  EntryType'
BY DEF EntryType, Leave, Entry

(* One that fails. *)
LEMMA FailTypes ==
    ASSUME EntryType, NEW e \in Entry, Fail(e)
    PROVE  EntryType'
BY DEF EntryType, Fail, Entry

(* A look at the loss limit. *)
LEMMA LimitTypes ==
    ASSUME OtherType
    PROVE  DailyTotals \subseteq Int /\ (LookAtLimit => dailyCache' \subseteq Int)
BY DEF OtherType, DailyTotals, LookAtLimit

(* Every set of row ids that is not empty has a largest member: the one     *)
(* SQLite adds one to.                                                      *)
LEMMA LargestId ==
    ASSUME NEW D \in SUBSET Id, D # {}
    PROVE  \E i \in D : \A j \in D : j <= i
<1> DEFINE T == {n \in Nat : \E i \in D : n = MaxTrades - i}
           R == OpToRel(<, Nat)
<1>1. T \subseteq Nat /\ T # {}
  <2>1. PICK i \in D : TRUE
    OBVIOUS
  <2>2. MaxTrades - i \in T
    BY NumberAssumption DEF Id
  <2> QED BY <2>2
<1>2. IsWellFoundedOn(R, Nat)
  BY NatLessThanWellFounded, Zenon
<1>3. \A m, n \in Nat : m < n => <<m, n>> \in R
  <2>1. R = {ss \in Nat \X Nat : ss[1] < ss[2]}
    BY DEF OpToRel
  <2> HIDE DEF R
  <2> QED BY <2>1
<1> HIDE DEF T, R
<1>4. PICK m \in T : \A n \in T : <<n, m>> \notin R
  BY <1>1, <1>2, WFMin
<1>5. ASSUME NEW n \in T PROVE m <= n
  <2>1. m \in Nat /\ n \in Nat
    BY <1>1, <1>4
  <2>2. ~(n < m)
    BY <1>3, <1>4, <2>1
  <2> QED BY <2>1, <2>2
<1> QED BY <1>4, <1>5, NumberAssumption DEF T, Id

(* The id of a new row is a positive number. *)
LEMMA NextIdType ==
    ASSUME DOMAIN row \subseteq Id
    PROVE  NextId \in Nat \ {0}
<1>1. CASE DOMAIN row = {}
  BY <1>1 DEF NextId
<1>2. CASE DOMAIN row # {}
  <2> DEFINE m == CHOOSE i \in DOMAIN row : \A j \in DOMAIN row : j <= i
  <2>1. PICK i \in DOMAIN row : \A j \in DOMAIN row : j <= i
    BY <1>2, LargestId
  <2>2. m \in DOMAIN row
    BY <2>1
  <2>3. NextId = 1 + m
    BY <1>2 DEF NextId
  <2> HIDE DEF m
  <2> QED BY <2>2, <2>3, NumberAssumption DEF Id
<1> QED BY <1>1, <1>2

(* The variables an entry writes, and those an exit writes. *)
EntryPart ==
    /\ EntryType /\ BookType
    /\ loop \in {"off", "sleep", "check"}
    /\ closeOrders \in [Id -> Nat]
    /\ stray \subseteq Symbol
    /\ faults \in 0..MaxFaults

StopPart ==
    /\ running \in BOOLEAN
    /\ scanTask \in ScanTask \cup {None}
    /\ cancelled \subseteq ScanTask
    /\ DOMAIN stopping \subseteq ExitKey \cup {UserStop}
    /\ \A x \in DOMAIN stopping :
          /\ stopping[x].scan \in ScanTask
          /\ stopping[x].symbol \in Symbol \cup {None}

ExitPart ==
    /\ EntryType /\ BookType /\ StopPart
    /\ loop \in {"off", "sleep", "check"}
    /\ closing \subseteq Id
    /\ DOMAIN exit \subseteq ExitKey
    /\ \A x \in DOMAIN exit : exit[x] \in Exit
    /\ realised \in Int /\ dailyCache \subseteq Int
    /\ faults \in 0..MaxFaults

(* What an entry writes when it records its trade, or fails to. *)
LEMMA RecordTypes ==
    ASSUME TypeOK, NEW e \in Entry, target[e] \in Symbol, NEW live \in BOOLEAN,
           Record(e, live) \/ RecordFails(e, live)
    PROVE  EntryPart'
<1>1. CASE Record(e, live)
  <2> DEFINE n == NextId
             r == [symbol |-> target[e], live |-> live, auto |-> TRUE, open |-> TRUE]
             t == [symbol |-> target[e], live |-> live]
  <2>1. /\ n \in Id
        /\ row' = Put(row, n, r)
        /\ open' = Put(open, n, t)
        /\ closeOrders' = [closeOrders EXCEPT ![n] = 0]
        /\ loop' = IF loop = "off" THEN "sleep" ELSE loop
        /\ Leave(e)
        /\ UNCHANGED faults
        /\ \/ stray' = stray
           \/ n \in DOMAIN open /\ stray' = stray \cup {open[n].symbol}
    BY <1>1 DEF Record
  <2>2. r \in Row /\ t \in Position
    BY DEF Row, Position
  <2> HIDE DEF n, r, t
  <2>3. BookType'
    <3>1. /\ DOMAIN row' = DOMAIN row \cup {n}
          /\ row'[n] = r
          /\ \A x \in DOMAIN row : x # n => row'[x] = row[x]
      BY <2>1 DEF Put
    <3>2. /\ DOMAIN open' = DOMAIN open \cup {n}
          /\ open'[n] = t
          /\ \A x \in DOMAIN open : x # n => open'[x] = open[x]
      BY <2>1 DEF Put
    <3> QED BY <2>1, <2>2, <3>1, <3>2 DEF TypeOK, BookType
  <2>4. EntryType'
    BY <2>1, LeaveTypes DEF TypeOK
  <2>5. stray' \subseteq Symbol
    BY <2>1 DEF TypeOK, BookType, OtherType, Position
  <2> QED BY <2>1, <2>3, <2>4, <2>5 DEF EntryPart, TypeOK, LoopType, ExitType, OtherType
<1>2. CASE RecordFails(e, live)
  <2>1. EntryType'
    BY <1>2, FailTypes DEF RecordFails, TypeOK
  <2>2. faults' \in 0..MaxFaults
    BY <1>2, NumberAssumption DEF RecordFails, TypeOK, OtherType
  <2>3. stray' \subseteq Symbol
    BY <1>2 DEF RecordFails, TypeOK, OtherType
  <2> QED BY <1>2, <2>1, <2>2, <2>3 DEF EntryPart, RecordFails, TypeOK, LoopType, ExitType, BookType
<1> QED BY <1>1, <1>2

(* What an entry writes from its price on. *)
LEMMA PlaceTypes ==
    ASSUME TypeOK, NEW e \in Entry, target[e] \in Symbol, NEW mode, Place(e, mode)
    PROVE  EntryPart'
<1>1. CASE mode = "paper"
  BY <1>1, RecordTypes DEF Place
<1>2. CASE mode # "paper"
  <2>1. EntryType'
    BY <1>2 DEF Place, TypeOK, EntryType
  <2> QED BY <1>2, <2>1 DEF EntryPart, Place, TypeOK, LoopType, ExitType, BookType, OtherType
<1> QED BY <1>1, <1>2

(* stop(): what its synchronous part writes. *)
LEMMA BeginStopTypes ==
    ASSUME TypeOK, NEW k \in ExitKey \cup {UserStop}, NEW s \in Symbol \cup {None},
           BeginStop(k, s)
    PROVE  StopPart'
<1>1. CASE ScanAlive
  <2>1. scanTask \in ScanTask
    BY <1>1 DEF ScanAlive
  <2> DEFINE r == [scan |-> scanTask, symbol |-> s]
  <2>2. stopping' = Put(stopping, k, r) /\ UNCHANGED scanTask
        /\ cancelled' = cancelled \cup {scanTask} /\ running' = FALSE
    BY <1>1 DEF BeginStop
  <2>3. r.scan \in ScanTask /\ r.symbol \in Symbol \cup {None}
    BY <2>1
  <2> HIDE DEF r
  <2>4. /\ DOMAIN stopping' = DOMAIN stopping \cup {k}
        /\ stopping'[k] = r
        /\ \A x \in DOMAIN stopping : x # k => stopping'[x] = stopping[x]
    BY <2>2 DEF Put
  <2> QED BY <2>1, <2>2, <2>3, <2>4 DEF StopPart, TypeOK, LoopType, EntryType
<1>2. CASE ~ScanAlive
  BY <1>2 DEF StopPart, BeginStop, TypeOK, LoopType, EntryType
<1> QED BY <1>1, <1>2

(* A close that is written to the table. *)
LEMMA CommitTypes ==
    ASSUME TypeOK, NEW k \in ExitKey, NEW s \in Symbol \cup {None}, Commit(k, s)
    PROVE  ExitPart'
<1> DEFINE i == k[2]
<1>0. i \in Id
  BY Identities
<1>1. PICK result \in Results, edgeLost \in BOOLEAN :
        LET found == i \in OpenRows
            total == IF found THEN realised + result ELSE realised
            seen  == SeenAfterClose(total)
            halt  == edgeLost \/ (LossLimit > 0 /\ seen <= -LossLimit)
        IN /\ row' = IF found THEN [row EXCEPT ![i].open = FALSE] ELSE row
           /\ realised' = total
           /\ dailyCache' = IF LossLimit > 0 THEN {seen} ELSE {}
           /\ open' = Drop(open, i)
           /\ exit' = Drop(exit, k)
           /\ IF halt
              THEN /\ BeginStop(k, s)
                   /\ closing' = IF k \in DOMAIN stopping' THEN closing \cup {i}
                                                           ELSE closing \ {i}
              ELSE /\ closing' = closing \ {i}
                   /\ UNCHANGED <<running, scanTask, stopping, cancelled>>
           /\ UNCHANGED <<at, target, left, entryLock, loop, faults>>
  BY DEF Commit
<1> HIDE DEF i
<1>2. BookType'
  <2>1. DOMAIN row' = DOMAIN row /\ \A x \in DOMAIN row : row'[x] \in Row
    BY <1>1 DEF TypeOK, BookType, Row
  <2>2. DOMAIN open' \subseteq DOMAIN open /\ \A x \in DOMAIN open' : open'[x] = open[x]
    BY <1>1 DEF Drop
  <2> QED BY <2>1, <2>2 DEF TypeOK, BookType
<1>3. StopPart'
  <2>1. CASE BeginStop(k, s)
    BY <2>1, BeginStopTypes
  <2>2. CASE UNCHANGED <<running, scanTask, stopping, cancelled>>
    BY <2>2 DEF StopPart, TypeOK, LoopType, EntryType
  <2> QED BY <1>1, <2>1, <2>2
<1>4. EntryType'
  BY <1>1, <1>3 DEF StopPart, TypeOK, EntryType
<1>5. closing' \subseteq Id
  BY <1>0, <1>1 DEF TypeOK, ExitType
<1>6. DOMAIN exit' \subseteq DOMAIN exit /\ \A x \in DOMAIN exit' : exit'[x] = exit[x]
  BY <1>1 DEF Drop
<1>7. realised' \in Int /\ dailyCache' \subseteq Int
  BY <1>1, NumberAssumption DEF SeenAfterClose, TypeOK, OtherType
<1>8. loop' = loop /\ faults' = faults
  BY <1>1
<1> QED BY <1>2, <1>3, <1>4, <1>5, <1>6, <1>7, <1>8
        DEF ExitPart, TypeOK, ExitType, LoopType, OtherType

(* A close whose write fails. *)
LEMMA CommitFailsTypes ==
    ASSUME TypeOK, NEW k \in ExitKey, CommitFails(k)
    PROVE  ExitPart'
<1>1. faults' \in 0..MaxFaults
  BY NumberAssumption DEF CommitFails, TypeOK, OtherType
<1>2. DOMAIN exit' \subseteq DOMAIN exit /\ \A x \in DOMAIN exit' : exit'[x] = exit[x]
  BY DEF CommitFails, Drop
<1>3. loop' \in {"off", "sleep", "check"}
  BY DEF CommitFails, AbortRound, TypeOK, LoopType
<1>4. StopPart' /\ EntryType' /\ BookType'
  BY DEF CommitFails, entryVars, StopPart, TypeOK, LoopType, EntryType, BookType
<1> QED BY <1>1, <1>2, <1>3, <1>4
        DEF CommitFails, moneyVars, ExitPart, TypeOK, ExitType, OtherType

(* A suspended exit that is registered in _closing. *)
LEMMA SuspendTypes ==
    ASSUME TypeOK, NEW k \in ExitKey, NEW r \in Exit,
           exit' = Put(exit, k, r), closing' = closing \cup {k[2]},
           UNCHANGED <<entryVars, open, row, moneyVars, running, loop, scanTask,
                       stopping, faults>>
    PROVE  ExitPart'
<1>1. k[2] \in Id
  BY Identities
<1>2. /\ DOMAIN exit' = DOMAIN exit \cup {k}
      /\ exit'[k] = r
      /\ \A x \in DOMAIN exit : x # k => exit'[x] = exit[x]
  BY DEF Put
<1>3. StopPart' /\ EntryType' /\ BookType'
  BY DEF entryVars, StopPart, TypeOK, LoopType, EntryType, BookType
<1> QED BY <1>1, <1>2, <1>3
        DEF moneyVars, ExitPart, TypeOK, LoopType, ExitType, OtherType

(* An exit from its price on. *)
LEMMA SettleTypes ==
    ASSUME TypeOK, NEW k \in ExitKey, NEW t, t.symbol \in Symbol, Settle(k, t)
    PROVE  ExitPart'
<1>1. CASE t.live
  BY <1>1, SuspendTypes DEF Settle, Exit
<1>2. CASE ~t.live
  BY <1>2, CommitTypes, CommitFailsTypes DEF Settle
<1> QED BY <1>1, <1>2

(* close_trade up to its first suspension. *)
LEMMA CloseTradeTypes ==
    ASSUME TypeOK, NEW k \in ExitKey, CloseTrade(k)
    PROVE  ExitPart'
<1> DEFINE i == k[2]
<1>1. i \in DOMAIN open /\ open[i].symbol \in Symbol /\ open[i].live \in BOOLEAN
  BY DEF CloseTrade, MayExit, TypeOK, BookType, Position
<1>2. CASE TickFeed /\ ~Stale(open[i].symbol)
  BY <1>1, <1>2, SettleTypes DEF CloseTrade
<1>3. CASE ~(TickFeed /\ ~Stale(open[i].symbol))
  BY <1>1, <1>3, SuspendTypes DEF CloseTrade, Exit
<1> QED BY <1>2, <1>3

(* An exit is one step of the whole system when its action leaves the rest  *)
(* alone.                                                                   *)
LEMMA ExitTypes ==
    ASSUME TypeOK, ExitPart', NEW rest \in SUBSET Id,
           RoundAfter(rest) \/ UNCHANGED round,
           closeOrders' \in [Id -> Nat], UNCHANGED <<dataVars, cap, stray>>
    PROVE  TypeOK'
<1>1. round' \subseteq Id
  BY DEF RoundAfter, TypeOK, LoopType
<1> QED BY <1>1 DEF dataVars, ExitPart, StopPart, TypeOK, LoopType, ExitType, OtherType

(* Initially every variable has its type. *)
LEMMA InitTypes == Init => TypeOK
<1> SUFFICES ASSUME Init PROVE TypeOK
  OBVIOUS
<1>1. DOMAIN open = {} /\ DOMAIN row = {} /\ DOMAIN exit = {} /\ DOMAIN stopping = {}
  BY DEF Init
<1>2. LoopType
  BY <1>1 DEF Init, LoopType
<1>3. EntryType
  BY SetAssumption DEF Init, EntryType, Entry
<1>4. ExitType /\ BookType
  BY <1>1 DEF Init, ExitType, BookType
<1>5. OtherType
  BY NumberAssumption DEF Init, OtherType
<1> QED BY <1>2, <1>3, <1>4, <1>5 DEF TypeOK

(* A step of an entry keeps the types. *)
LEMMA EntryStepTypes ==
    ASSUME TypeOK, NEW e \in Entry, EntryStep(e)
    PROVE  TypeOK'
<1> USE DEF exitVars, loopVars, dataVars, moneyVars
<1>1. CASE Refreshed(e)
  <2>1. EntryType'
    <3>1. CASE Leave(e)
      BY <3>1, LeaveTypes DEF TypeOK
    <3>2. CASE UNCHANGED <<target, left, cancelled, entryLock>> /\ at' = [at EXCEPT ![e] = "lock"]
      BY <1>1, <3>2 DEF Refreshed, TypeOK, EntryType
    <3> QED BY <1>1, <3>1, <3>2 DEF Refreshed
  <2> QED BY <1>1, <2>1 DEF Refreshed, TypeOK, LoopType, ExitType, BookType, OtherType
<1>2. CASE Reject(e)
  <2>1. EntryType'
    BY <1>2, LeaveTypes, FailTypes DEF Reject, TypeOK
  <2>2. dailyCache' \subseteq Int
    BY <1>2, LimitTypes DEF Reject, TypeOK, OtherType
  <2> QED BY <1>2, <2>1, <2>2 DEF Reject, TypeOK, LoopType, ExitType, BookType, OtherType
<1>3. CASE Admit(e)
  <2>1. target[e] \in Symbol
    BY <1>3 DEF Admit, TypeOK, EntryType
  <2>2. EntryPart'
    <3>1. CASE TickFeed
      BY <1>3, <2>1, <3>1, PlaceTypes DEF Admit
    <3>2. CASE ~TickFeed
      <4>1. /\ at' = [at EXCEPT ![e] = "price"] /\ entryLock' = e
            /\ UNCHANGED <<target, left, cancelled, row, open, closeOrders, stray,
                           loop, faults>>
        BY <1>3, <3>2 DEF Admit
      <4>2. EntryType'
        BY <2>1, <4>1 DEF TypeOK, EntryType
      <4> QED BY <4>1, <4>2 DEF EntryPart, TypeOK, LoopType, ExitType, BookType, OtherType
    <3> QED BY <3>1, <3>2
  <2>3. dailyCache' \subseteq Int
    BY <1>3, LimitTypes DEF Admit, TypeOK
  <2> QED BY <1>3, <2>2, <2>3 DEF Admit, EntryPart, TypeOK, LoopType, ExitType, OtherType
<1>4. CASE Priced(e)
  <2>1. target[e] \in Symbol
    BY <1>4 DEF Priced, TypeOK, EntryType
  <2>2. EntryPart'
    <3>1. CASE \E mode \in Modes : Place(e, mode)
      BY <2>1, <3>1, PlaceTypes
    <3>2. CASE /\ Leave(e) \/ Fail(e)
               /\ UNCHANGED <<row, open, closeOrders, stray, loop, faults>>
      BY <3>2, LeaveTypes, FailTypes DEF EntryPart, TypeOK, LoopType, ExitType, BookType, OtherType
    <3> QED BY <1>4, <3>1, <3>2 DEF Priced
  <2> QED BY <1>4, <2>2 DEF Priced, EntryPart, TypeOK, LoopType, ExitType, OtherType
<1>5. CASE Ordered(e)
  <2>1. target[e] \in Symbol
    BY <1>5 DEF Ordered, TypeOK, EntryType
  <2>2. EntryPart'
    BY <1>5, <2>1, RecordTypes DEF Ordered
  <2> QED BY <1>5, <2>2 DEF Ordered, EntryPart, TypeOK, LoopType, ExitType, OtherType
<1>6. CASE OrderFails(e)
  <2>1. target[e] \in Symbol
    BY <1>6 DEF OrderFails, TypeOK, EntryType
  <2>2. EntryType'
    BY <1>6, LeaveTypes, FailTypes DEF OrderFails, TypeOK
  <2>3. stray' \subseteq Symbol /\ faults' \in 0..MaxFaults
    BY <1>6, <2>1, NumberAssumption DEF OrderFails, TypeOK, OtherType
  <2> QED BY <1>6, <2>2, <2>3 DEF OrderFails, TypeOK, LoopType, ExitType, BookType, OtherType
<1> QED BY <1>1, <1>2, <1>3, <1>4, <1>5, <1>6 DEF EntryStep

(* A step of a scan keeps the types. *)
LEMMA ScanStepTypes ==
    ASSUME TypeOK, NEW e \in ScanTask, ScanStep(e)
    PROVE  TypeOK'
<1> USE DEF exitVars, loopVars, dataVars, moneyVars
<1>0. e \in Entry
  BY Identities
<1>1. CASE Candidates(e)
  <2>1. EntryType'
    BY <1>0, <1>1, FailTypes DEF Candidates, TypeOK, EntryType
  <2> QED BY <1>1, <2>1 DEF Candidates, TypeOK, LoopType, ExitType, BookType, OtherType
<1>2. CASE Pick(e)
  <2>1. EntryType'
    <3>1. CASE Fail(e)
      BY <1>0, <3>1, FailTypes DEF TypeOK
    <3>2. CASE ~Fail(e)
      <4>1. PICK s \in left[e] :
               /\ left' = [left EXCEPT ![e] = @ \ {s}]
               /\ at' = [at EXCEPT ![e] = Knock(s)]
               /\ target' = [target EXCEPT ![e] = s]
               /\ UNCHANGED <<cancelled, entryLock>>
        BY <1>2, <3>2 DEF Pick
      <4>2. s \in Symbol /\ Knock(s) \in {"refresh", "lock"}
        BY <4>1 DEF Knock, TypeOK, EntryType
      <4> QED BY <1>0, <4>1, <4>2 DEF TypeOK, EntryType
    <3> QED BY <3>1, <3>2
  <2> QED BY <1>2, <2>1 DEF Pick, TypeOK, LoopType, ExitType, BookType, OtherType
<1>3. CASE ScanCancelled(e)
  <2>1. EntryType'
    BY <1>0, <1>3, FailTypes DEF ScanCancelled, TypeOK
  <2>2. stray' \subseteq Symbol
    BY <1>0, <1>3 DEF ScanCancelled, TypeOK, EntryType, OtherType
  <2> QED BY <1>3, <2>1, <2>2 DEF ScanCancelled, TypeOK, LoopType, ExitType, BookType, OtherType
<1>4. CASE CancelSwallowed(e)
  BY <1>4 DEF CancelSwallowed, TypeOK, LoopType, EntryType, ExitType, BookType, OtherType
<1> QED BY <1>1, <1>2, <1>3, <1>4 DEF ScanStep

(* A step of a suspended exit keeps the types. *)
LEMMA ExitStepTypes ==
    ASSUME TypeOK, NEW k \in ExitKey, ExitStep(k)
    PROVE  TypeOK'
<1>0. k[2] \in Id
  BY Identities
<1>1. CASE ExitPriced(k)
  <2>1. exit[k].symbol \in Symbol /\ round \subseteq Id
    BY <1>1 DEF ExitPriced, TypeOK, ExitType, Exit, LoopType
  <2>2. ExitPart'
    BY <1>1, <2>1, SettleTypes DEF ExitPriced
  <2>3. closeOrders' \in [Id -> Nat]
    BY <1>1 DEF ExitPriced, TypeOK, ExitType
  <2> QED BY <1>1, <2>1, <2>2, <2>3, ExitTypes DEF ExitPriced
<1>2. CASE ExitGivesUp(k)
  <2>1. DOMAIN exit' \subseteq DOMAIN exit /\ \A x \in DOMAIN exit' : exit'[x] = exit[x]
    BY <1>2 DEF ExitGivesUp, Drop
  <2>2. round' \subseteq Id /\ loop' \in {"off", "sleep", "check"}
    BY <1>2 DEF ExitGivesUp, AbortRound, RoundAfter, TypeOK, LoopType
  <2> QED BY <1>2, <2>1, <2>2 DEF ExitGivesUp, entryVars, dataVars, moneyVars,
             TypeOK, LoopType, EntryType, ExitType, BookType, OtherType
<1>3. CASE CloseOrdered(k)
  <2>1. exit[k].symbol \in Symbol /\ round \subseteq Id
    BY <1>3 DEF CloseOrdered, TypeOK, ExitType, Exit, LoopType
  <2>2. ExitPart'
    BY <1>3, <2>1, CommitTypes, CommitFailsTypes DEF CloseOrdered
  <2>3. closeOrders' \in [Id -> Nat]
    BY <1>0, <1>3 DEF CloseOrdered, TypeOK, ExitType
  <2> QED BY <1>3, <2>1, <2>2, <2>3, ExitTypes DEF CloseOrdered
<1>4. CASE CloseOrderFails(k)
  <2>1. DOMAIN exit' \subseteq DOMAIN exit /\ \A x \in DOMAIN exit' : exit'[x] = exit[x]
    BY <1>4 DEF CloseOrderFails, Drop
  <2>2. round' \subseteq Id /\ loop' \in {"off", "sleep", "check"}
    BY <1>4 DEF CloseOrderFails, AbortRound, RoundAfter, TypeOK, LoopType
  <2>3. closeOrders' \in [Id -> Nat] /\ faults' \in 0..MaxFaults
    BY <1>0, <1>4, NumberAssumption DEF CloseOrderFails, TypeOK, ExitType, OtherType
  <2> QED BY <1>4, <2>1, <2>2, <2>3 DEF CloseOrderFails, entryVars, dataVars, moneyVars,
             TypeOK, LoopType, EntryType, ExitType, BookType, OtherType
<1> QED BY <1>1, <1>2, <1>3, <1>4 DEF ExitStep

(* A new exit keeps the types. *)
LEMMA CallerTypes ==
    ASSUME TypeOK, NEW i \in Id,
           UserCloses(i) \/ PanicCloses(i) \/ TickCloses(i) \/ RoundCloses(i)
    PROVE  TypeOK'
<1>1. PICK c \in Caller : CloseTrade(<<c, i>>)
  BY DEF UserCloses, PanicCloses, TickCloses, RoundCloses, Caller
<1>2. ExitPart'
  BY <1>1, Identities, CloseTradeTypes
<1>3. UNCHANGED <<closeOrders, dataVars, cap, stray>>
  BY DEF UserCloses, PanicCloses, TickCloses, RoundCloses
<1>4. closeOrders' \in [Id -> Nat]
  BY <1>3 DEF TypeOK, ExitType
<1>5. \/ UNCHANGED round
      \/ RoundAfter(round \ {i})
  BY DEF UserCloses, PanicCloses, TickCloses, RoundCloses
<1>6. round \ {i} \in SUBSET Id
  BY DEF TypeOK, LoopType
<1> QED BY <1>2, <1>3, <1>4, <1>5, <1>6, ExitTypes

(* Every other step keeps the types. *)
LEMMA OtherTypes ==
    ASSUME TypeOK,
           \/ \E e \in Manual, s \in Symbol : ManualEntry(e, s)
           \/ \E i \in Id : RoundPasses(i) \/ RoundRefreshes(i) \/ RowCloses(i)
           \/ PanicAgain
           \/ \E s \in Symbol : Tick(s) \/ GoStale(s) \/ TickChecked(s) \/ UserRecords(s)
           \/ \E k \in ExitKey \cup {UserStop} : StopReturns(k)
           \/ BeginRound \/ EndRound \/ EndLoop \/ Start \/ Stop
           \/ ApplyConfig \/ CacheExpires \/ NewDay \/ ClearHistory \/ Restart
    PROVE  TypeOK'
<1> USE DEF vars, entryVars, exitVars, loopVars, dataVars, moneyVars
<1>1. ASSUME NEW e \in Manual, NEW s \in Symbol, ManualEntry(e, s) PROVE TypeOK'
  <2>1. e \in Entry /\ Knock(s) \in {"refresh", "lock"}
    BY DEF Entry, Knock
  <2>2. EntryType'
    BY <1>1, <2>1 DEF ManualEntry, TypeOK, EntryType
  <2> QED BY <1>1, <2>2 DEF ManualEntry, TypeOK, LoopType, ExitType, BookType, OtherType
<1>2. ASSUME NEW i \in Id, RoundPasses(i) PROVE TypeOK'
  BY <1>2 DEF RoundPasses, TypeOK, LoopType, EntryType, ExitType, BookType, OtherType
<1>3. ASSUME NEW s \in Symbol, Tick(s) PROVE TypeOK'
  BY <1>3 DEF Tick, TypeOK, LoopType, EntryType, ExitType, BookType, OtherType
<1>4. ASSUME NEW i \in Id, RoundRefreshes(i) PROVE TypeOK'
  BY <1>3, <1>4 DEF RoundRefreshes, TypeOK, BookType, Position
<1>5. ASSUME NEW i \in Id, RowCloses(i) PROVE TypeOK'
  <2>1. DOMAIN row' = DOMAIN row /\ \A x \in DOMAIN row : row'[x] \in Row
    BY <1>5 DEF RowCloses, TypeOK, BookType, Row
  <2>2. realised' \in Int
    BY <1>5, NumberAssumption DEF RowCloses, TypeOK, OtherType
  <2> QED BY <1>5, <2>1, <2>2
          DEF RowCloses, TypeOK, LoopType, EntryType, ExitType, BookType, OtherType
<1>6. CASE PanicAgain
  <2>1. PICK k \in PanicExits :
           /\ exit' = Drop(exit, k)
           /\ stopping' = Drop(stopping, k)
           /\ closing' = closing \ {k[2]}
           /\ cancelled' = cancelled \cup
                {e \in ScanTask : k \in DOMAIN stopping /\ e = stopping[k].scan
                                 /\ at[e] # "idle"}
           /\ closeOrders' \in {closeOrders, [closeOrders EXCEPT ![k[2]] = @ + 1]}
           /\ UNCHANGED <<at, target, left, entryLock, running, loop, round, scanTask,
                          dataVars, moneyVars, cap, open, row, stray, faults>>
    BY <1>6 DEF PanicAgain
  <2>2. DOMAIN exit' \subseteq DOMAIN exit /\ \A x \in DOMAIN exit' : exit'[x] = exit[x]
    BY <2>1 DEF Drop
  <2>3. /\ DOMAIN stopping' \subseteq DOMAIN stopping
        /\ \A x \in DOMAIN stopping' : stopping'[x] = stopping[x]
    BY <2>1 DEF Drop
  <2>4. closeOrders' \in [Id -> Nat]
    BY <2>1 DEF TypeOK, ExitType
  <2> QED BY <2>1, <2>2, <2>3, <2>4
          DEF TypeOK, LoopType, EntryType, ExitType, BookType, OtherType
<1>7. ASSUME NEW s \in Symbol, GoStale(s) PROVE TypeOK'
  BY <1>7 DEF GoStale, TypeOK, LoopType, EntryType, ExitType, BookType, OtherType
<1>8. ASSUME NEW s \in Symbol, TickChecked(s) PROVE TypeOK'
  BY <1>8 DEF TickChecked, TypeOK, LoopType, EntryType, ExitType, BookType, OtherType
<1>9. ASSUME NEW s \in Symbol, UserRecords(s) PROVE TypeOK'
  <2> DEFINE n == NextId
             r == [symbol |-> s, live |-> FALSE, auto |-> FALSE, open |-> TRUE]
  <2>1. r \in Row /\ row' = Put(row, n, r)
    BY <1>9 DEF UserRecords, Row
  <2>2. n \in Id
    BY <1>9, NextIdType, NumberAssumption DEF UserRecords, TypeOK, BookType, Id
  <2> HIDE DEF n, r
  <2>3. /\ DOMAIN row' = DOMAIN row \cup {n}
        /\ row'[n] = r
        /\ \A x \in DOMAIN row : x # n => row'[x] = row[x]
    BY <2>1 DEF Put
  <2> QED BY <1>9, <2>1, <2>2, <2>3
          DEF UserRecords, TypeOK, LoopType, EntryType, ExitType, BookType, OtherType
<1>10. ASSUME NEW k \in ExitKey \cup {UserStop}, StopReturns(k) PROVE TypeOK'
  <2>1. /\ DOMAIN stopping' \subseteq DOMAIN stopping
        /\ \A x \in DOMAIN stopping' : stopping'[x] = stopping[x]
    BY <1>10 DEF StopReturns, Drop
  <2> QED BY <1>10, <2>1
          DEF StopReturns, TypeOK, LoopType, EntryType, ExitType, BookType, OtherType
<1>11. CASE BeginRound \/ EndLoop
  BY <1>11 DEF BeginRound, EndLoop, TypeOK, LoopType, EntryType, ExitType, BookType, OtherType
<1>12. CASE EndRound
  <2>1. /\ at' \in [Entry -> {"idle", "source", "pick", "refresh", "lock", "price", "order"}]
        /\ \A e \in Entry : at'[e] = at[e] \/ at'[e] = "source"
        /\ scanTask' \in ScanTask \cup {None}
    BY <1>12, Identities DEF EndRound, TypeOK, LoopType, EntryType
  <2>2. dailyCache' \subseteq Int
    BY <1>12, LimitTypes DEF EndRound, TypeOK, OtherType
  <2> QED BY <1>12, <2>1, <2>2
          DEF EndRound, TypeOK, LoopType, EntryType, ExitType, BookType, OtherType
<1>13. CASE Start
  <2>1. dailyCache' \subseteq Int
    BY <1>13, LimitTypes DEF Start, TypeOK
  <2> QED BY <1>13, <2>1
          DEF Start, TypeOK, LoopType, EntryType, ExitType, BookType, OtherType
<1>14. CASE Stop
  <2>1. StopPart'
    BY <1>14, BeginStopTypes DEF Stop
  <2> QED BY <1>14, <2>1
          DEF Stop, StopPart, TypeOK, LoopType, EntryType, ExitType, BookType, OtherType
<1>15. CASE ApplyConfig
  BY <1>15 DEF ApplyConfig, TypeOK, LoopType, EntryType, ExitType, BookType, OtherType
<1>16. CASE CacheExpires
  BY <1>16 DEF CacheExpires, TypeOK, LoopType, EntryType, ExitType, BookType, OtherType
<1>17. CASE NewDay
  BY <1>17 DEF NewDay, TypeOK, LoopType, EntryType, ExitType, BookType, OtherType
<1>18. CASE ClearHistory
  <2>1. DOMAIN row' = {}
    BY <1>18 DEF ClearHistory
  <2> QED BY <1>18, <2>1
          DEF ClearHistory, TypeOK, LoopType, EntryType, ExitType, BookType, OtherType
<1>19. CASE Restart
  <2>1. DOMAIN open' = {} /\ DOMAIN exit' = {} /\ DOMAIN stopping' = {}
    BY <1>19 DEF Restart
  <2>2. stray' \subseteq Symbol
    <3>1. PICK filled \in SUBSET {target[e] : e \in {x \in Entry : at[x] = "order"}} :
            stray' = stray \cup filled
                  \cup {open[i].symbol :
                          i \in {j \in DOMAIN open : open[j].live /\ closeOrders[j] = 0}}
      BY <1>19 DEF Restart
    <3>2. filled \subseteq Symbol
      BY DEF TypeOK, EntryType
    <3> QED BY <3>1, <3>2 DEF TypeOK, BookType, OtherType, Position
  <2>3. EntryType'
    BY <1>19, SetAssumption DEF Restart, EntryType, Entry
  <2> QED BY <1>19, <2>1, <2>2, <2>3
          DEF Restart, TypeOK, LoopType, ExitType, BookType, OtherType
<1> QED BY <1>1, <1>2, <1>3, <1>4, <1>5, <1>6, <1>7, <1>8, <1>9, <1>10, <1>11, <1>12,
           <1>13, <1>14, <1>15, <1>16, <1>17, <1>18, <1>19

(* The inductive step of type correctness. *)
LEMMA NextTypes == TypeOK /\ [Next]_vars => TypeOK'
<1> SUFFICES ASSUME TypeOK, [Next]_vars PROVE TypeOK'
  OBVIOUS
<1>1. ASSUME NEW e \in Entry, EntryStep(e) PROVE TypeOK'
  BY <1>1, EntryStepTypes
<1>2. ASSUME NEW e \in ScanTask, ScanStep(e) PROVE TypeOK'
  BY <1>2, ScanStepTypes
<1>3. ASSUME NEW k \in ExitKey, ExitStep(k) PROVE TypeOK'
  BY <1>3, ExitStepTypes
<1>4. ASSUME NEW i \in Id, UserCloses(i) \/ PanicCloses(i) \/ TickCloses(i) \/ RoundCloses(i)
      PROVE  TypeOK'
  BY <1>4, CallerTypes
<1>5. CASE UNCHANGED vars
  BY <1>5 DEF vars, entryVars, exitVars, loopVars, dataVars, moneyVars,
              TypeOK, LoopType, EntryType, ExitType, BookType, OtherType
<1> QED BY <1>1, <1>2, <1>3, <1>4, <1>5, OtherTypes DEF Next

(* Every variable keeps its type, in every execution of the engine. *)
THEOREM TypeCorrect == Spec => []TypeOK
BY InitTypes, NextTypes, PTL DEF Spec

-----------------------------------------------------------------------------
(* The engine implements the ledger *)

(* Mutual exclusion: an entry that awaits its price or its order holds      *)
(* _entry_lock.                                                             *)
LockHeld == \A e \in Waiting : entryLock = e

(* What a step of the engine has to show: it keeps the lock discipline and  *)
(* is a step of the ledger or none.                                         *)
LedgerKept == LockHeld' /\ [Ledger!Next]_(Ledger!ledgerVars)

(* A step that touches neither the managed trades nor a waiting entry.      *)
LEMMA QuietStep ==
    ASSUME LockHeld,
           DOMAIN open' = DOMAIN open, \A i \in DOMAIN open : open'[i] = open[i],
           Waiting' = Waiting, \A e \in Waiting : target'[e] = target[e],
           \A e \in Waiting : entryLock = e => entryLock' = e
    PROVE  LedgerKept
<1>1. LockHeld'
  BY DEF LockHeld
<1>2. {target'[e] : e \in Waiting'} = {target[e] : e \in Waiting}
  OBVIOUS
<1>3. [i \in DOMAIN open' |-> open'[i].symbol] = [i \in DOMAIN open |-> open[i].symbol]
  OBVIOUS
<1>4. UNCHANGED Ledger!ledgerVars
  BY <1>2, <1>3 DEF Ledger!ledgerVars
<1> QED BY <1>1, <1>4 DEF LedgerKept

(* An entry that is given up, whether it waited or not. *)
LEMMA GiveUpStep ==
    ASSUME TypeOK, LockHeld, NEW e \in Entry, Leave(e) \/ Fail(e), UNCHANGED open
    PROVE  LedgerKept
<1>1. /\ at' = [at EXCEPT ![e] = at'[e]]
      /\ at'[e] \in {"pick", "idle"}
      /\ \A x \in Entry : x # e => target'[x] = target[x]
      /\ entryLock' = IF entryLock = e THEN None ELSE entryLock
  BY DEF Leave, Fail, TypeOK, EntryType
<1>2. Waiting' = Waiting \ {e}
  BY <1>1 DEF Waiting, TypeOK, EntryType
<1>3. LockHeld'
  BY <1>1, <1>2 DEF LockHeld
<1>4. CASE e \in Waiting
  <2>1. Waiting = {e} /\ Waiting' = {}
    BY <1>2, <1>4 DEF LockHeld
  <2>2. {target[x] : x \in Waiting} = {target[e]} /\ {target'[x] : x \in Waiting'} = {}
    BY <2>1
  <2>3. Ledger!Withdraw
    BY <2>2 DEF Ledger!Withdraw
  <2> QED BY <1>3, <2>3 DEF LedgerKept, Ledger!Next
<1>5. CASE e \notin Waiting
  <2>1. Waiting' = Waiting /\ \A x \in Waiting : x \in Entry /\ x # e
    BY <1>2, <1>5 DEF Waiting
  <2>2. \A x \in Waiting : target'[x] = target[x] /\ (entryLock = x => entryLock' = x)
    BY <1>1, <2>1
  <2> QED BY <2>1, <2>2, QuietStep
<1> QED BY <1>4, <1>5

(* The ledger counts as the engine does. *)
LEMMA SameCount == \A S : Ledger!Cardinality(S) = Cardinality(S)
BY DEF Ledger!Cardinality, Cardinality

(* The guards of an entry are those of the ledger. *)
LEMMA AdmissibleMaps ==
    ASSUME TypeOK, NEW s \in Symbol, Admissible(s)
    PROVE  Ledger!AdmissibleNow(s)
<1>1. ~Ledger!Held(s)
  BY DEF Admissible, Taken, Managed, Ledger!Held
<1>2. Cardinality(DOMAIN open) < MaxConcurrent
  <2>1. IsFiniteSet(Id)
    BY FS_Interval, NumberAssumption DEF Id
  <2>2. DOMAIN open \cup OpenRows \in SUBSET Id
    BY DEF OpenRows, TypeOK, BookType
  <2>3. IsFiniteSet(DOMAIN open \cup OpenRows)
    BY <2>1, <2>2, FS_Subset
  <2>4. Cardinality(DOMAIN open) <= OpenCount
    BY <2>3, FS_Subset DEF OpenCount
  <2>5. Cardinality(DOMAIN open) \in Nat /\ OpenCount \in Nat
    BY <2>1, <2>2, <2>3, FS_Subset, FS_CardinalityType DEF OpenCount, TypeOK, BookType
  <2>6. OpenCount < cap /\ cap \in 1..MaxConcurrent
    BY DEF Admissible, HasRoom, TypeOK, OtherType
  <2> QED BY <2>4, <2>5, <2>6, NumberAssumption
<1>3. DOMAIN [i \in DOMAIN open |-> open[i].symbol] = DOMAIN open
  OBVIOUS
<1> QED BY <1>1, <1>2, <1>3, SameCount DEF Ledger!AdmissibleNow

(* No entry waits while the lock is free. *)
LEMMA FreeLockMeansNoClaim ==
    ASSUME LockHeld, LockFree
    PROVE  Waiting = {}
BY Identities DEF LockHeld, LockFree, Waiting

(* An entry that goes on waiting, or starts to after its guards passed. *)
LEMMA AdmitStep ==
    ASSUME TypeOK, LockHeld, NEW e \in Entry, target[e] \in Symbol,
           e \in Waiting \/ (LockFree /\ Admissible(target[e])),
           at' = [at EXCEPT ![e] = "price"] \/ at' = [at EXCEPT ![e] = "order"],
           entryLock' = e, UNCHANGED <<target, open>>
    PROVE  LedgerKept
<1>1. Waiting' = Waiting \cup {e}
  BY DEF Waiting, TypeOK, EntryType
<1>2. Waiting \subseteq {e}
  BY FreeLockMeansNoClaim DEF LockHeld
<1>3. CASE e \in Waiting
  BY <1>1, <1>2, <1>3, QuietStep
<1>4. CASE e \notin Waiting
  <2>1. Waiting = {} /\ Waiting' = {e}
    BY <1>1, <1>2, <1>4
  <2>2. {target[x] : x \in Waiting} = {} /\ {target'[x] : x \in Waiting'} = {target[e]}
    BY <2>1
  <2>3. Ledger!AdmissibleNow(target[e])
    BY <1>4, AdmissibleMaps
  <2>4. PICK s \in Symbol : s = target[e]
    OBVIOUS
  <2>5. LockHeld'
    BY <2>1 DEF LockHeld
  <2>6. Ledger!Next
    BY <2>2, <2>3, <2>4 DEF Ledger!Next, Ledger!Admit
  <2> QED BY <2>5, <2>6 DEF LedgerKept
<1> QED BY <1>3, <1>4

(* An entry that is recorded. *)
LEMMA RecordStep ==
    ASSUME TypeOK, LockHeld, NEW e \in Entry, target[e] \in Symbol,
           e \in Waiting \/ (LockFree /\ Admissible(target[e])),
           NEW live \in BOOLEAN, Record(e, live)
    PROVE  LedgerKept
<1> DEFINE n == NextId
           t == [symbol |-> target[e], live |-> live]
<1>1. n \in Id /\ open' = Put(open, n, t) /\ Leave(e)
  BY DEF Record
<1>2. t.symbol = target[e]
  OBVIOUS
<1> HIDE DEF n, t
<1>3. /\ at' = [at EXCEPT ![e] = at'[e]]
      /\ at'[e] \in {"pick", "idle"}
      /\ entryLock' = IF entryLock = e THEN None ELSE entryLock
  BY <1>1 DEF Leave, TypeOK, EntryType
<1>4. Waiting' = Waiting \ {e}
  BY <1>3 DEF Waiting, TypeOK, EntryType
<1>5. Waiting \subseteq {e}
  BY FreeLockMeansNoClaim DEF LockHeld
<1>6. Waiting' = {}
  BY <1>4, <1>5
<1>7. LockHeld'
  BY <1>6 DEF LockHeld
<1>8. /\ DOMAIN open' = DOMAIN open \cup {n}
      /\ open'[n] = t
      /\ \A i \in DOMAIN open : i # n => open'[i] = open[i]
  BY <1>1 DEF Put
<1>9. [i \in DOMAIN open' |-> open'[i].symbol]
        = [j \in DOMAIN [i \in DOMAIN open |-> open[i].symbol] \cup {n} |->
             IF j = n THEN target[e] ELSE [i \in DOMAIN open |-> open[i].symbol][j]]
  BY <1>2, <1>8
<1>10. {target'[x] : x \in Waiting'} = {}
  BY <1>6
<1>11. \/ {target[x] : x \in Waiting} = {target[e]}
       \/ {target[x] : x \in Waiting} = {} /\ Ledger!AdmissibleNow(target[e])
  <2>1. CASE e \in Waiting
    BY <1>5, <2>1
  <2>2. CASE LockFree /\ Admissible(target[e])
    BY <2>2, FreeLockMeansNoClaim, AdmissibleMaps
  <2> QED BY <2>1, <2>2
<1>12. PICK i \in Ledger!TradeId, s \in Symbol : i = n /\ s = target[e]
  BY <1>1 DEF Ledger!TradeId, Id
<1>13. Ledger!Enter(i, s)
  BY <1>9, <1>10, <1>11, <1>12 DEF Ledger!Enter
<1>14. Ledger!Next
  BY <1>13 DEF Ledger!Next
<1> QED BY <1>7, <1>14 DEF LedgerKept

(* An entry from its price on. *)
LEMMA PlaceStep ==
    ASSUME TypeOK, LockHeld, NEW e \in Entry, target[e] \in Symbol,
           e \in Waiting \/ (LockFree /\ Admissible(target[e])),
           NEW mode, Place(e, mode)
    PROVE  LedgerKept
<1>1. CASE mode = "paper" /\ Record(e, FALSE)
  BY <1>1, RecordStep
<1>2. CASE mode = "paper" /\ RecordFails(e, FALSE)
  BY <1>2, GiveUpStep DEF RecordFails
<1>3. CASE mode # "paper"
  <2>1. /\ at' = [at EXCEPT ![e] = "order"] /\ entryLock' = e
        /\ UNCHANGED <<target, open>>
    BY <1>3 DEF Place
  <2> QED BY <2>1, AdmitStep
<1> QED BY <1>1, <1>2, <1>3 DEF Place

(* A trade leaves the managed ones, or none does. *)
LEMMA CloseStep ==
    ASSUME TypeOK, LockHeld, UNCHANGED <<at, target, entryLock>>, NEW k \in ExitKey,
           open' = open \/ open' = Drop(open, k[2])
    PROVE  LedgerKept
<1>1. Waiting' = Waiting
  BY DEF Waiting
<1>2. CASE open' = open \/ k[2] \notin DOMAIN open
  <2>1. DOMAIN open' = DOMAIN open /\ \A i \in DOMAIN open : open'[i] = open[i]
    BY <1>2 DEF Drop
  <2> QED BY <1>1, <2>1, QuietStep
<1>3. CASE open' = Drop(open, k[2]) /\ k[2] \in DOMAIN open
  <2> DEFINE b == [i \in DOMAIN open |-> open[i].symbol]
  <2>1. PICK i \in Ledger!TradeId : i = k[2]
    BY <1>3 DEF Ledger!TradeId, Id, TypeOK, BookType
  <2>2. DOMAIN open' = DOMAIN open \ {i} /\ \A x \in DOMAIN open' : open'[x] = open[x]
    BY <1>3, <2>1 DEF Drop
  <2>3. [x \in DOMAIN open' |-> open'[x].symbol] = [j \in DOMAIN b \ {i} |-> b[j]]
    BY <2>2
  <2>4. {target'[e] : e \in Waiting'} = {target[e] : e \in Waiting}
    BY <1>1
  <2>5. Ledger!Settle(i)
    BY <1>3, <2>1, <2>3, <2>4 DEF Ledger!Settle
  <2>6. Ledger!Next
    BY <2>5 DEF Ledger!Next
  <2>7. LockHeld'
    BY <1>1 DEF LockHeld
  <2> QED BY <2>6, <2>7 DEF LedgerKept
<1> QED BY <1>2, <1>3

(* What an exit does to the entries and to the managed trades: nothing, but *)
(* for the trade it closes.                                                 *)
LEMMA SettleOpen ==
    ASSUME NEW k, NEW t, Settle(k, t)
    PROVE  /\ UNCHANGED <<at, target, entryLock>>
           /\ open' = open \/ open' = Drop(open, k[2])
BY DEF Settle, Commit, CommitFails, entryVars

(* A call of close_trade keeps the ledger. *)
LEMMA CloseTradeStep ==
    ASSUME TypeOK, LockHeld, NEW k \in ExitKey, CloseTrade(k)
    PROVE  LedgerKept
<1>1. /\ UNCHANGED <<at, target, entryLock>>
      /\ open' = open \/ open' = Drop(open, k[2])
  BY SettleOpen DEF CloseTrade, entryVars
<1> QED BY <1>1, CloseStep

(* So does each later step of an exit. *)
LEMMA ExitStepStep ==
    ASSUME TypeOK, LockHeld, NEW k \in ExitKey, ExitStep(k)
    PROVE  LedgerKept
<1>1. /\ UNCHANGED <<at, target, entryLock>>
      /\ open' = open \/ open' = Drop(open, k[2])
  <2>1. CASE ExitPriced(k)
    BY <2>1, SettleOpen DEF ExitPriced
  <2>2. CASE CloseOrdered(k)
    BY <2>2 DEF CloseOrdered, Commit, CommitFails, entryVars
  <2>3. CASE ExitGivesUp(k) \/ CloseOrderFails(k)
    BY <2>3 DEF ExitGivesUp, CloseOrderFails, entryVars
  <2> QED BY <2>1, <2>2, <2>3 DEF ExitStep
<1> QED BY <1>1, CloseStep

(* A step of an entry. *)
LEMMA EntryStepStep ==
    ASSUME TypeOK, LockHeld, NEW e \in Entry, EntryStep(e)
    PROVE  LedgerKept
<1>1. CASE Refreshed(e)
  <2>1. CASE Leave(e)
    BY <1>1, <2>1, GiveUpStep DEF Refreshed
  <2>2. CASE at' = [at EXCEPT ![e] = "lock"] /\ UNCHANGED <<target, left, cancelled, entryLock>>
    <3>1. Waiting' = Waiting
      BY <1>1, <2>2 DEF Refreshed, Waiting, TypeOK, EntryType
    <3> QED BY <1>1, <2>2, <3>1, QuietStep DEF Refreshed
  <2> QED BY <1>1, <2>1, <2>2 DEF Refreshed
<1>2. CASE Reject(e)
  BY <1>2, GiveUpStep DEF Reject
<1>3. CASE Admit(e)
  <2>1. target[e] \in Symbol /\ LockFree /\ Admissible(target[e])
    BY <1>3 DEF Admit, TypeOK, EntryType
  <2>2. CASE TickFeed
    BY <1>3, <2>1, <2>2, PlaceStep DEF Admit
  <2>3. CASE ~TickFeed
    <3>1. at' = [at EXCEPT ![e] = "price"] /\ entryLock' = e /\ UNCHANGED <<target, open>>
      BY <1>3, <2>3 DEF Admit
    <3> QED BY <2>1, <3>1, AdmitStep
  <2> QED BY <2>2, <2>3
<1>4. CASE Priced(e)
  <2>1. target[e] \in Symbol /\ e \in Waiting
    BY <1>4 DEF Priced, Waiting, TypeOK, EntryType
  <2>2. CASE \E mode \in Modes : Place(e, mode)
    BY <2>1, <2>2, PlaceStep
  <2>3. CASE (Leave(e) \/ Fail(e)) /\ UNCHANGED open
    BY <2>3, GiveUpStep
  <2> QED BY <1>4, <2>2, <2>3 DEF Priced
<1>5. CASE Ordered(e)
  <2>1. target[e] \in Symbol /\ e \in Waiting
    BY <1>5 DEF Ordered, Waiting, TypeOK, EntryType
  <2>2. CASE Record(e, TRUE)
    BY <2>1, <2>2, RecordStep
  <2>3. CASE RecordFails(e, TRUE)
    BY <2>3, GiveUpStep DEF RecordFails
  <2> QED BY <1>5, <2>2, <2>3 DEF Ordered
<1>6. CASE OrderFails(e)
  BY <1>6, GiveUpStep DEF OrderFails
<1> QED BY <1>1, <1>2, <1>3, <1>4, <1>5, <1>6 DEF EntryStep

(* A step of a scan. *)
LEMMA ScanStepStep ==
    ASSUME TypeOK, LockHeld, NEW e \in ScanTask, ScanStep(e)
    PROVE  LedgerKept
<1>0. e \in Entry
  BY Identities
<1>1. CASE Fail(e)
  BY <1>0, <1>1, GiveUpStep DEF ScanStep, Candidates, Pick, ScanCancelled, CancelSwallowed
<1>2. CASE ~Fail(e)
  <2>1. /\ e \notin Waiting => target' = [target EXCEPT ![e] = target'[e]]
        /\ Waiting' = Waiting
        /\ e \in Waiting => UNCHANGED target
        /\ UNCHANGED <<open, entryLock>>
    <3>1. CASE Candidates(e)
      BY <1>0, <1>2, <3>1 DEF Candidates, Waiting, TypeOK, EntryType
    <3>2. CASE Pick(e)
      BY <1>0, <1>2, <3>2 DEF Pick, Knock, Waiting, TypeOK, EntryType
    <3>3. CASE CancelSwallowed(e)
      BY <1>0, <3>3 DEF CancelSwallowed, Waiting, TypeOK, EntryType
    <3> QED BY <1>2, <3>1, <3>2, <3>3 DEF ScanStep, ScanCancelled
  <2>2. \A x \in Waiting : target'[x] = target[x]
    BY <2>1 DEF Waiting, TypeOK, EntryType
  <2> QED BY <2>1, <2>2, QuietStep
<1> QED BY <1>1, <1>2

(* Every other step. *)
LEMMA OtherStep ==
    ASSUME TypeOK, LockHeld,
           \/ \E e \in Manual, s \in Symbol : ManualEntry(e, s)
           \/ \E i \in Id : RoundPasses(i) \/ RoundRefreshes(i) \/ RowCloses(i)
           \/ PanicAgain
           \/ \E s \in Symbol : Tick(s) \/ GoStale(s) \/ TickChecked(s) \/ UserRecords(s)
           \/ \E k \in ExitKey \cup {UserStop} : StopReturns(k)
           \/ BeginRound \/ EndRound \/ EndLoop \/ Start \/ Stop
           \/ ApplyConfig \/ CacheExpires \/ NewDay \/ ClearHistory \/ Restart
    PROVE  LedgerKept
<1>1. CASE \E e \in Manual, s \in Symbol : ManualEntry(e, s)
  <2>1. PICK e \in Manual, s \in Symbol : ManualEntry(e, s)
    BY <1>1
  <2>2. e \in Entry /\ Knock(s) \notin {"price", "order"}
    BY DEF Entry, Knock
  <2>3. Waiting' = Waiting /\ e \notin Waiting
    BY <2>1, <2>2 DEF ManualEntry, Waiting, TypeOK, EntryType
  <2>4. \A x \in Waiting : target'[x] = target[x]
    BY <2>1, <2>3 DEF ManualEntry, Waiting, TypeOK, EntryType
  <2> QED BY <2>1, <2>3, <2>4, QuietStep DEF ManualEntry
<1>2. CASE EndRound
  <2>1. Waiting' = Waiting
    BY <1>2, Identities DEF EndRound, Waiting, TypeOK, EntryType
  <2> QED BY <1>2, <2>1, QuietStep DEF EndRound
<1>3. CASE Restart
  <2>1. Waiting' = {} /\ open' = <<>>
    BY <1>3 DEF Restart, Waiting
  <2>2. [i \in DOMAIN open' |-> open'[i].symbol] = <<>>
    BY <2>1
  <2>3. {target'[e] : e \in Waiting'} = {}
    BY <2>1
  <2>4. Ledger!Forget
    BY <2>2, <2>3 DEF Ledger!Forget
  <2>5. Ledger!Next
    BY <2>4 DEF Ledger!Next
  <2>6. LockHeld'
    BY <2>1 DEF LockHeld
  <2> QED BY <2>5, <2>6 DEF LedgerKept
<1>4. CASE UNCHANGED <<at, target, entryLock, open>>
  BY <1>4, QuietStep DEF Waiting
<1>5. CASE \/ \E i \in Id : RoundPasses(i) \/ RoundRefreshes(i) \/ RowCloses(i)
           \/ PanicAgain
           \/ \E s \in Symbol : Tick(s) \/ GoStale(s) \/ TickChecked(s) \/ UserRecords(s)
           \/ \E k \in ExitKey \cup {UserStop} : StopReturns(k)
           \/ BeginRound \/ EndLoop \/ Start \/ Stop
           \/ ApplyConfig \/ CacheExpires \/ NewDay \/ ClearHistory
  <2>1. UNCHANGED <<at, target, entryLock, open>>
    BY <1>5 DEF RoundPasses, RoundRefreshes, RowCloses, PanicAgain, Tick, GoStale,
                TickChecked, UserRecords, StopReturns, BeginRound, EndLoop, Start, Stop,
                ApplyConfig, CacheExpires, NewDay, ClearHistory, entryVars
  <2> QED BY <1>4, <2>1
<1> QED BY <1>1, <1>2, <1>3, <1>5

(* The inductive step of the refinement. *)
LEMMA NextKeepsLedger == TypeOK /\ LockHeld /\ [Next]_vars => LedgerKept
<1> SUFFICES ASSUME TypeOK, LockHeld, [Next]_vars PROVE LedgerKept
  OBVIOUS
<1>1. ASSUME NEW e \in Entry, EntryStep(e) PROVE LedgerKept
  BY <1>1, EntryStepStep
<1>2. ASSUME NEW e \in ScanTask, ScanStep(e) PROVE LedgerKept
  BY <1>2, ScanStepStep
<1>3. ASSUME NEW k \in ExitKey, ExitStep(k) PROVE LedgerKept
  BY <1>3, ExitStepStep
<1>4. ASSUME NEW i \in Id, UserCloses(i) \/ PanicCloses(i) \/ TickCloses(i) \/ RoundCloses(i)
      PROVE  LedgerKept
  <2>1. PICK c \in Caller : CloseTrade(<<c, i>>)
    BY <1>4 DEF UserCloses, PanicCloses, TickCloses, RoundCloses, Caller
  <2> QED BY <2>1, Identities, CloseTradeStep
<1>5. CASE UNCHANGED vars
  <2>1. UNCHANGED <<at, target, entryLock, open>>
    BY <1>5 DEF vars, entryVars
  <2> QED BY <2>1, QuietStep DEF Waiting
<1> QED BY <1>1, <1>2, <1>3, <1>4, <1>5, OtherStep DEF Next

(* Initially nothing is managed and nothing is admitted. *)
LEMMA InitKeepsLedger == Init => LockHeld /\ Ledger!Init
<1> SUFFICES ASSUME Init PROVE LockHeld /\ Ledger!Init
  OBVIOUS
<1>1. Waiting = {} /\ open = <<>>
  BY DEF Init, Waiting
<1>2. [i \in DOMAIN open |-> open[i].symbol] = <<>> /\ {target[e] : e \in Waiting} = {}
  BY <1>1
<1> QED BY <1>1, <1>2 DEF LockHeld, Ledger!Init

(* Every execution of the engine is one of the ledger. *)
THEOREM LedgerImplemented == Spec => KeepsLedger
<1>1. TypeOK /\ LockHeld /\ [Next]_vars => LockHeld' /\ [Ledger!Next]_(Ledger!ledgerVars)
  BY NextKeepsLedger DEF LedgerKept
<1> QED BY <1>1, InitTypes, NextTypes, InitKeepsLedger, PTL DEF Spec, KeepsLedger, Ledger!Spec

(* The theorems of the ledger, read for the engine. *)
LedgerProofs == INSTANCE TradeLedgerProofs
                  WITH book  <- [i \in DOMAIN open |-> open[i].symbol],
                       claim <- {target[e] : e \in Waiting}

(* What the ledger promises holds of the trades of the engine. *)
LEMMA LedgerPromises ==
    Ledger!Spec => [](LedgerProofs!OneTradePerSymbol /\ LedgerProofs!WithinCapacity)
<1>1. LedgerProofs!Init <=> Ledger!Init
  BY DEF LedgerProofs!Init, Ledger!Init
<1>2. \A S : LedgerProofs!Cardinality(S) = Ledger!Cardinality(S)
  BY DEF Ledger!Cardinality, LedgerProofs!Cardinality
<1>3. [LedgerProofs!Next]_(LedgerProofs!ledgerVars) <=> [Ledger!Next]_(Ledger!ledgerVars)
  BY <1>2
     DEF LedgerProofs!ledgerVars, LedgerProofs!Next, LedgerProofs!Admit,
         LedgerProofs!Withdraw, LedgerProofs!Enter, LedgerProofs!Settle,
         LedgerProofs!Forget, LedgerProofs!AdmissibleNow, LedgerProofs!Held,
         LedgerProofs!TradeId,
         Ledger!ledgerVars, Ledger!Next, Ledger!Admit, Ledger!Withdraw, Ledger!Enter,
         Ledger!Settle, Ledger!Forget, Ledger!AdmissibleNow, Ledger!Held, Ledger!TradeId
<1>4. LedgerProofs!Spec <=> Ledger!Spec
  BY <1>1, <1>3, PTL DEF LedgerProofs!Spec, Ledger!Spec
<1>5. LedgerProofs!LedgerConstants
  BY NumberAssumption DEF LedgerProofs!LedgerConstants
<1> QED BY <1>4, <1>5, LedgerProofs!LedgerSafe, PTL

(* The engine never manages two trades of one symbol. *)
THEOREM TradesDistinct == Spec => []OneTradePerSymbol
<1>1. LedgerProofs!OneTradePerSymbol => OneTradePerSymbol
  BY DEF LedgerProofs!OneTradePerSymbol, OneTradePerSymbol
<1> QED BY <1>1, LedgerPromises, LedgerImplemented, PTL DEF KeepsLedger

(* The managed trades never outnumber the largest capacity, even though an  *)
(* entry counts them before it waits and registers its trade afterwards.    *)
THEOREM CapacityKept == Spec => []CapacityRespected
<1>1. TypeOK /\ LedgerProofs!WithinCapacity => CapacityRespected
  <2> SUFFICES ASSUME TypeOK, LedgerProofs!WithinCapacity PROVE CapacityRespected
    OBVIOUS
  <2>1. Cardinality(DOMAIN open) \in Nat
    <3>1. IsFiniteSet(Id)
      BY FS_Interval, NumberAssumption DEF Id
    <3> QED BY <3>1, FS_Subset, FS_CardinalityType DEF TypeOK, BookType
  <2>2. \A S : LedgerProofs!Cardinality(S) = Cardinality(S)
    BY DEF LedgerProofs!Cardinality, Cardinality
  <2>3. DOMAIN [i \in DOMAIN open |-> open[i].symbol] = DOMAIN open
    OBVIOUS
  <2> QED BY <2>1, <2>2, <2>3, NumberAssumption
          DEF LedgerProofs!WithinCapacity, CapacityRespected
<1> QED BY <1>1, LedgerPromises, LedgerImplemented, TypeCorrect, PTL DEF KeepsLedger
=============================================================================
