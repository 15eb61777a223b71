------------------------ MODULE AutoTraderExitProofs ------------------------
(***************************************************************************)
(* Exits of the engine: at most one per trade is in flight, in every       *)
(* execution, whoever asks for it and whenever.                            *)
(***************************************************************************)
EXTENDS AutoTraderProofs

(* Exits in flight: suspended in close_trade, or waiting for the stop()     *)
(* they have called.                                                        *)
InFlight == DOMAIN exit \cup (DOMAIN stopping \ {UserStop})

(* The inductive invariant.  SingleExit alone is not inductive: an exit     *)
(* that waits for stop() has left `exit' but not `_closing', and only       *)
(* `_closing' keeps a second exit out.                                      *)
ExitInv ==
    /\ DOMAIN exit \cap DOMAIN stopping = {}
    /\ \A k \in InFlight : k[2] \in closing
    /\ \A k, l \in InFlight : k[2] = l[2] => k = l

(* An exit goes on, or is new and its trade is not in _closing. *)
Proceeds(k) == k \in DOMAIN exit \/ k[2] \notin closing

(* An exit is suspended, for the first time or once more. *)
LEMMA SuspendKeeps ==
    ASSUME TypeOK, ExitInv, NEW k \in ExitKey, Proceeds(k),
           DOMAIN exit' = DOMAIN exit \cup {k}, closing' = closing \cup {k[2]},
           DOMAIN stopping' = DOMAIN stopping
    PROVE  ExitInv'
BY Identities DEF ExitInv, InFlight, Proceeds

(* An exit ends. *)
LEMMA EndKeeps ==
    ASSUME TypeOK, ExitInv, NEW k \in ExitKey \cup {UserStop},
           k \in ExitKey => Proceeds(k) \/ k \in DOMAIN stopping,
           DOMAIN exit' = DOMAIN exit \ {k}, closing' = closing \ {k[2]},
           \/ DOMAIN stopping' = DOMAIN stopping \ {k}
           \/ DOMAIN stopping' = DOMAIN stopping /\ k \notin DOMAIN stopping
    PROVE  ExitInv'
<1>1. CASE k = UserStop
  BY <1>1, Identities DEF ExitInv, InFlight, UserStop, TypeOK, ExitType
<1>2. CASE k \in ExitKey
  BY <1>2, Identities DEF ExitInv, InFlight, Proceeds
<1> QED BY <1>1, <1>2

(* An exit goes on to wait for stop(). *)
LEMMA HaltKeeps ==
    ASSUME TypeOK, ExitInv, NEW k \in ExitKey, Proceeds(k),
           DOMAIN exit' = DOMAIN exit \ {k}, closing' = closing \cup {k[2]},
           DOMAIN stopping' = DOMAIN stopping \cup {k}
    PROVE  ExitInv'
BY Identities DEF ExitInv, InFlight, Proceeds

(* No exit is touched. *)
LEMMA QuietKeeps ==
    ASSUME ExitInv, DOMAIN exit' = DOMAIN exit, closing' = closing,
           DOMAIN stopping' \cup {UserStop} = DOMAIN stopping \cup {UserStop},
           UserStop \notin DOMAIN exit
    PROVE  ExitInv'
BY DEF ExitInv, InFlight

(* An exit that proceeds is not one that waits for stop(). *)
LEMMA ProceedsNotStopping ==
    ASSUME ExitInv, NEW k \in ExitKey, Proceeds(k)
    PROVE  k \notin DOMAIN stopping
BY Identities DEF ExitInv, InFlight, Proceeds

(* A close that reaches the table, or fails to. *)
LEMMA CommitKeeps ==
    ASSUME TypeOK, ExitInv, NEW k \in ExitKey, Proceeds(k), NEW s,
           Commit(k, s) \/ CommitFails(k)
    PROVE  ExitInv'
<1>1. DOMAIN exit' = DOMAIN exit \ {k}
  BY DEF Commit, CommitFails, Drop
<1>2. k \notin DOMAIN stopping
  BY ProceedsNotStopping
<1>3. CASE UNCHANGED stopping /\ closing' = closing \ {k[2]}
  BY <1>1, <1>2, <1>3, EndKeeps
<1>4. CASE ~(UNCHANGED stopping /\ closing' = closing \ {k[2]})
  <2>1. /\ BeginStop(k, s)
        /\ closing' = IF k \in DOMAIN stopping' THEN closing \cup {k[2]}
                                                ELSE closing \ {k[2]}
    BY <1>4 DEF Commit, CommitFails
  <2>2. ScanAlive
    BY <1>2, <1>4, <2>1 DEF BeginStop
  <2>3. DOMAIN stopping' = DOMAIN stopping \cup {k}
    BY <2>1, <2>2 DEF BeginStop, Put
  <2>4. closing' = closing \cup {k[2]}
    BY <2>1, <2>3
  <2> QED BY <1>1, <2>3, <2>4, HaltKeeps
<1> QED BY <1>3, <1>4

(* An exit from its price on. *)
LEMMA SettleKeeps ==
    ASSUME TypeOK, ExitInv, NEW k \in ExitKey, Proceeds(k), NEW t, Settle(k, t)
    PROVE  ExitInv'
<1>1. CASE t.live
  <2>1. /\ DOMAIN exit' = DOMAIN exit \cup {k}
        /\ closing' = closing \cup {k[2]} /\ UNCHANGED stopping
    BY <1>1 DEF Settle, Put
  <2> QED BY <2>1, SuspendKeeps
<1>2. CASE ~t.live
  BY <1>2, CommitKeeps DEF Settle
<1> QED BY <1>1, <1>2

(* close_trade up to its first suspension. *)
LEMMA CloseTradeKeeps ==
    ASSUME TypeOK, ExitInv, NEW k \in ExitKey, CloseTrade(k)
    PROVE  ExitInv'
<1>1. Proceeds(k)
  BY DEF CloseTrade, MayExit, Proceeds
<1>2. CASE Settle(k, open[k[2]])
  BY <1>1, <1>2, SettleKeeps
<1>3. CASE ~Settle(k, open[k[2]])
  <2>1. /\ DOMAIN exit' = DOMAIN exit \cup {k}
        /\ closing' = closing \cup {k[2]} /\ UNCHANGED stopping
    BY <1>3 DEF CloseTrade, Put
  <2> QED BY <1>1, <2>1, SuspendKeeps
<1> QED BY <1>2, <1>3

(* A step of a suspended exit. *)
LEMMA ExitStepKeeps ==
    ASSUME TypeOK, ExitInv, NEW k \in ExitKey, ExitStep(k)
    PROVE  ExitInv'
<1>1. Proceeds(k) /\ k \notin DOMAIN stopping
  BY ProceedsNotStopping
     DEF ExitStep, ExitPriced, ExitGivesUp, CloseOrdered, CloseOrderFails, Proceeds
<1>2. CASE ExitPriced(k)
  BY <1>1, <1>2, SettleKeeps DEF ExitPriced
<1>3. CASE CloseOrdered(k)
  BY <1>1, <1>3, CommitKeeps DEF CloseOrdered
<1>4. CASE ExitGivesUp(k) \/ CloseOrderFails(k)
  <2>1. /\ DOMAIN exit' = DOMAIN exit \ {k}
        /\ closing' = closing \ {k[2]} /\ UNCHANGED stopping
    BY <1>4 DEF ExitGivesUp, CloseOrderFails, Drop
  <2> QED BY <1>1, <2>1, EndKeeps
<1> QED BY <1>2, <1>3, <1>4 DEF ExitStep

(* The button pressed again, a stop() that returns, and a restart. *)
LEMMA InterruptKeeps ==
    ASSUME TypeOK, ExitInv,
           PanicAgain \/ (\E k \in ExitKey \cup {UserStop} : StopReturns(k)) \/ Restart
    PROVE  ExitInv'
<1>1. CASE PanicAgain
  <2>1. PICK k \in PanicExits :
           /\ exit' = Drop(exit, k)
           /\ stopping' = Drop(stopping, k)
           /\ closing' = closing \ {k[2]}
    BY <1>1 DEF PanicAgain
  <2>2. /\ DOMAIN exit' = DOMAIN exit \ {k}
        /\ DOMAIN stopping' = DOMAIN stopping \ {k}
    BY <2>1 DEF Drop
  <2>3. k \in DOMAIN exit \cup DOMAIN stopping
    BY DEF PanicExits
  <2>4. k \in ExitKey \cup {UserStop}
    BY <2>3 DEF TypeOK, LoopType, ExitType
  <2> QED BY <2>1, <2>2, <2>3, <2>4, EndKeeps DEF Proceeds
<1>2. CASE \E k \in ExitKey \cup {UserStop} : StopReturns(k)
  <2>1. PICK k \in ExitKey \cup {UserStop} : StopReturns(k)
    BY <1>2
  <2>2. /\ k \in DOMAIN stopping
        /\ DOMAIN stopping' = DOMAIN stopping \ {k}
        /\ closing' = closing \ {k[2]}
        /\ UNCHANGED exit
    BY <2>1 DEF StopReturns, Drop
  <2>3. DOMAIN exit \ {k} = DOMAIN exit
    BY <2>2 DEF ExitInv
  <2> QED BY <2>2, <2>3, EndKeeps
<1>3. CASE Restart
  <2>1. DOMAIN exit' = {} /\ DOMAIN stopping' = {}
    BY <1>3 DEF Restart
  <2> QED BY <2>1 DEF ExitInv, InFlight
<1> QED BY <1>1, <1>2, <1>3

(* The inductive step. *)
LEMMA NextKeepsExits == TypeOK /\ ExitInv /\ [Next]_vars => ExitInv'
<1> SUFFICES ASSUME TypeOK, ExitInv, [Next]_vars PROVE ExitInv'
  OBVIOUS
<1>0. UserStop \notin DOMAIN exit
  BY Identities DEF TypeOK, ExitType
<1>1. CASE UNCHANGED <<exit, closing, stopping>>
  BY <1>0, <1>1, QuietKeeps
<1>2. ASSUME NEW k \in ExitKey, ExitStep(k) PROVE ExitInv'
  BY <1>2, ExitStepKeeps
<1>3. ASSUME NEW i \in Id, UserCloses(i) \/ PanicCloses(i) \/ TickCloses(i) \/ RoundCloses(i)
      PROVE  ExitInv'
  <2>1. PICK c \in Caller : CloseTrade(<<c, i>>)
    BY <1>3 DEF UserCloses, PanicCloses, TickCloses, RoundCloses, Caller
  <2> QED BY <2>1, Identities, CloseTradeKeeps
<1>4. CASE Stop
  <2>1. UNCHANGED <<exit, closing>> /\ DOMAIN stopping' \cup {UserStop} = DOMAIN stopping \cup {UserStop}
    BY <1>4 DEF Stop, BeginStop, Put, exitVars
  <2> QED BY <1>0, <2>1, QuietKeeps
<1>5. ASSUME NEW e \in Entry, EntryStep(e) PROVE UNCHANGED <<exit, closing, stopping>>
  BY <1>5 DEF EntryStep, Refreshed, Reject, Admit, Priced, Ordered, OrderFails,
              exitVars, loopVars
<1>6. ASSUME NEW e \in ScanTask, ScanStep(e) PROVE UNCHANGED <<exit, closing, stopping>>
  BY <1>6 DEF ScanStep, Candidates, Pick, ScanCancelled, CancelSwallowed, exitVars, loopVars
<1>7. CASE \/ \E e \in Manual, s \in Symbol : ManualEntry(e, s)
           \/ \E i \in Id : RoundPasses(i) \/ RoundRefreshes(i) \/ RowCloses(i)
           \/ \E s \in Symbol : Tick(s) \/ GoStale(s) \/ TickChecked(s) \/ UserRecords(s)
           \/ BeginRound \/ EndRound \/ EndLoop \/ Start
           \/ ApplyConfig \/ CacheExpires \/ NewDay \/ ClearHistory
  <2>1. UNCHANGED <<exit, closing, stopping>>
    BY <1>7 DEF ManualEntry, RoundPasses, RoundRefreshes, RowCloses, Tick, GoStale,
                TickChecked, UserRecords, BeginRound, EndRound, EndLoop, Start,
                ApplyConfig, CacheExpires, NewDay, ClearHistory, exitVars, loopVars
  <2> QED BY <1>1, <2>1
<1>8. CASE UNCHANGED vars
  BY <1>1, <1>8 DEF vars, exitVars, loopVars
<1> QED BY <1>1, <1>2, <1>3, <1>4, <1>5, <1>6, <1>7, <1>8, InterruptKeeps DEF Next

(* Initially no exit is in flight. *)
LEMMA InitKeepsExits == Init => ExitInv
<1> SUFFICES ASSUME Init PROVE ExitInv
  OBVIOUS
<1>1. DOMAIN exit = {} /\ DOMAIN stopping = {}
  BY DEF Init
<1> QED BY <1>1 DEF ExitInv, InFlight

(* At most one exit of a trade is in flight, whether a tick, the poll loop, *)
(* the user or the emergency button asked for it.                           *)
THEOREM ExitsSingle == Spec => []SingleExit
<1>1. ExitInv => SingleExit
  BY DEF ExitInv, InFlight, SingleExit
<1> QED BY <1>1, InitTypes, NextTypes, InitKeepsExits, NextKeepsExits, PTL DEF Spec
=============================================================================
