---------------------------- MODULE StagedTrades ----------------------------
(***************************************************************************)
(* What the trade table promises of every trade in it, without the rounds  *)
(* of the monitor, the copies they work on, the prices or the engine.  A   *)
(* trade is sold in equal parts, one for each target but the last, in the  *)
(* order of the targets, and a close sells what is left of it.  A closed   *)
(* trade is never written again, a live one is sold by the engine alone    *)
(* and in one piece, and only clearing the history removes anything.       *)
(***************************************************************************)
EXTENDS Naturals

CONSTANTS
    Ids,    \* ids of trades
    Whole   \* the quantity of a new trade

VARIABLE
    trades  \* of each id, its trade

Nothing == [stage |-> "none", mode |-> "paper", targets |-> 1, next |-> 0,
            left |-> 0, sold |-> 0, by |-> "nobody"]

(* What is sold at a target. *)
Share(t) == Whole \div t.targets

(* A trade when it is entered, with one target more behind it, and closed.   *)
Entered(mode, n) ==
    [stage |-> "open", mode |-> mode, targets |-> n, next |-> 0,
     left |-> Whole, sold |-> 0, by |-> "nobody"]

OneSold(t) == [t EXCEPT !.next = t.next + 1, !.left = t.left - Share(t), !.sold = t.sold + Share(t)]

AllSold(t, who) == [t EXCEPT !.stage = "closed", !.left = 0, !.sold = t.sold + t.left, !.by = who]

-----------------------------------------------------------------------------
Init == trades = [i \in Ids |-> Nothing]

Enter(i) ==
    /\ trades[i] = Nothing
    /\ \E mode \in {"paper", "live"}, n \in 1..3 : trades' = [trades EXCEPT ![i] = Entered(mode, n)]

SellTarget(i) ==
    /\ trades[i].stage = "open" /\ trades[i].mode = "paper"
    /\ trades[i].next + 1 < trades[i].targets /\ Share(trades[i]) < trades[i].left
    /\ trades' = [trades EXCEPT ![i] = OneSold(trades[i])]

Close(i) ==
    /\ trades[i].stage = "open"
    /\ \E who \in {"monitor", "user", "engine"} :
          /\ trades[i].mode = "live" => who = "engine"
          /\ trades' = [trades EXCEPT ![i] = AllSold(trades[i], who)]

Clear == trades' = [i \in Ids |-> Nothing]

Next == Clear \/ \E i \in Ids : Enter(i) \/ SellTarget(i) \/ Close(i)

Spec == Init /\ [][Next]_trades

-----------------------------------------------------------------------------
(* The parts sold before the close are as many shares as there are targets   *)
(* behind the trade, and with what is left they are the whole.               *)
SoldInShares ==
    \A i \in Ids :
        /\ trades[i].stage = "open" => trades[i].sold = trades[i].next * Share(trades[i])
        /\ trades[i].stage # "none" => trades[i].sold + trades[i].left = Whole
=============================================================================
