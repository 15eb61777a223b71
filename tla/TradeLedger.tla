----------------------------- MODULE TradeLedger -----------------------------
(***************************************************************************)
(* What the automatic trading engine promises about the trades it manages, *)
(* without its coroutines, its lock, its row table or the exchange: a      *)
(* trade is entered only after it was admitted, one admission is pending   *)
(* at a time, and it is given only for a symbol that has no trade and as   *)
(* long as there is room.  Trades may end in any order, and a restart      *)
(* forgets them all.                                                       *)
(***************************************************************************)
EXTENDS Integers, FiniteSets

CONSTANTS
    Symbol,        \* tradable symbols
    MaxTrades,     \* bound: ids of trades
    MaxConcurrent  \* largest number of trades at a time

(* What the theorems about the ledger assume of its constants. *)
LedgerConstants == MaxTrades \in Nat /\ MaxConcurrent \in Nat

VARIABLES
    book,   \* the managed trades: id -> symbol
    claim   \* the symbol admitted and not yet entered, as a set

ledgerVars == <<book, claim>>

TradeId == 1..MaxTrades

Held(s) == \E i \in DOMAIN book : book[i] = s

(* The guards an entry passes under the entry lock. *)
AdmissibleNow(s) == ~Held(s) /\ Cardinality(DOMAIN book) < MaxConcurrent

Init == book = <<>> /\ claim = {}

(* An entry is admitted and goes on to wait for its price or its order. *)
Admit(s) ==
    /\ claim = {}
    /\ AdmissibleNow(s)
    /\ claim' = {s}
    /\ UNCHANGED book

(* It is given up: no price, a refusal, an error or a cancellation. *)
Withdraw ==
    /\ claim # {}
    /\ claim' = {}
    /\ UNCHANGED book

(* It becomes a trade, after its wait or at once; an id that is in use      *)
(* stands for the new trade from now on.                                    *)
Enter(i, s) ==
    /\ \/ claim = {s}
       \/ claim = {} /\ AdmissibleNow(s)
    /\ book' = [j \in DOMAIN book \cup {i} |-> IF j = i THEN s ELSE book[j]]
    /\ claim' = {}

(* A trade is closed. *)
Settle(i) ==
    /\ i \in DOMAIN book
    /\ book' = [j \in DOMAIN book \ {i} |-> book[j]]
    /\ UNCHANGED claim

(* The process is started again. *)
Forget == book' = <<>> /\ claim' = {}

Next == \/ \E s \in Symbol : Admit(s)
        \/ Withdraw
        \/ \E i \in TradeId, s \in Symbol : Enter(i, s)
        \/ \E i \in TradeId : Settle(i)
        \/ Forget

Spec == Init /\ [][Next]_ledgerVars

-----------------------------------------------------------------------------
LedgerType ==
    /\ DOMAIN book \subseteq TradeId
    /\ \A i \in DOMAIN book : book[i] \in Symbol
    /\ claim \subseteq Symbol

(* An admitted symbol has no trade, and no other symbol is admitted: what   *)
(* passed the guards is still true when the trade is entered.               *)
ClaimIsFree ==
    /\ \A s, t \in claim : s = t
    /\ \A s \in claim : ~Held(s)

(* Two trades never have the same symbol. *)
OneTradePerSymbol == \A i, j \in DOMAIN book : book[i] = book[j] => i = j

(* The trades never outnumber the capacity, the one about to be entered     *)
(* included.                                                                *)
WithinCapacity ==
    Cardinality(DOMAIN book) + (IF claim = {} THEN 0 ELSE 1) <= MaxConcurrent
=============================================================================
