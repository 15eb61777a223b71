-------------------------- MODULE TradeLedgerProofs --------------------------
(***************************************************************************)
(* The two promises of TradeLedger, proved for any number of symbols and   *)
(* trades and any capacity.                                                *)
(***************************************************************************)
EXTENDS TradeLedger, FiniteSetTheorems, TLAPS

(* The inductive invariant: capacity counts the pending admission, and an  *)
(* admission excludes every trade of its symbol.                           *)
LedgerInv == LedgerType /\ ClaimIsFree /\ OneTradePerSymbol /\ WithinCapacity

(* How many trades there are after one was added or removed. *)
LEMMA BookSize ==
    ASSUME LedgerConstants, NEW D \in SUBSET TradeId
    PROVE  /\ IsFiniteSet(D) /\ Cardinality(D) \in Nat
           /\ \A i \in TradeId : Cardinality(D \cup {i}) <= Cardinality(D) + 1
           /\ \A i \in TradeId : Cardinality(D \ {i}) <= Cardinality(D)
<1>1. IsFiniteSet(TradeId)
  BY FS_Interval DEF TradeId, LedgerConstants
<1>2. IsFiniteSet(D) /\ Cardinality(D) \in Nat
  BY <1>1, FS_Subset, FS_CardinalityType
<1>3. ASSUME NEW i \in TradeId PROVE Cardinality(D \cup {i}) <= Cardinality(D) + 1
  BY <1>2, FS_AddElement
<1>4. ASSUME NEW i \in TradeId PROVE Cardinality(D \ {i}) <= Cardinality(D)
  BY <1>2, FS_RemoveElement
<1> QED BY <1>2, <1>3, <1>4

(* Initially there is neither a trade nor an admission. *)
LEMMA LedgerInit == LedgerConstants /\ Init => LedgerInv
<1> SUFFICES ASSUME LedgerConstants, Init PROVE LedgerInv
  OBVIOUS
<1> USE DEF LedgerConstants
<1>1. DOMAIN book = {} /\ claim = {}
  BY DEF Init
<1>2. WithinCapacity
  BY <1>1, FS_EmptySet DEF WithinCapacity
<1> QED BY <1>1, <1>2 DEF LedgerInv, LedgerType, ClaimIsFree, OneTradePerSymbol

(* Every step keeps the invariant. *)
LEMMA LedgerStep == LedgerConstants /\ LedgerInv /\ [Next]_ledgerVars => LedgerInv'
<1> SUFFICES ASSUME LedgerConstants, LedgerInv, [Next]_ledgerVars PROVE LedgerInv'
  OBVIOUS
<1> USE DEF LedgerInv, LedgerConstants
<1>0. Cardinality(DOMAIN book) \in Nat
  BY BookSize DEF LedgerType
<1>1. ASSUME NEW s \in Symbol, Admit(s) PROVE LedgerInv'
  BY <1>0, <1>1
     DEF Admit, AdmissibleNow, Held, LedgerType, ClaimIsFree, OneTradePerSymbol, WithinCapacity
<1>2. CASE Withdraw
  BY <1>0, <1>2
     DEF Withdraw, LedgerType, ClaimIsFree, OneTradePerSymbol, WithinCapacity
<1>3. ASSUME NEW i \in TradeId, NEW s \in Symbol, Enter(i, s) PROVE LedgerInv'
  <2>1. /\ DOMAIN book' = DOMAIN book \cup {i}
        /\ book'[i] = s
        /\ \A j \in DOMAIN book : j # i => book'[j] = book[j]
        /\ claim' = {}
    BY <1>3 DEF Enter
  <2>2. ~Held(s)
    BY <1>3 DEF Enter, AdmissibleNow, ClaimIsFree
  <2>3. Cardinality(DOMAIN book) < MaxConcurrent
    BY <1>0, <1>3 DEF Enter, AdmissibleNow, WithinCapacity
  <2>4. Cardinality(DOMAIN book') <= Cardinality(DOMAIN book) + 1
    BY <2>1, BookSize DEF LedgerType
  <2>5. LedgerType' /\ ClaimIsFree'
    BY <2>1 DEF LedgerType, ClaimIsFree
  <2>6. OneTradePerSymbol'
    BY <2>1, <2>2 DEF Held, OneTradePerSymbol
  <2>7. WithinCapacity'
    <3>1. Cardinality(DOMAIN book') \in Nat
      BY <2>5, BookSize DEF LedgerType
    <3> QED BY <1>0, <2>1, <2>3, <2>4, <3>1 DEF WithinCapacity
  <2> QED BY <2>5, <2>6, <2>7
<1>4. ASSUME NEW i \in TradeId, Settle(i) PROVE LedgerInv'
  <2>1. /\ DOMAIN book' = DOMAIN book \ {i}
        /\ \A j \in DOMAIN book' : book'[j] = book[j]
        /\ claim' = claim
    BY <1>4 DEF Settle
  <2>2. Cardinality(DOMAIN book') <= Cardinality(DOMAIN book)
    BY <2>1, BookSize DEF LedgerType
  <2>3. LedgerType'
    BY <2>1 DEF LedgerType
  <2>4. ClaimIsFree' /\ OneTradePerSymbol'
    BY <2>1 DEF ClaimIsFree, Held, OneTradePerSymbol
  <2>5. WithinCapacity'
    <3>1. Cardinality(DOMAIN book') \in Nat
      BY <2>3, BookSize DEF LedgerType
    <3> QED BY <1>0, <2>1, <2>2, <3>1 DEF WithinCapacity
  <2> QED BY <2>3, <2>4, <2>5
<1>5. CASE Forget
  <2>1. DOMAIN book' = {} /\ claim' = {}
    BY <1>5 DEF Forget
  <2>2. WithinCapacity'
    BY <2>1, FS_EmptySet DEF WithinCapacity
  <2> QED BY <2>1, <2>2 DEF LedgerType, ClaimIsFree, OneTradePerSymbol
<1>6. CASE UNCHANGED ledgerVars
  BY <1>6 DEF ledgerVars, LedgerType, ClaimIsFree, Held, OneTradePerSymbol, WithinCapacity
<1> QED BY <1>1, <1>2, <1>3, <1>4, <1>5, <1>6 DEF Next

(* The ledger never holds two trades of one symbol and never more trades    *)
(* than its capacity.                                                       *)
THEOREM LedgerSafe ==
    ASSUME LedgerConstants
    PROVE  Spec => [](OneTradePerSymbol /\ WithinCapacity)
<1>1. LedgerInv => OneTradePerSymbol /\ WithinCapacity
  BY DEF LedgerInv
<1>2. Init => LedgerInv
  BY LedgerInit
<1>3. LedgerInv /\ [Next]_ledgerVars => LedgerInv'
  BY LedgerStep
<1> QED BY <1>1, <1>2, <1>3, PTL DEF Spec
=============================================================================
