-------------------------- MODULE PartsWorkProofs --------------------------
(***************************************************************************)
(* Theorems about the parts that run work on the two threads: the runner   *)
(* of the interface thread's work, and the conversation with the           *)
(* assistant; at the end, that every variable of every part has its type.  *)
(***************************************************************************)
EXTENDS PartsTradeProofs

(* What the parts assume of the constants. *)
LEMMA WorkAssumptions == Runner!RunnerAssumption /\ Talk!ChatAssumption
BY PartsAssumption

(* A step of the whole is a step of each part, or leaves it alone. *)
LEMMA RunnerSteps == [Next]_vars => [Runner!RunnerNext]_(Runner!runnerVars)
BY DEF Next, TicksStep, StreamsStep, CandlesStep, MonitorStep, RunnerStep, LinksStep, SwitchStep,
       ResultsStep, ChatStep, vars, runnerVars, Runner!runnerVars

(* So it is with the conversation. *)
LEMMA ChatSteps == [Next]_vars => [Talk!ChatNext]_(Talk!chatVars)
BY DEF Next, TicksStep, StreamsStep, CandlesStep, MonitorStep, RunnerStep, LinksStep, SwitchStep,
       ResultsStep, ChatStep, vars, chatVars, Talk!chatVars

-----------------------------------------------------------------------------
(* The conversation.  What a turn is, as far as the proofs need it.         *)
Stages == {"asked", "round", "tools", "over", "told"}

TurnRecord == [stage : Stages, home : Convs, left : BOOLEAN, round : Int, tried : Int,
               said : BOOLEAN, given : SUBSET Nat]

ChatTypes ==
    /\ turns \in Seq(TurnRecord)
    /\ current \in Convs \cup {0}
    /\ memory \subseteq DOMAIN turns
    /\ \A t \in DOMAIN turns : turns[t].given \subseteq DOMAIN turns

(* A turn with one field changed is a turn. *)
LEMMA TurnUpdates ==
    ASSUME NEW r \in TurnRecord
    PROVE  /\ \A v \in Stages : [r EXCEPT !.stage = v] \in TurnRecord
           /\ \A v \in BOOLEAN : [r EXCEPT !.left = v] \in TurnRecord
           /\ \A v \in Int : [r EXCEPT !.round = v] \in TurnRecord
           /\ \A v \in Int : [r EXCEPT !.tried = v] \in TurnRecord
           /\ \A v \in BOOLEAN : [r EXCEPT !.said = v] \in TurnRecord
           /\ \A v \in SUBSET Nat : [r EXCEPT !.given = v] \in TurnRecord
BY DEF TurnRecord

(* A turn that was just asked. *)
LEMMA AskedFields ==
    ASSUME NEW c \in Convs
    PROVE  /\ Talk!Asked(c) \in TurnRecord /\ Talk!Asked(c).home = c
           /\ Talk!Asked(c).given = {} /\ Talk!Asked(c).left = FALSE
           /\ Talk!Asked(c).stage = "asked"
BY DEF Talk!Asked, TurnRecord, Stages

(* A turn of which a round begins. *)
LEMMA RoundFields ==
    ASSUME NEW r \in TurnRecord, NEW seen1 \in SUBSET Nat
    PROVE  LET q == [r EXCEPT !.stage = "round", !.round = r.round + 1, !.tried = 1,
                              !.said = FALSE, !.given = seen1]
           IN  /\ q \in TurnRecord /\ q.home = r.home /\ q.left = r.left
               /\ q.given = seen1 /\ q.stage = "round"
<1> DEFINE q1 == [r EXCEPT !.stage = "round"]
           q2 == [q1 EXCEPT !.round = r.round + 1]
           q3 == [q2 EXCEPT !.tried = 1]
           q4 == [q3 EXCEPT !.said = FALSE]
           q5 == [q4 EXCEPT !.given = seen1]
<1>1. q1 \in TurnRecord
  BY TurnUpdates DEF Stages
<1>2. q2 \in TurnRecord
  <2>1. r.round + 1 \in Int
    BY DEF TurnRecord
  <2> HIDE DEF q1
  <2> QED BY <1>1, <2>1, TurnUpdates
<1>3. q3 \in TurnRecord
  <2> HIDE DEF q2
  <2> QED BY <1>2, TurnUpdates
<1>4. q4 \in TurnRecord
  <2> HIDE DEF q3
  <2> QED BY <1>3, TurnUpdates
<1>5. q5 \in TurnRecord
  <2> HIDE DEF q4
  <2> QED BY <1>4, TurnUpdates
<1>6. q5.home = r.home /\ q5.left = r.left /\ q5.given = seen1 /\ q5.stage = "round"
  BY DEF TurnRecord
<1> QED BY <1>5, <1>6

(* A turn that uses its tools. *)
LEMMA ToolsFields ==
    ASSUME NEW r \in TurnRecord
    PROVE  LET q == [r EXCEPT !.stage = "tools", !.tried = 0, !.said = FALSE, !.given = {}]
           IN  /\ q \in TurnRecord /\ q.home = r.home /\ q.left = r.left
               /\ q.given = {} /\ q.stage = "tools"
<1> DEFINE q1 == [r EXCEPT !.stage = "tools"]
           q2 == [q1 EXCEPT !.tried = 0]
           q3 == [q2 EXCEPT !.said = FALSE]
           q4 == [q3 EXCEPT !.given = {}]
<1>1. q1 \in TurnRecord
  BY TurnUpdates DEF Stages
<1>2. q2 \in TurnRecord
  <2> HIDE DEF q1
  <2> QED BY <1>1, TurnUpdates
<1>3. q3 \in TurnRecord
  <2> HIDE DEF q2
  <2> QED BY <1>2, TurnUpdates
<1>4. q4 \in TurnRecord
  <2> HIDE DEF q3
  <2> QED BY <1>3, TurnUpdates
<1>5. q4.home = r.home /\ q4.left = r.left /\ q4.given = {} /\ q4.stage = "tools"
  BY DEF TurnRecord
<1> QED BY <1>4, <1>5

(* A turn that is over. *)
LEMMA OverFields ==
    ASSUME NEW r \in TurnRecord
    PROVE  LET q == [Talk!Asked(r.home) EXCEPT !.stage = "over", !.left = r.left]
           IN  /\ q \in TurnRecord /\ q.home = r.home /\ q.left = r.left
               /\ q.given = {} /\ q.stage = "over"
<1> DEFINE q0 == Talk!Asked(r.home)
           q1 == [q0 EXCEPT !.stage = "over"]
           q2 == [q1 EXCEPT !.left = r.left]
<1>1. q0 \in TurnRecord /\ q0.home = r.home /\ q0.given = {}
  BY AskedFields DEF TurnRecord
<1> HIDE DEF q0
<1>2. q1 \in TurnRecord /\ q1.home = r.home /\ q1.given = {} /\ q1.stage = "over"
  <2>1. q1 \in TurnRecord
    BY <1>1, TurnUpdates DEF Stages
  <2>2. q1.home = r.home /\ q1.given = {} /\ q1.stage = "over"
    BY <1>1 DEF TurnRecord
  <2> QED BY <2>1, <2>2
<1> HIDE DEF q1
<1>3. q2 \in TurnRecord /\ q2.home = r.home /\ q2.given = {} /\ q2.stage = "over"
      /\ q2.left = r.left
  BY <1>2, TurnUpdates DEF TurnRecord
<1> QED BY <1>3 DEF q0, q1

(* A sequence of turns with one of them replaced. *)
LEMMA TurnReplaced ==
    ASSUME turns \in Seq(TurnRecord), NEW t \in DOMAIN turns, NEW r \in TurnRecord,
           turns' = [turns EXCEPT ![t] = r]
    PROVE  /\ turns' \in Seq(TurnRecord) /\ DOMAIN turns' = DOMAIN turns
           /\ turns'[t] = r /\ \A u \in DOMAIN turns \ {t} : turns'[u] = turns[u]
OBVIOUS

(* A step that changes one turn keeps its conversation and whether the user *)
(* left it; what it is given is of the memory.                              *)
OneTurn(t) ==
    /\ turns' \in Seq(TurnRecord) /\ DOMAIN turns' = DOMAIN turns
    /\ \A u \in DOMAIN turns \ {t} : turns'[u] = turns[u]
    /\ turns'[t].home = turns[t].home /\ turns'[t].left = turns[t].left
    /\ turns'[t].given \in {{}, turns[t].given, memory'}
    /\ turns[t].stage = "told" => turns'[t].stage = "told"
    /\ current' = current /\ memory' \in {memory, memory \cup {t}}
    /\ memory' # memory => turns[t].stage # "told"
    /\ turns'[t].given = memory' => turns[t].stage # "told" \/ turns'[t].given = turns[t].given

(* The steps of the network thread change one turn. *)
LEMMA AgentSteps ==
    ASSUME ChatTypes, NEW t \in DOMAIN turns,
           \/ Talk!Begin(t) \/ Talk!Chunk(t) \/ Talk!NextProvider(t) \/ Talk!UseTools(t)
           \/ Talk!AskAgain(t) \/ Talk!Answer(t) \/ Talk!Fails(t) \/ Talk!TimesOut(t)
    PROVE  OneTurn(t)
<1>1. turns[t] \in TurnRecord /\ memory \cup {t} \subseteq Nat
  BY DEF ChatTypes
<1>2. ASSUME NEW r \in TurnRecord, turns' = [turns EXCEPT ![t] = r],
             r.home = turns[t].home, r.left = turns[t].left,
             r.given \in {{}, turns[t].given, memory'}, turns[t].stage # "told",
             current' = current, memory' \in {memory, memory \cup {t}}
      PROVE  OneTurn(t)
  BY <1>2, TurnReplaced DEF OneTurn, ChatTypes
<1>3. CASE Talk!Begin(t) \/ Talk!AskAgain(t)
  <2> DEFINE r == [turns[t] EXCEPT !.stage = "round", !.round = turns[t].round + 1,
                                   !.tried = 1, !.said = FALSE, !.given = memory']
  <2>1. /\ turns' = [turns EXCEPT ![t] = r] /\ memory' = memory \cup {t}
        /\ turns[t].stage # "told" /\ current' = current
    BY <1>3 DEF Talk!Begin, Talk!AskAgain, Talk!BeginRound, Talk!page
  <2>2. /\ r \in TurnRecord /\ r.home = turns[t].home /\ r.left = turns[t].left
        /\ r.given = memory'
    <3>1. memory' \in SUBSET Nat
      BY <1>1, <2>1
    <3> QED BY <1>1, <3>1, RoundFields
  <2> HIDE DEF r
  <2> QED BY <1>2, <2>1, <2>2
<1>4. CASE Talk!Chunk(t)
  <2> DEFINE r == [turns[t] EXCEPT !.said = TRUE]
  <2>1. /\ turns' = [turns EXCEPT ![t] = r] /\ memory' = memory
        /\ turns[t].stage # "told" /\ current' = current
    BY <1>4 DEF Talk!Chunk, Talk!page
  <2>2. r \in TurnRecord
    BY <1>1, TurnUpdates
  <2>3. r.home = turns[t].home /\ r.left = turns[t].left /\ r.given = turns[t].given
    BY <1>1 DEF TurnRecord
  <2> HIDE DEF r
  <2> QED BY <1>2, <2>1, <2>2, <2>3
<1>5. CASE Talk!NextProvider(t)
  <2> DEFINE q == [turns[t] EXCEPT !.tried = turns[t].tried + 1]
             r == [turns[t] EXCEPT !.tried = turns[t].tried + 1, !.said = FALSE]
  <2>1. /\ turns' = [turns EXCEPT ![t] = r] /\ memory' = memory
        /\ turns[t].stage # "told" /\ current' = current
    BY <1>5 DEF Talk!NextProvider, Talk!page
  <2>2. q \in TurnRecord
    <3>1. turns[t].tried + 1 \in Int
      BY <1>1 DEF TurnRecord
    <3> QED BY <1>1, <3>1, TurnUpdates
  <2>3. r \in TurnRecord
    <3>1. [q EXCEPT !.said = FALSE] \in TurnRecord
      <4> HIDE DEF q
      <4> QED BY <2>2, TurnUpdates
    <3> QED BY <3>1
  <2>4. r.home = turns[t].home /\ r.left = turns[t].left /\ r.given = turns[t].given
    BY <1>1 DEF TurnRecord
  <2> HIDE DEF r
  <2> QED BY <1>2, <2>1, <2>3, <2>4
<1>6. CASE Talk!UseTools(t)
  <2> DEFINE r == [turns[t] EXCEPT !.stage = "tools", !.tried = 0, !.said = FALSE, !.given = {}]
  <2>1. /\ turns' = [turns EXCEPT ![t] = r] /\ memory' = memory \cup {t}
        /\ turns[t].stage # "told" /\ current' = current
    BY <1>6 DEF Talk!UseTools, Talk!page
  <2>2. /\ r \in TurnRecord /\ r.home = turns[t].home /\ r.left = turns[t].left
        /\ r.given = {}
    BY <1>1, ToolsFields
  <2> HIDE DEF r
  <2> QED BY <1>2, <2>1, <2>2
<1>7. CASE Talk!Answer(t) \/ Talk!Fails(t) \/ Talk!TimesOut(t)
  <2> DEFINE r == [Talk!Asked(turns[t].home) EXCEPT !.stage = "over", !.left = turns[t].left]
  <2>1. /\ turns' = [turns EXCEPT ![t] = r] /\ memory' \in {memory, memory \cup {t}}
        /\ turns[t].stage # "told" /\ current' = current
    BY <1>7 DEF Talk!Answer, Talk!Fails, Talk!TimesOut, Talk!Over, Talk!page
  <2>2. /\ r \in TurnRecord /\ r.home = turns[t].home /\ r.left = turns[t].left
        /\ r.given = {}
    BY <1>1, OverFields
  <2> HIDE DEF r
  <2> QED BY <1>2, <2>1, <2>2
<1> QED BY <1>3, <1>4, <1>5, <1>6, <1>7

(* The user leaves turns behind and keeps everything else of them. *)
LeftBehind(c) ==
    /\ turns' \in Seq(TurnRecord) /\ DOMAIN turns' = DOMAIN turns
    /\ \A t \in DOMAIN turns :
          /\ turns'[t].home = turns[t].home /\ turns'[t].given = turns[t].given
          /\ turns'[t].stage = turns[t].stage /\ turns'[t].round = turns[t].round
          /\ turns'[t].tried = turns[t].tried /\ turns'[t].said = turns[t].said
          /\ turns'[t].left = (turns[t].left \/ (turns[t].stage # "told" /\ turns[t].home # c))

(* What Left does. *)
LEMMA LeavesBehind ==
    ASSUME ChatTypes, NEW c, turns' = Talk!Left(c)
    PROVE  LeftBehind(c)
<1> DEFINE leaves(t) == turns[t].left \/ (t \in Talk!UnderWay /\ turns[t].home # c)
           r(t) == [turns[t] EXCEPT !.left = leaves(t)]
<1>1. ASSUME NEW t \in DOMAIN turns
      PROVE  /\ r(t) \in TurnRecord /\ r(t).home = turns[t].home /\ r(t).given = turns[t].given
             /\ r(t).stage = turns[t].stage /\ r(t).left = leaves(t)
             /\ r(t).round = turns[t].round /\ r(t).tried = turns[t].tried
             /\ r(t).said = turns[t].said
  <2>1. turns[t] \in TurnRecord /\ leaves(t) \in BOOLEAN
    <3>1. turns[t] \in TurnRecord
      BY DEF ChatTypes
    <3>2. leaves(t) \in BOOLEAN
      BY Zenon
    <3> QED BY <3>1, <3>2
  <2> HIDE DEF leaves
  <2>2. r(t) \in TurnRecord
    BY <2>1, TurnUpdates
  <2>3. /\ r(t).home = turns[t].home /\ r(t).given = turns[t].given
        /\ r(t).stage = turns[t].stage /\ r(t).left = leaves(t)
        /\ r(t).round = turns[t].round /\ r(t).tried = turns[t].tried
        /\ r(t).said = turns[t].said
    BY <2>1 DEF TurnRecord
  <2> QED BY <2>2, <2>3
<1>2. turns' = [t \in DOMAIN turns |-> r(t)]
  BY DEF Talk!Left
<1>3. DOMAIN turns = 1..Len(turns) /\ Len(turns) \in Nat
  BY DEF ChatTypes
<1>4. turns' \in Seq(TurnRecord)
  <2> HIDE DEF r
  <2> QED BY <1>1, <1>2, <1>3
<1>5. \A t \in DOMAIN turns : turns'[t] = r(t)
  <2> HIDE DEF r
  <2> QED BY <1>2
<1>6. \A t \in DOMAIN turns :
        leaves(t) = (turns[t].left \/ (turns[t].stage # "told" /\ turns[t].home # c))
  BY DEF Talk!UnderWay
<1> HIDE DEF leaves
<1>7. \A t \in DOMAIN turns :
        /\ turns'[t].home = turns[t].home /\ turns'[t].given = turns[t].given
        /\ turns'[t].stage = turns[t].stage /\ turns'[t].left = leaves(t)
        /\ turns'[t].round = turns[t].round /\ turns'[t].tried = turns[t].tried
        /\ turns'[t].said = turns[t].said
  <2> HIDE DEF r
  <2> QED BY <1>1, <1>5
<1> QED BY <1>2, <1>4, <1>6, <1>7 DEF LeftBehind

(* The outcome of a turn reaches the page: one turn is told, if it is one. *)
TurnTold(x) ==
    /\ turns' \in Seq(TurnRecord) /\ DOMAIN turns' = DOMAIN turns
    /\ \A t \in DOMAIN turns :
          /\ turns'[t].home = turns[t].home /\ turns'[t].given = turns[t].given
          /\ turns'[t].left = turns[t].left
          /\ turns'[t].stage \in {turns[t].stage, "told"}
          /\ t = x => turns'[t].stage = "told"
    /\ \A t \in DOMAIN turns \ {x} : turns'[t] = turns[t]

(* What Finishes does to the turns. *)
LEMMA FinishTells ==
    ASSUME ChatTypes, NEW x, turns' = [turns EXCEPT ![x].stage = "told"]
    PROVE  TurnTold(x)
<1>1. CASE x \in DOMAIN turns
  <2> DEFINE r == [turns[x] EXCEPT !.stage = "told"]
  <2>1. turns[x] \in TurnRecord
    BY <1>1 DEF ChatTypes
  <2>2. r \in TurnRecord
    BY <2>1, TurnUpdates DEF Stages
  <2>3. r.home = turns[x].home /\ r.given = turns[x].given /\ r.left = turns[x].left
        /\ r.stage = "told"
    BY <2>1 DEF TurnRecord
  <2>4. turns' = [turns EXCEPT ![x] = r]
    BY Zenon
  <2> HIDE DEF r
  <2>5. /\ turns' \in Seq(TurnRecord) /\ DOMAIN turns' = DOMAIN turns
        /\ turns'[x] = r /\ \A u \in DOMAIN turns \ {x} : turns'[u] = turns[u]
    BY <1>1, <2>2, <2>4, TurnReplaced DEF ChatTypes
  <2> QED BY <2>3, <2>5 DEF TurnTold
<1>2. CASE x \notin DOMAIN turns
  <2>1. turns' = turns
    BY <1>2 DEF ChatTypes
  <2> QED BY <1>2, <2>1 DEF TurnTold, ChatTypes
<1> QED BY <1>1, <1>2

(* What keeps the conversations apart: a turn that is not told, and a message *)
(* of the memory, is of the open conversation, unless the user left it; what  *)
(* a turn was given is of its own.                                            *)
ChatInv ==
    /\ ChatTypes
    /\ \A t \in DOMAIN turns :
          turns[t].stage # "told" /\ ~turns[t].left => turns[t].home = current
    /\ \A u \in memory : ~turns[u].left => turns[u].home = current
    /\ \A t \in DOMAIN turns : \A u \in turns[t].given :
          ~turns[t].left /\ ~turns[u].left => turns[u].home = turns[t].home

(* A message is stored in the open conversation, or in a new one if none is   *)
(* open, and then no turn and no message is of the open one.                  *)
LEMMA Ensures ==
    ASSUME ChatInv, Talk!Ensure
    PROVE  /\ current' \in Convs
           /\ \A t \in DOMAIN turns :
                 turns[t].stage # "told" /\ ~turns[t].left => turns[t].home = current'
           /\ \A u \in memory : ~turns[u].left => turns[u].home = current'
<1>1. \A t \in DOMAIN turns : turns[t].home \in Convs
  <2> SUFFICES ASSUME NEW t \in DOMAIN turns PROVE turns[t].home \in Convs
    OBVIOUS
  <2>1. turns[t] \in TurnRecord
    BY DEF ChatInv, ChatTypes
  <2> QED BY <2>1 DEF TurnRecord
<1>2. CASE current # 0
  BY <1>2 DEF ChatInv, ChatTypes, Talk!Ensure
<1>3. CASE current = 0
  <2>1. \A t \in DOMAIN turns : turns[t].home # current
    BY <1>1, <1>3, WorkAssumptions DEF Talk!ChatAssumption
  <2>2. current' \in Convs
    BY <1>3 DEF Talk!Ensure
  <2> QED BY <2>1, <2>2 DEF ChatInv, ChatTypes
<1> QED BY <1>2, <1>3

(* No turn was asked when the conversation begins. *)
LEMMA ChatStarts == Talk!ChatInit => ChatInv
<1> SUFFICES ASSUME Talk!ChatInit PROVE ChatInv
  OBVIOUS
<1>1. turns = <<>> /\ memory = {} /\ current = 0
  BY DEF Talk!ChatInit
<1>2. turns \in Seq(TurnRecord) /\ DOMAIN turns = {}
  BY <1>1
<1> QED BY <1>1, <1>2 DEF ChatInv, ChatTypes

(* Every step of the conversation keeps it so. *)
LEMMA ChatStays == ChatInv /\ [Talk!ChatNext]_(Talk!chatVars) => ChatInv'
<1> SUFFICES ASSUME ChatInv, [Talk!ChatNext]_(Talk!chatVars) PROVE ChatInv'
  OBVIOUS
<1> USE DEF ChatInv
<1>1. ASSUME turns' = turns, current' = current, memory' = memory PROVE ChatInv'
  BY <1>1 DEF ChatTypes
<1>2. ASSUME NEW c \in Convs \cup {0}, LeftBehind(c), current' = c, memory' = {} PROVE ChatInv'
  <2>1. ChatTypes'
    BY <1>2 DEF LeftBehind, ChatTypes
  <2>2. \A t \in DOMAIN turns' :
          turns'[t].stage # "told" /\ ~turns'[t].left => turns'[t].home = current'
    BY <1>2 DEF LeftBehind
  <2>3. \A t \in DOMAIN turns' : \A u \in turns'[t].given :
          ~turns'[t].left /\ ~turns'[u].left => turns'[u].home = turns'[t].home
    <3>1. \A t \in DOMAIN turns : ~turns'[t].left => ~turns[t].left
      BY <1>2 DEF LeftBehind
    <3>2. /\ DOMAIN turns' = DOMAIN turns
          /\ \A t \in DOMAIN turns : turns'[t].home = turns[t].home /\ turns'[t].given = turns[t].given
      BY <1>2 DEF LeftBehind
    <3> QED BY <3>1, <3>2 DEF ChatTypes
  <2> QED BY <1>2, <2>1, <2>2, <2>3
<1>3. CASE Talk!Send
  <2>1. /\ Talk!Ensure /\ turns' = Append(turns, Talk!Asked(current')) /\ memory' = memory
    BY <1>3 DEF Talk!Send
  <2>2. /\ current' \in Convs
        /\ \A t \in DOMAIN turns :
              turns[t].stage # "told" /\ ~turns[t].left => turns[t].home = current'
        /\ \A u \in memory : ~turns[u].left => turns[u].home = current'
    BY <2>1, Ensures
  <2> DEFINE r == Talk!Asked(current')
  <2>3. r \in TurnRecord /\ r.home = current' /\ r.given = {}
    BY <2>2, AskedFields
  <2> HIDE DEF r
  <2>4. /\ turns' \in Seq(TurnRecord) /\ DOMAIN turns' = DOMAIN turns \cup {Len(turns) + 1}
        /\ turns'[Len(turns) + 1] = r
        /\ \A t \in DOMAIN turns : turns'[t] = turns[t]
    BY <2>1, <2>3 DEF ChatTypes, r
  <2>5. ChatTypes'
    BY <2>1, <2>2, <2>3, <2>4 DEF ChatTypes
  <2>6. \A t \in DOMAIN turns' :
          turns'[t].stage # "told" /\ ~turns'[t].left => turns'[t].home = current'
    BY <2>2, <2>3, <2>4
  <2>7. \A u \in memory' : ~turns'[u].left => turns'[u].home = current'
    BY <2>1, <2>2, <2>4 DEF ChatTypes
  <2>8. \A t \in DOMAIN turns' : \A u \in turns'[t].given :
          ~turns'[t].left /\ ~turns'[u].left => turns'[u].home = turns'[t].home
    BY <2>3, <2>4 DEF ChatTypes
  <2> QED BY <2>5, <2>6, <2>7, <2>8
<1>4. CASE Talk!StartNew
  BY <1>2, <1>4, LeavesBehind DEF Talk!StartNew
<1>5. ASSUME NEW c \in Convs, Talk!Open(c) PROVE ChatInv'
  BY <1>2, <1>5, LeavesBehind DEF Talk!Open
<1>6. ASSUME NEW c \in Convs, Talk!Delete(c) PROVE ChatInv'
  <2>1. CASE c = current
    BY <1>2, <1>6, <2>1, LeavesBehind DEF Talk!Delete
  <2>2. CASE c # current
    BY <1>1, <1>6, <2>2 DEF Talk!Delete
  <2> QED BY <2>1, <2>2
<1>7. CASE Talk!Deliver
  <2>1. CASE Talk!Shows(Head(wire)) \/ Talk!Unlocks
    BY <1>1, <2>1 DEF Talk!Shows, Talk!Unlocks
  <2>2. CASE Talk!Finishes(Head(wire))
    <3> DEFINE x == Head(wire).of[1]
    <3>1. TurnTold(x) /\ memory' = memory
      BY <2>2, FinishTells DEF Talk!Finishes
    <3>2. /\ current' \in Convs \cup {0}
          /\ \A t \in DOMAIN turns :
                turns[t].stage # "told" /\ ~turns[t].left => turns[t].home = current'
          /\ \A u \in memory : ~turns[u].left => turns[u].home = current'
      <4>1. CASE Talk!Ensure
        BY <4>1, Ensures
      <4>2. CASE current' = current
        BY <4>2 DEF ChatTypes
      <4> QED BY <2>2, <4>1, <4>2 DEF Talk!Finishes
    <3> HIDE DEF x
    <3>3. ChatTypes'
      BY <3>1, <3>2 DEF TurnTold, ChatTypes
    <3>4. \A t \in DOMAIN turns' :
            turns'[t].stage # "told" /\ ~turns'[t].left => turns'[t].home = current'
      BY <3>1, <3>2 DEF TurnTold
    <3>5. \A u \in memory' : ~turns'[u].left => turns'[u].home = current'
      BY <3>1, <3>2 DEF TurnTold, ChatTypes
    <3>6. \A t \in DOMAIN turns' : \A u \in turns'[t].given :
            ~turns'[t].left /\ ~turns'[u].left => turns'[u].home = turns'[t].home
      BY <3>1 DEF TurnTold, ChatTypes
    <3> QED BY <3>3, <3>4, <3>5, <3>6
  <2> QED BY <1>7, <2>1, <2>2 DEF Talk!Deliver
<1>8. ASSUME NEW t \in DOMAIN turns, OneTurn(t) PROVE ChatInv'
  <2>1. memory' \subseteq DOMAIN turns /\ DOMAIN turns' = DOMAIN turns
    BY <1>8 DEF OneTurn, ChatTypes
  <2>2. \A u \in DOMAIN turns : turns'[u].home = turns[u].home /\ turns'[u].left = turns[u].left
    BY <1>8 DEF OneTurn
  <2>3. \A u \in memory' : ~turns[u].left => turns[u].home = current
    BY <1>8 DEF OneTurn
  <2>4. \A u \in DOMAIN turns : turns'[u].stage # "told" => turns[u].stage # "told"
    BY <1>8 DEF OneTurn
  <2>5. ChatTypes'
    <3>1. \A u \in DOMAIN turns : turns'[u].given \subseteq DOMAIN turns
      BY <1>8, <2>1 DEF OneTurn, ChatTypes
    <3> QED BY <1>8, <2>1, <3>1 DEF OneTurn, ChatTypes
  <2>6. \A u \in DOMAIN turns' :
          turns'[u].stage # "told" /\ ~turns'[u].left => turns'[u].home = current'
    BY <1>8, <2>1, <2>2, <2>4 DEF OneTurn
  <2>7. \A u \in memory' : ~turns'[u].left => turns'[u].home = current'
    BY <1>8, <2>1, <2>2, <2>3 DEF OneTurn
  <2>8. \A u \in turns'[t].given : ~turns[t].left /\ ~turns[u].left => turns[u].home = turns[t].home
    <3>1. CASE turns'[t].given \in {{}, turns[t].given}
      BY <3>1
    <3>2. CASE turns'[t].given = memory' /\ turns[t].stage # "told"
      BY <2>3, <3>2
    <3> QED BY <1>8, <3>1, <3>2 DEF OneTurn
  <2>9. \A s \in DOMAIN turns' : \A u \in turns'[s].given :
          ~turns'[s].left /\ ~turns'[u].left => turns'[u].home = turns'[s].home
    <3> SUFFICES ASSUME NEW s \in DOMAIN turns, NEW u \in turns'[s].given,
                        ~turns[s].left, ~turns[u].left
                 PROVE  turns[u].home = turns[s].home
      BY <2>1, <2>2, <2>5 DEF ChatTypes
    <3>1. CASE s = t
      BY <2>8, <3>1
    <3>2. CASE s # t
      BY <1>8, <3>2 DEF OneTurn
    <3> QED BY <3>1, <3>2
  <2> QED BY <2>5, <2>6, <2>7, <2>9
<1>9. CASE UNCHANGED Talk!chatVars
  BY <1>1, <1>9 DEF Talk!chatVars
<1>10. ASSUME NEW t \in DOMAIN turns,
              \/ Talk!Begin(t) \/ Talk!Chunk(t) \/ Talk!NextProvider(t) \/ Talk!UseTools(t)
              \/ Talk!AskAgain(t) \/ Talk!Answer(t) \/ Talk!Fails(t) \/ Talk!TimesOut(t)
       PROVE  ChatInv'
  <2>1. OneTurn(t)
    BY <1>10, AgentSteps
  <2> QED BY <1>8, <2>1
<1>11. CASE Talk!ChatNext
  BY <1>3, <1>4, <1>5, <1>6, <1>7, <1>10, <1>11 DEF Talk!ChatNext
<1> QED BY <1>9, <1>11

(* The model is given no message of another conversation than the one it      *)
(* answers in (chat_agent.py clears its history when one is opened), as       *)
(* long as the user stays until the answer is there: however many             *)
(* conversations, turns and providers there are.                              *)
THEOREM OneConversation == Spec => []MemoryApart
<1>1. Init => ChatInv
  BY ChatStarts DEF Init
<1>2. ChatInv /\ [Next]_vars => ChatInv'
  BY ChatSteps, ChatStays
<1>3. ChatInv => MemoryApart
  BY DEF ChatInv, MemoryApart, Talk!MemoryApart
<1> QED BY <1>1, <1>2, <1>3, PTL DEF Spec

(* What is said.  The wire holds pieces of answers, and that they are taken   *)
(* back or over.                                                              *)
WireRecord == [kind : {"delta", "clear", "reply", "fail", "finished"}, of : Seq(Int)]

(* A turn that has said something in the attempt under way, and one that says *)
(* nothing any more.                                                          *)
Hearing(t) == turns[t].stage = "round" /\ turns[t].said
Hears(ts, t, a) ==
    ts[t].stage = "round" /\ ts[t].said /\ a = <<t, ts[t].round, ts[t].tried>>
Quiet(ts, t) == ts[t].stage \in {"over", "told"}

(* A piece of an answer is of a turn under way, and not behind its outcome.   *)
WireOfTurns ==
    /\ wire \in Seq(WireRecord)
    /\ \A i \in DOMAIN wire : wire[i].kind = "delta" =>
          wire[i].of[1] \in DOMAIN turns /\ turns[wire[i].of[1]].stage # "told"
    /\ \A i \in DOMAIN wire : wire[i].kind \in {"reply", "fail"} =>
          /\ wire[i].of[1] \in DOMAIN turns /\ Quiet(turns, wire[i].of[1])
          /\ \A j \in DOMAIN wire : j > i /\ wire[j].kind = "delta" => wire[j].of[1] # wire[i].of[1]

(* Between the pieces of two attempts of a turn, what was said is taken back, *)
(* and so it is behind the pieces of an attempt that is not under way.        *)
WireInVoices ==
    /\ \A i, j \in DOMAIN wire :
          i < j /\ wire[i].kind = "delta" /\ wire[j].kind = "delta" /\ wire[i].of[1] = wire[j].of[1] =>
              \/ wire[i].of = wire[j].of
              \/ \E k \in DOMAIN wire : i < k /\ k < j /\ wire[k].kind = "clear"
    /\ \A i \in DOMAIN wire : wire[i].kind = "delta" =>
          \/ Quiet(turns, wire[i].of[1]) \/ Hears(turns, wire[i].of[1], wire[i].of)
          \/ \E k \in DOMAIN wire : i < k /\ wire[k].kind = "clear"

(* The text on the page goes on with that of its own attempt, or is taken     *)
(* back before.                                                               *)
GoesOn(a) ==
    /\ \A j \in DOMAIN wire : wire[j].kind = "delta" =>
          wire[j].of = a \/ \E k \in DOMAIN wire : k < j /\ wire[k].kind = "clear"
    /\ \A t \in Talk!UnderWay :
          Quiet(turns, t) \/ Hears(turns, t, a) \/ \E k \in DOMAIN wire : wire[k].kind = "clear"

Alone == \A t, u \in Talk!UnderWay : t = u

TextOfOne ==
    Alone => \/ streaming = {}
             \/ \E a : streaming = {a} /\ (pending => GoesOn(a))

VoiceInv == ChatTypes /\ WireOfTurns /\ WireInVoices /\ TextOfOne

(* A sequence that another one is appended to. *)
LEMMA Appended ==
    ASSUME NEW S, NEW w \in Seq(S), NEW e \in Seq(S)
    PROVE  /\ w \o e \in Seq(S) /\ DOMAIN w \subseteq DOMAIN (w \o e)
           /\ \A i \in DOMAIN w : (w \o e)[i] = w[i]
           /\ \A i \in DOMAIN (w \o e) \ DOMAIN w :
                 \E m \in DOMAIN e : i = Len(w) + m /\ (w \o e)[i] = e[m]
           /\ \A m \in DOMAIN e :
                 Len(w) + m \in DOMAIN (w \o e) \ DOMAIN w /\ (w \o e)[Len(w) + m] = e[m]
<1>1. /\ w \o e \in Seq(S) /\ Len(w \o e) = Len(w) + Len(e) /\ Len(w) \in Nat /\ Len(e) \in Nat
      /\ DOMAIN w = 1..Len(w) /\ DOMAIN e = 1..Len(e)
  OBVIOUS
<1>2. DOMAIN (w \o e) = 1..(Len(w) + Len(e))
  BY <1>1
<1>3. \A i \in 1..(Len(w) + Len(e)) : (w \o e)[i] = IF i <= Len(w) THEN w[i] ELSE e[i - Len(w)]
  BY <1>1
<1>4. ASSUME NEW i \in DOMAIN (w \o e) \ DOMAIN w
      PROVE  \E m \in DOMAIN e : i = Len(w) + m /\ (w \o e)[i] = e[m]
  <2>1. i - Len(w) \in DOMAIN e /\ i = Len(w) + (i - Len(w)) /\ (w \o e)[i] = e[i - Len(w)]
    BY <1>1, <1>2, <1>3, <1>4
  <2> QED BY <2>1
<1>5. ASSUME NEW m \in DOMAIN e
      PROVE  Len(w) + m \in DOMAIN (w \o e) \ DOMAIN w /\ (w \o e)[Len(w) + m] = e[m]
  BY <1>1, <1>2, <1>3, <1>5
<1> QED BY <1>1, <1>2, <1>3, <1>4, <1>5

(* The network thread goes on with a turn that has no outcome yet. *)
Grows(t) ==
    /\ turns[t].stage \in {"asked", "round", "tools"} /\ turns'[t].stage # "told"
    /\ DOMAIN turns' = DOMAIN turns /\ \A u \in DOMAIN turns \ {t} : turns'[u] = turns[u]
    /\ \E e \in Seq(WireRecord) :
          /\ wire' = wire \o e
          /\ \A m \in DOMAIN e :
                /\ e[m].kind = "delta" =>
                      /\ e[m].of[1] = t /\ ~Hearing(t)
                      /\ turns'[t].stage = "round" /\ turns'[t].said
                      /\ e[m].of = <<t, turns'[t].round, turns'[t].tried>>
                      /\ \A n \in DOMAIN e : n = m
                /\ e[m].kind \in {"reply", "fail"} => e[m].of[1] = t /\ turns'[t].stage = "over"
          /\ \/ turns'[t].stage = "over" \/ ~Hearing(t)
             \/ \E m \in DOMAIN e : e[m].kind = "clear"
    /\ UNCHANGED <<pending, streaming>>

(* The signals are signals. *)
LEMMA SignalTypes ==
    /\ Talk!Clear \in WireRecord /\ Talk!Clear.kind = "clear"
    /\ \A kind \in {"reply", "fail", "finished"} : \A t \in Int :
          /\ Talk!Outcome(kind, t) \in WireRecord /\ Talk!Outcome(kind, t).kind = kind
          /\ Talk!Outcome(kind, t).of[1] = t
    /\ \A a \in Seq(Int) :
          Talk!Delta(a) \in WireRecord /\ Talk!Delta(a).kind = "delta" /\ Talk!Delta(a).of = a
BY DEF WireRecord, Talk!Clear, Talk!Outcome, Talk!Delta

(* The attempt of a turn. *)
LEMMA AttemptOf ==
    ASSUME ChatTypes, NEW t \in DOMAIN turns
    PROVE  Talk!Attempt(t) \in Seq(Int) /\ Talk!Attempt(t)[1] = t /\ t \in Int
<1>1. turns[t] \in TurnRecord /\ t \in Int
  BY DEF ChatTypes
<1>2. turns[t].round \in Int /\ turns[t].tried \in Int
  BY <1>1 DEF TurnRecord
<1> QED BY <1>1, <1>2 DEF Talk!Attempt

(* A step of the network thread goes on with its turn. *)
LEMMA AgentGrows ==
    ASSUME ChatTypes, wire \in Seq(WireRecord), NEW t \in DOMAIN turns,
           \/ Talk!Begin(t) \/ Talk!Chunk(t) \/ Talk!NextProvider(t) \/ Talk!UseTools(t)
           \/ Talk!AskAgain(t) \/ Talk!Answer(t) \/ Talk!Fails(t) \/ Talk!TimesOut(t)
    PROVE  Grows(t)
<1>1. turns[t] \in TurnRecord /\ t \in Int
  BY DEF ChatTypes
<1>2. pending' = pending /\ streaming' = streaming
  BY DEF Talk!Begin, Talk!Chunk, Talk!NextProvider, Talk!UseTools, Talk!AskAgain, Talk!Answer,
         Talk!Fails, Talk!TimesOut, Talk!page
<1>3. DOMAIN turns' = DOMAIN turns /\ \A u \in DOMAIN turns \ {t} : turns'[u] = turns[u]
  BY AgentSteps DEF OneTurn
<1> DEFINE none == <<>>
           back == <<Talk!Clear>>
<1>4. none \in Seq(WireRecord) /\ DOMAIN none = {} /\ wire = wire \o none
  OBVIOUS
<1>5. /\ back \in Seq(WireRecord) /\ DOMAIN back = {1} /\ back[1].kind = "clear"
      /\ Append(wire, Talk!Clear) = wire \o back
  BY SignalTypes
<1> HIDE DEF none, back
<1>6. CASE Talk!Begin(t) \/ Talk!AskAgain(t)
  <2>1. /\ turns[t].stage \in {"asked", "tools", "round"} /\ turns'[t].stage = "round" /\ ~Hearing(t)
        /\ wire' = wire
    BY <1>1, <1>6 DEF Talk!Begin, Talk!AskAgain, Talk!BeginRound, Hearing, TurnRecord, ChatTypes
  <2> QED BY <1>2, <1>3, <1>4, <2>1 DEF Grows
<1>7. CASE Talk!Chunk(t)
  <2> DEFINE a == Talk!Attempt(t)
             e == <<Talk!Delta(a)>>
             q == [turns[t] EXCEPT !.said = TRUE]
  <2>1. a \in Seq(Int) /\ a[1] = t
    BY AttemptOf
  <2>2. /\ turns[t].stage = "round" /\ ~Hearing(t) /\ turns' = [turns EXCEPT ![t] = q]
        /\ wire' = Append(wire, Talk!Delta(a))
    BY <1>7 DEF Talk!Chunk, Hearing
  <2>3. turns'[t] = q
    BY <2>2 DEF ChatTypes
  <2>4. turns'[t].stage = "round" /\ turns'[t].said /\ a = <<t, turns'[t].round, turns'[t].tried>>
    BY <1>1, <2>2, <2>3 DEF TurnRecord, Talk!Attempt
  <2> HIDE DEF a
  <2>5. Talk!Delta(a) \in WireRecord /\ Talk!Delta(a).kind = "delta" /\ Talk!Delta(a).of = a
    BY <2>1, SignalTypes
  <2>6. /\ e \in Seq(WireRecord) /\ DOMAIN e = {1} /\ e[1] = Talk!Delta(a)
        /\ wire' = wire \o e
    BY <2>2, <2>5
  <2> HIDE DEF e, q
  <2>7. \A m \in DOMAIN e :
          /\ e[m].of[1] = t /\ \A n \in DOMAIN e : n = m
          /\ e[m].of = <<t, turns'[t].round, turns'[t].tried>> /\ e[m].kind = "delta"
    BY <2>1, <2>4, <2>5, <2>6
  <2> QED BY <1>2, <1>3, <2>2, <2>4, <2>6, <2>7 DEF Grows
<1>8. CASE Talk!NextProvider(t)
  <2>1. /\ turns[t].stage = "round" /\ turns'[t].stage = "round"
        /\ wire' = wire \o (IF turns[t].said THEN back ELSE none)
    BY <1>1, <1>8 DEF Talk!NextProvider, Talk!TakenBack, TurnRecord, ChatTypes, back, none
  <2>2. CASE turns[t].said
    BY <1>2, <1>3, <1>5, <2>1, <2>2 DEF Grows
  <2>3. CASE ~turns[t].said
    BY <1>2, <1>3, <1>4, <2>1, <2>3 DEF Grows, Hearing
  <2> QED BY <2>2, <2>3
<1>9. CASE Talk!UseTools(t)
  <2>1. turns[t].stage = "round" /\ turns'[t].stage = "tools" /\ wire' = Append(wire, Talk!Clear)
    BY <1>1, <1>9 DEF Talk!UseTools, TurnRecord, ChatTypes
  <2> QED BY <1>2, <1>3, <1>5, <2>1 DEF Grows
<1>10. CASE Talk!Answer(t) \/ Talk!Fails(t) \/ Talk!TimesOut(t)
  <2>1. /\ turns[t].stage \in {"round", "tools"} /\ turns' = Talk!Over(t)
        /\ \E kind \in {"reply", "fail"} :
              \/ wire' = wire \o Talk!Told(t, kind)
              \/ wire' = wire \o back \o Talk!Told(t, kind)
    <3>1. CASE Talk!Answer(t)
      BY <3>1 DEF Talk!Answer
    <3>2. CASE Talk!Fails(t)
      <4>1. /\ turns[t].stage = "round" /\ turns' = Talk!Over(t)
            /\ wire' = wire \o Talk!TakenBack(t) \o Talk!Told(t, "fail")
        BY <3>2 DEF Talk!Fails
      <4>2. Talk!TakenBack(t) \in {none, back} /\ wire \o none = wire
        BY <1>4 DEF Talk!TakenBack, none, back
      <4> QED BY <4>1, <4>2
    <3>3. CASE Talk!TimesOut(t)
      BY <3>3 DEF Talk!TimesOut
    <3> QED BY <1>10, <3>1, <3>2, <3>3
  <2>2. turns'[t].stage = "over"
    <3> DEFINE q == [Talk!Asked(turns[t].home) EXCEPT !.stage = "over", !.left = turns[t].left]
    <3>1. q.stage = "over"
      BY <1>1, OverFields
    <3>2. turns'[t] = q
      BY <2>1 DEF Talk!Over, ChatTypes
    <3> QED BY <3>1, <3>2
  <2>3. PICK kind \in {"reply", "fail"} :
          \/ wire' = wire \o Talk!Told(t, kind)
          \/ wire' = wire \o back \o Talk!Told(t, kind)
    BY <2>1
  <2> DEFINE o == Talk!Outcome(kind, t)
             f == Talk!Outcome("finished", t)
             c == Talk!Clear
  <2>4. /\ o \in WireRecord /\ f \in WireRecord /\ o.of[1] = t /\ o.kind = kind /\ f.kind = "finished"
        /\ c \in WireRecord /\ c.kind = "clear"
    BY <1>1, SignalTypes
  <2>5. /\ wire' = wire \o <<o, f>> \/ wire' = wire \o <<c>> \o <<o, f>>
    BY <2>3 DEF Talk!Told, back
  <2> HIDE DEF o, f, c
  <2>6. CASE wire' = wire \o <<o, f>>
    <3> DEFINE e == <<o, f>>
    <3>1. e \in Seq(WireRecord) /\ DOMAIN e = {1, 2} /\ e[1] = o /\ e[2] = f
      BY <2>4
    <3>2. wire' = wire \o e
      BY <2>6
    <3> HIDE DEF e
    <3> QED BY <1>2, <1>3, <2>1, <2>2, <2>4, <3>1, <3>2 DEF Grows
  <2>7. CASE wire' = wire \o <<c>> \o <<o, f>>
    <3> DEFINE e == <<c, o, f>>
    <3>1. e \in Seq(WireRecord) /\ DOMAIN e = {1, 2, 3} /\ e[1] = c /\ e[2] = o /\ e[3] = f
      BY <2>4
    <3>2. wire' = wire \o e
      BY <2>4, <2>7
    <3> HIDE DEF e
    <3> QED BY <1>2, <1>3, <2>1, <2>2, <2>4, <3>1, <3>2 DEF Grows
  <2> QED BY <2>5, <2>6, <2>7
<1> QED BY <1>6, <1>7, <1>8, <1>9, <1>10

(* Going on with a turn keeps the voices apart. *)
LEMMA GrowsKeeps ==
    ASSUME VoiceInv, ChatTypes', NEW t \in DOMAIN turns, Grows(t)
    PROVE  VoiceInv'
<1> USE DEF VoiceInv
<1>1. PICK e \in Seq(WireRecord) :
        /\ wire' = wire \o e
        /\ \A m \in DOMAIN e :
              /\ e[m].kind = "delta" =>
                    /\ e[m].of[1] = t /\ ~Hearing(t)
                    /\ turns'[t].stage = "round" /\ turns'[t].said
                    /\ e[m].of = <<t, turns'[t].round, turns'[t].tried>>
                    /\ \A n \in DOMAIN e : n = m
              /\ e[m].kind \in {"reply", "fail"} => e[m].of[1] = t /\ turns'[t].stage = "over"
        /\ \/ turns'[t].stage = "over" \/ ~Hearing(t)
           \/ \E m \in DOMAIN e : e[m].kind = "clear"
  BY DEF Grows
<1>2. /\ turns[t].stage \in {"asked", "round", "tools"} /\ turns'[t].stage # "told"
      /\ DOMAIN turns' = DOMAIN turns /\ \A u \in DOMAIN turns \ {t} : turns'[u] = turns[u]
      /\ pending' = pending /\ streaming' = streaming
  BY DEF Grows
<1>3. /\ wire \in Seq(WireRecord) /\ wire' \in Seq(WireRecord) /\ DOMAIN wire \subseteq DOMAIN wire'
      /\ \A i \in DOMAIN wire : wire'[i] = wire[i]
      /\ \A i \in DOMAIN wire' \ DOMAIN wire :
            \E m \in DOMAIN e : i = Len(wire) + m /\ wire'[i] = e[m]
      /\ \A m \in DOMAIN e :
            Len(wire) + m \in DOMAIN wire' \ DOMAIN wire /\ wire'[Len(wire) + m] = e[m]
  BY <1>1, Appended DEF WireOfTurns
<1>4. \A i \in DOMAIN wire : \A j \in DOMAIN wire' \ DOMAIN wire : i < j
  BY <1>3
<1>5. \A i \in DOMAIN wire, j \in DOMAIN wire' : j < i => j \in DOMAIN wire
  BY <1>3
\* What is new in the wire.
<1>6. \A i \in DOMAIN wire' \ DOMAIN wire :
        /\ wire'[i].kind = "delta" =>
              /\ wire'[i].of[1] = t /\ ~Hearing(t)
              /\ turns'[t].stage = "round" /\ turns'[t].said
              /\ wire'[i].of = <<t, turns'[t].round, turns'[t].tried>>
              /\ \A j \in DOMAIN wire' \ DOMAIN wire : j = i
        /\ wire'[i].kind \in {"reply", "fail"} => wire'[i].of[1] = t /\ turns'[t].stage = "over"
  <2> SUFFICES ASSUME NEW i \in DOMAIN wire' \ DOMAIN wire
               PROVE  /\ wire'[i].kind = "delta" =>
                            /\ wire'[i].of[1] = t /\ ~Hearing(t)
                            /\ turns'[t].stage = "round" /\ turns'[t].said
                            /\ wire'[i].of = <<t, turns'[t].round, turns'[t].tried>>
                            /\ \A j \in DOMAIN wire' \ DOMAIN wire : j = i
                      /\ wire'[i].kind \in {"reply", "fail"} =>
                            wire'[i].of[1] = t /\ turns'[t].stage = "over"
    OBVIOUS
  <2>1. PICK m \in DOMAIN e : i = Len(wire) + m /\ wire'[i] = e[m]
    BY <1>3
  <2>2. (\A n \in DOMAIN e : n = m) => \A j \in DOMAIN wire' \ DOMAIN wire : j = i
    BY <1>3, <2>1
  <2> QED BY <1>1, <2>1, <2>2
<1>7. \/ turns'[t].stage = "over" \/ ~Hearing(t)
      \/ \E k \in DOMAIN wire' \ DOMAIN wire : wire'[k].kind = "clear"
  BY <1>1, <1>3
\* What a turn says keeps its place.
<1>8. \A u \in DOMAIN turns \ {t} : Quiet(turns', u) = Quiet(turns, u) /\ \A a : Hears(turns', u, a) = Hears(turns, u, a)
  BY <1>2 DEF Quiet, Hears
<1>9. ~Quiet(turns, t) /\ (turns'[t].stage = "over" => Quiet(turns', t))
  BY <1>2 DEF Quiet
<1>10. \A i \in DOMAIN wire' : wire'[i].kind = "delta" => wire'[i].of[1] \in DOMAIN turns
  BY <1>3, <1>6 DEF WireOfTurns
<1>11. \A i \in DOMAIN wire' \ DOMAIN wire : wire'[i].kind = "delta" => Hears(turns', t, wire'[i].of)
  BY <1>6 DEF Hears
<1>12. WireOfTurns'
  <2>1. \A i \in DOMAIN wire' : wire'[i].kind = "delta" =>
          wire'[i].of[1] \in DOMAIN turns' /\ turns'[wire'[i].of[1]].stage # "told"
    <3> SUFFICES ASSUME NEW i \in DOMAIN wire', wire'[i].kind = "delta"
                 PROVE  wire'[i].of[1] \in DOMAIN turns /\ turns'[wire'[i].of[1]].stage # "told"
      BY <1>2
    <3>1. CASE i \in DOMAIN wire
      <4>1. wire'[i] = wire[i]
        BY <1>3, <3>1
      <4>2. wire[i].of[1] \in DOMAIN turns /\ turns[wire[i].of[1]].stage # "told"
        BY <3>1, <4>1 DEF WireOfTurns
      <4> QED BY <1>2, <4>1, <4>2
    <3>2. CASE i \notin DOMAIN wire
      <4>1. wire'[i].of[1] = t
        BY <1>6, <3>2
      <4> QED BY <1>2, <4>1
    <3> QED BY <3>1, <3>2
  <2>2. ASSUME NEW i \in DOMAIN wire', wire'[i].kind \in {"reply", "fail"}
        PROVE  /\ wire'[i].of[1] \in DOMAIN turns' /\ Quiet(turns', wire'[i].of[1])
               /\ \A j \in DOMAIN wire' : j > i /\ wire'[j].kind = "delta" => wire'[j].of[1] # wire'[i].of[1]
    <3>1. CASE i \in DOMAIN wire
      <4>1. wire'[i].of[1] \in DOMAIN turns \ {t} /\ Quiet(turns, wire'[i].of[1])
        BY <1>3, <1>9, <2>2, <3>1 DEF WireOfTurns
      <4>2. Quiet(turns', wire'[i].of[1])
        BY <1>2, <4>1 DEF Quiet
      <4>3. \A j \in DOMAIN wire' : j > i /\ wire'[j].kind = "delta" => wire'[j].of[1] # wire'[i].of[1]
        BY <1>3, <1>6, <2>2, <3>1, <4>1 DEF WireOfTurns
      <4> QED BY <1>2, <4>1, <4>2, <4>3
    <3>2. CASE i \notin DOMAIN wire
      <4>1. wire'[i].of[1] = t /\ turns'[t].stage = "over"
        BY <1>6, <2>2, <3>2
      <4>2. \A j \in DOMAIN wire' : j > i => j \in DOMAIN wire' \ DOMAIN wire
        BY <1>3, <3>2
      <4>3. Quiet(turns', wire'[i].of[1])
        BY <4>1 DEF Quiet
      <4> QED BY <1>2, <1>6, <4>1, <4>2, <4>3
    <3> QED BY <3>1, <3>2
  <2> QED BY <1>3, <2>1, <2>2 DEF WireOfTurns
\* A piece of the turn was there before: it is the attempt under way, or taken back.
<1>13. ASSUME NEW i \in DOMAIN wire, wire[i].kind = "delta", wire[i].of[1] = t, ~Hearing(t)
       PROVE  \E k \in DOMAIN wire : i < k /\ wire[k].kind = "clear"
  BY <1>9, <1>13 DEF WireInVoices, Hears, Hearing
<1>14. WireInVoices'
  <2>1. ASSUME NEW i \in DOMAIN wire', NEW j \in DOMAIN wire', i < j,
               wire'[i].kind = "delta", wire'[j].kind = "delta", wire'[i].of[1] = wire'[j].of[1]
        PROVE  \/ wire'[i].of = wire'[j].of
               \/ \E k \in DOMAIN wire' : i < k /\ k < j /\ wire'[k].kind = "clear"
    <3>1. CASE j \in DOMAIN wire
      <4>1. i \in DOMAIN wire
        BY <1>5, <2>1, <3>1
      <4> QED BY <1>3, <2>1, <3>1, <4>1 DEF WireInVoices
    <3>2. CASE j \notin DOMAIN wire
      <4>1. wire'[j].of[1] = t /\ ~Hearing(t) /\ i \in DOMAIN wire
        <5>1. /\ wire'[j].of[1] = t /\ ~Hearing(t)
              /\ \A n \in DOMAIN wire' \ DOMAIN wire : n = j
          BY <1>6, <2>1, <3>2
        <5>2. i # j
          <6>1. j \in Int
            BY <1>3
          <6> QED BY <2>1, <6>1
        <5> QED BY <5>1, <5>2
      <4>2. PICK k \in DOMAIN wire : i < k /\ wire[k].kind = "clear"
        BY <1>3, <1>13, <2>1, <4>1
      <4> QED BY <1>3, <1>4, <3>2, <4>2
    <3> QED BY <3>1, <3>2
  <2>2. ASSUME NEW i \in DOMAIN wire', wire'[i].kind = "delta"
        PROVE  \/ Quiet(turns', wire'[i].of[1]) \/ Hears(turns', wire'[i].of[1], wire'[i].of)
               \/ \E k \in DOMAIN wire' : i < k /\ wire'[k].kind = "clear"
    <3>1. CASE i \notin DOMAIN wire
      <4>1. wire'[i].of[1] = t
        BY <1>6, <2>2, <3>1
      <4> QED BY <1>11, <2>2, <3>1, <4>1 DEF Hears
    <3>2. CASE i \in DOMAIN wire
      <4> DEFINE u == wire[i].of[1]
      <4>1. /\ u \in DOMAIN turns
            /\ Quiet(turns, u) \/ Hears(turns, u, wire[i].of) \/ \E k \in DOMAIN wire : i < k /\ wire[k].kind = "clear"
        BY <1>3, <2>2, <3>2 DEF WireOfTurns, WireInVoices
      <4>2. CASE \E k \in DOMAIN wire : i < k /\ wire[k].kind = "clear"
        BY <1>3, <4>2
      <4>3. CASE u # t
        <5>1. Quiet(turns', wire'[i].of[1]) = Quiet(turns, u) /\ Hears(turns', wire'[i].of[1], wire'[i].of) = Hears(turns, u, wire[i].of)
          <6>1. turns'[u] = turns[u] /\ wire'[i] = wire[i] /\ wire'[i].of[1] = u
            BY <1>2, <1>3, <3>2, <4>1, <4>3
          <6> HIDE DEF u
          <6> QED BY <6>1 DEF Quiet, Hears
        <5> QED BY <1>3, <4>1, <5>1
      <4>4. CASE u = t
        <5>1. CASE turns'[t].stage = "over"
          BY <1>3, <3>2, <4>4, <5>1 DEF Quiet
        <5>2. CASE ~Hearing(t)
          BY <1>3, <1>13, <2>2, <3>2, <4>4, <5>2
        <5>3. CASE \E k \in DOMAIN wire' \ DOMAIN wire : wire'[k].kind = "clear"
          BY <1>4, <3>2, <5>3
        <5> QED BY <1>7, <5>1, <5>2, <5>3
      <4> QED BY <4>3, <4>4
    <3> QED BY <3>1, <3>2
  <2> QED BY <2>1, <2>2 DEF WireInVoices
<1>15. TextOfOne'
  <2>1. Talk!UnderWay' = Talk!UnderWay /\ t \in Talk!UnderWay
    BY <1>2 DEF Talk!UnderWay
  <2>2. Alone' => Alone
    BY <2>1 DEF Alone
  <2>3. ASSUME NEW a, Alone, GoesOn(a) PROVE GoesOn(a)'
    <3>1. ASSUME NEW j \in DOMAIN wire', wire'[j].kind = "delta"
          PROVE  wire'[j].of = a \/ \E k \in DOMAIN wire' : k < j /\ wire'[k].kind = "clear"
      <4>1. CASE j \in DOMAIN wire
        BY <1>3, <2>3, <3>1, <4>1 DEF GoesOn
      <4>2. CASE j \notin DOMAIN wire
        <5>1. ~Hearing(t)
          BY <1>6, <3>1, <4>2
        <5>2. \E k \in DOMAIN wire : wire[k].kind = "clear"
          BY <1>9, <2>1, <2>3, <5>1 DEF GoesOn, Hears, Hearing
        <5> QED BY <1>3, <1>4, <4>2, <5>2
      <4> QED BY <4>1, <4>2
    <3>2. ASSUME NEW u \in Talk!UnderWay
          PROVE  Quiet(turns', u) \/ Hears(turns', u, a) \/ \E k \in DOMAIN wire' : wire'[k].kind = "clear"
      <4>1. u = t
        BY <2>1, <2>3, <3>2 DEF Alone
      <4>2. CASE turns'[t].stage = "over"
        BY <1>9, <4>1, <4>2 DEF Quiet
      <4>3. CASE ~Hearing(t)
        <5>1. \E k \in DOMAIN wire : wire[k].kind = "clear"
          BY <1>9, <2>1, <2>3, <4>3 DEF GoesOn, Hears, Hearing
        <5> QED BY <1>3, <5>1
      <4>4. CASE \E k \in DOMAIN wire' \ DOMAIN wire : wire'[k].kind = "clear"
        BY <4>4
      <4> QED BY <1>7, <4>2, <4>3, <4>4
    <3> QED BY <2>1, <3>1, <3>2 DEF GoesOn
  <2> QED BY <1>2, <2>2, <2>3 DEF TextOfOne
<1> QED BY <1>12, <1>14, <1>15

(* A signal is taken from the wire: what is behind it moves up. *)
LEMMA MovesUp ==
    ASSUME wire \in Seq(WireRecord), wire # <<>>, wire' = Tail(wire)
    PROVE  /\ wire' \in Seq(WireRecord) /\ 1 \in DOMAIN wire /\ Head(wire) = wire[1]
           /\ Head(wire) \in WireRecord
           /\ \A i \in DOMAIN wire' : i \in Nat \ {0} /\ i + 1 \in DOMAIN wire /\ wire'[i] = wire[i + 1]
           /\ \A i \in DOMAIN wire \ {1} : i - 1 \in DOMAIN wire' /\ wire'[i - 1] = wire[i]
OBVIOUS

(* Of what moves up, the pieces are still apart. *)
LEMMA StillInVoices ==
    ASSUME VoiceInv, wire # <<>>, wire' = Tail(wire),
           \A i \in DOMAIN wire : wire[i].kind = "delta" =>
              /\ (Quiet(turns, wire[i].of[1]) => turns'[wire[i].of[1]].stage \in {"over", "told"})
              /\ (turns'[wire[i].of[1]] = turns[wire[i].of[1]]
                    \/ turns'[wire[i].of[1]].stage \in {"over", "told"})
    PROVE  WireInVoices'
<1> USE DEF VoiceInv
<1>1. /\ wire \in Seq(WireRecord) /\ wire' \in Seq(WireRecord)
      /\ \A i \in DOMAIN wire' : i \in Nat \ {0} /\ i + 1 \in DOMAIN wire /\ wire'[i] = wire[i + 1]
      /\ \A i \in DOMAIN wire \ {1} : i - 1 \in DOMAIN wire' /\ wire'[i - 1] = wire[i]
      /\ DOMAIN wire \subseteq Nat \ {0}
  BY MovesUp DEF WireOfTurns
<1>2. ASSUME NEW i \in DOMAIN wire', NEW j \in DOMAIN wire', i < j,
             wire'[i].kind = "delta", wire'[j].kind = "delta", wire'[i].of[1] = wire'[j].of[1]
      PROVE  \/ wire'[i].of = wire'[j].of
             \/ \E k \in DOMAIN wire' : i < k /\ k < j /\ wire'[k].kind = "clear"
  <2>1. \/ wire'[i].of = wire'[j].of
        \/ \E k \in DOMAIN wire : i + 1 < k /\ k < j + 1 /\ wire[k].kind = "clear"
    <3>1. i + 1 < j + 1
      BY <1>1, <1>2
    <3> QED BY <1>1, <1>2, <3>1 DEF WireInVoices
  <2>2. CASE \E k \in DOMAIN wire : i + 1 < k /\ k < j + 1 /\ wire[k].kind = "clear"
    <3>1. PICK k \in DOMAIN wire : i + 1 < k /\ k < j + 1 /\ wire[k].kind = "clear"
      BY <2>2
    <3>2. k # 1 /\ i < k - 1 /\ k - 1 < j
      BY <1>1, <3>1
    <3> QED BY <1>1, <3>1, <3>2
  <2> QED BY <2>1, <2>2
<1>3. ASSUME NEW i \in DOMAIN wire', wire'[i].kind = "delta"
      PROVE  \/ Quiet(turns', wire'[i].of[1]) \/ Hears(turns', wire'[i].of[1], wire'[i].of)
             \/ \E k \in DOMAIN wire' : i < k /\ wire'[k].kind = "clear"
  <2> DEFINE u == wire[i + 1].of[1]
  <2>1. i + 1 \in DOMAIN wire /\ wire'[i] = wire[i + 1]
    BY <1>1
  <2>2. \/ Quiet(turns, u) \/ Hears(turns, u, wire[i + 1].of)
        \/ \E k \in DOMAIN wire : i + 1 < k /\ wire[k].kind = "clear"
    BY <1>3, <2>1 DEF WireInVoices
  <2>3. turns'[u].stage \in {"over", "told"} => Quiet(turns', wire'[i].of[1])
    BY <2>1 DEF Quiet
  <2>4. turns'[u] = turns[u] /\ Hears(turns, u, wire[i + 1].of) => Hears(turns', wire'[i].of[1], wire'[i].of)
    BY <2>1 DEF Hears
  <2>5. CASE \E k \in DOMAIN wire : i + 1 < k /\ wire[k].kind = "clear"
    <3>1. PICK k \in DOMAIN wire : i + 1 < k /\ wire[k].kind = "clear"
      BY <2>5
    <3>2. k # 1 /\ i < k - 1
      BY <1>1, <3>1
    <3> QED BY <1>1, <3>1, <3>2
  <2> QED BY <1>3, <2>1, <2>2, <2>3, <2>4, <2>5
<1> QED BY <1>2, <1>3 DEF WireInVoices

(* A piece is shown, or what was said is taken back. *)
LEMMA ShowsKeeps ==
    ASSUME VoiceInv, wire # <<>>, wire' = Tail(wire), Head(wire).kind \in {"delta", "clear", "finished"},
           UNCHANGED <<turns, memory>>, pending' = pending,
           \/ streaming' = streaming /\ (pending => Head(wire).kind = "finished")
           \/ pending /\ Head(wire).kind = "clear" /\ streaming' = {}
           \/ pending /\ Head(wire).kind = "delta" /\ streaming' = streaming \cup {Head(wire).of},
           ChatTypes'
    PROVE  VoiceInv'
<1> USE DEF VoiceInv
<1>1. /\ wire \in Seq(WireRecord) /\ wire' \in Seq(WireRecord)
      /\ 1 \in DOMAIN wire /\ Head(wire) = wire[1]
      /\ \A i \in DOMAIN wire' : i \in Nat \ {0} /\ i + 1 \in DOMAIN wire /\ wire'[i] = wire[i + 1]
      /\ \A i \in DOMAIN wire \ {1} : i - 1 \in DOMAIN wire' /\ wire'[i - 1] = wire[i]
      /\ DOMAIN wire \subseteq Nat \ {0}
  BY MovesUp DEF WireOfTurns
<1>2. turns' = turns /\ Talk!UnderWay' = Talk!UnderWay /\ (Alone' => Alone)
  BY DEF Talk!UnderWay, Alone
<1>3. WireOfTurns'
  <2>1. \A i \in DOMAIN wire' : wire'[i].kind = "delta" =>
          wire'[i].of[1] \in DOMAIN turns' /\ turns'[wire'[i].of[1]].stage # "told"
    BY <1>1, <1>2 DEF WireOfTurns
  <2>2. \A i \in DOMAIN wire' : wire'[i].kind \in {"reply", "fail"} =>
          /\ wire'[i].of[1] \in DOMAIN turns' /\ Quiet(turns', wire'[i].of[1])
          /\ \A j \in DOMAIN wire' : j > i /\ wire'[j].kind = "delta" => wire'[j].of[1] # wire'[i].of[1]
    BY <1>1, <1>2 DEF WireOfTurns, Quiet
  <2> QED BY <1>1, <2>1, <2>2 DEF WireOfTurns
<1>4. WireInVoices'
  BY <1>2, StillInVoices DEF Quiet
<1>5. TextOfOne'
  <2> SUFFICES ASSUME Alone
               PROVE  \/ streaming' = {}
                      \/ \E a : streaming' = {a} /\ (pending' => GoesOn(a)')
    BY <1>2 DEF TextOfOne
  <2>1. ASSUME NEW a, wire[1].kind # "clear", GoesOn(a) PROVE GoesOn(a)'
    <3>1. ASSUME NEW j \in DOMAIN wire', wire'[j].kind = "delta"
          PROVE  wire'[j].of = a \/ \E k \in DOMAIN wire' : k < j /\ wire'[k].kind = "clear"
      <4>1. j + 1 \in DOMAIN wire /\ wire'[j] = wire[j + 1] /\ j \in Nat
        BY <1>1
      <4>2. CASE \E k \in DOMAIN wire : k < j + 1 /\ wire[k].kind = "clear"
        <5>1. PICK k \in DOMAIN wire : k < j + 1 /\ wire[k].kind = "clear"
          BY <4>2
        <5>2. k # 1 /\ k - 1 < j
          BY <1>1, <2>1, <4>1, <5>1
        <5> QED BY <1>1, <5>1, <5>2
      <4> QED BY <2>1, <3>1, <4>1, <4>2 DEF GoesOn
    <3>2. ASSUME NEW u \in Talk!UnderWay
          PROVE  Quiet(turns', u) \/ Hears(turns', u, a) \/ \E k \in DOMAIN wire' : wire'[k].kind = "clear"
      <4>1. Quiet(turns, u) \/ Hears(turns, u, a) \/ \E k \in DOMAIN wire : wire[k].kind = "clear"
        BY <2>1 DEF GoesOn
      <4>2. Quiet(turns', u) = Quiet(turns, u) /\ Hears(turns', u, a) = Hears(turns, u, a)
        BY <1>2 DEF Quiet, Hears
      <4>3. (\E k \in DOMAIN wire : wire[k].kind = "clear") =>
              \E k \in DOMAIN wire' : wire'[k].kind = "clear"
        BY <1>1, <2>1
      <4> QED BY <4>1, <4>2, <4>3
    <3> QED BY <1>2, <3>1, <3>2 DEF GoesOn
  <2>2. CASE streaming' = streaming /\ (pending => Head(wire).kind = "finished")
    BY <1>1, <2>1, <2>2 DEF TextOfOne
  <2>3. CASE pending /\ Head(wire).kind = "delta" /\ streaming' = streaming \cup {Head(wire).of}
    <3> DEFINE d == wire[1].of
    <3>1. wire[1].kind = "delta" /\ d[1] \in Talk!UnderWay
      BY <1>1, <2>3 DEF WireOfTurns, Talk!UnderWay
    <3>2. GoesOn(d)
      <4>1. ASSUME NEW j \in DOMAIN wire, wire[j].kind = "delta"
            PROVE  wire[j].of = d \/ \E k \in DOMAIN wire : k < j /\ wire[k].kind = "clear"
        <5>1. wire[j].of[1] = d[1]
          BY <3>1, <4>1 DEF WireOfTurns, Talk!UnderWay, Alone
        <5>2. CASE j = 1
          BY <5>2
        <5>3. CASE j # 1
          <6>1. 1 < j
            BY <1>1, <5>3
          <6> QED BY <1>1, <3>1, <4>1, <5>1, <6>1 DEF WireInVoices
        <5> QED BY <5>2, <5>3
      <4>2. ASSUME NEW u \in Talk!UnderWay
            PROVE  Quiet(turns, u) \/ Hears(turns, u, d) \/ \E k \in DOMAIN wire : wire[k].kind = "clear"
        <5>1. u = d[1]
          BY <3>1 DEF Alone
        <5> QED BY <1>1, <3>1, <5>1 DEF WireInVoices
      <4> QED BY <4>1, <4>2 DEF GoesOn
    <3>3. streaming' = {d}
      <4>1. CASE streaming = {}
        BY <1>1, <2>3, <4>1
      <4>2. ASSUME NEW a, streaming = {a}, GoesOn(a) PROVE streaming' = {d}
        <5>1. d = a
          <6>1. ~\E k \in DOMAIN wire : k < 1
            BY <1>1
          <6> QED BY <1>1, <3>1, <4>2, <6>1 DEF GoesOn
        <5> QED BY <1>1, <2>3, <4>2, <5>1
      <4> QED BY <2>3, <4>1, <4>2 DEF TextOfOne
    <3> HIDE DEF d
    <3> QED BY <2>1, <3>1, <3>2, <3>3
  <2> QED BY <2>2, <2>3
<1> QED BY <1>3, <1>4, <1>5

(* The outcome of a turn is shown. *)
LEMMA FinishesKeeps ==
    ASSUME VoiceInv, wire # <<>>, wire' = Tail(wire), Head(wire).kind \in {"reply", "fail"},
           TurnTold(Head(wire).of[1]), streaming' = {}, ChatTypes'
    PROVE  VoiceInv'
<1> USE DEF VoiceInv
<1> DEFINE x == wire[1].of[1]
<1>1. /\ wire \in Seq(WireRecord) /\ wire' \in Seq(WireRecord)
      /\ 1 \in DOMAIN wire /\ Head(wire) = wire[1]
      /\ \A i \in DOMAIN wire' : i \in Nat \ {0} /\ i + 1 \in DOMAIN wire /\ wire'[i] = wire[i + 1]
      /\ DOMAIN wire \subseteq Nat \ {0}
  BY MovesUp DEF WireOfTurns
<1>2. /\ DOMAIN turns' = DOMAIN turns /\ x \in DOMAIN turns /\ turns'[x].stage = "told"
      /\ \A u \in DOMAIN turns \ {x} : turns'[u] = turns[u]
  BY <1>1 DEF TurnTold, WireOfTurns
<1>3. \A i \in DOMAIN wire : i # 1 /\ wire[i].kind = "delta" => wire[i].of[1] # x
  <2>1. \A i \in DOMAIN wire : i # 1 => i > 1
    BY <1>1
  <2> QED BY <1>1, <2>1 DEF WireOfTurns
<1>4. WireOfTurns'
  <2>1. \A i \in DOMAIN wire' : wire'[i].kind = "delta" =>
          wire'[i].of[1] \in DOMAIN turns' /\ turns'[wire'[i].of[1]].stage # "told"
    BY <1>1, <1>2, <1>3 DEF WireOfTurns
  <2>2. ASSUME NEW i \in DOMAIN wire', wire'[i].kind \in {"reply", "fail"}
        PROVE  /\ wire'[i].of[1] \in DOMAIN turns' /\ Quiet(turns', wire'[i].of[1])
               /\ \A j \in DOMAIN wire' : j > i /\ wire'[j].kind = "delta" => wire'[j].of[1] # wire'[i].of[1]
    <3>1. wire[i + 1].of[1] \in DOMAIN turns /\ Quiet(turns, wire[i + 1].of[1])
      BY <1>1, <2>2 DEF WireOfTurns
    <3>2. Quiet(turns', wire'[i].of[1])
      BY <1>1, <1>2, <3>1 DEF Quiet
    <3>3. \A j \in DOMAIN wire' : j > i /\ wire'[j].kind = "delta" => wire'[j].of[1] # wire'[i].of[1]
      BY <1>1, <2>2 DEF WireOfTurns
    <3> QED BY <1>1, <1>2, <3>1, <3>2, <3>3
  <2> QED BY <1>1, <2>1, <2>2 DEF WireOfTurns
<1>5. WireInVoices'
  <2>1. ASSUME NEW i \in DOMAIN wire, wire[i].kind = "delta"
        PROVE  /\ (Quiet(turns, wire[i].of[1]) => turns'[wire[i].of[1]].stage \in {"over", "told"})
               /\ (turns'[wire[i].of[1]] = turns[wire[i].of[1]]
                     \/ turns'[wire[i].of[1]].stage \in {"over", "told"})
    <3>1. wire[i].of[1] \in DOMAIN turns
      BY <2>1 DEF WireOfTurns
    <3> QED BY <1>2, <3>1 DEF Quiet
  <2> QED BY <2>1, StillInVoices
<1>6. TextOfOne'
  BY DEF TextOfOne
<1> QED BY <1>4, <1>5, <1>6

(* A set of at most one element. *)
LEMMA FewElements ==
    ASSUME NEW S, IsFiniteSet(S), Cardinality(S) <= 1
    PROVE  \A x, y \in S : x = y
<1> SUFFICES ASSUME NEW x \in S, NEW y \in S PROVE x = y
  OBVIOUS
<1>1. Cardinality(S) \in Nat
  BY FS_CardinalityType
<1>2. CASE Cardinality(S) = 0
  BY <1>2, FS_EmptySet
<1>3. CASE Cardinality(S) = 1
  <2>1. \E z : S = {z}
    BY <1>3, FS_Singleton
  <2> QED BY <2>1
<1> QED BY <1>1, <1>2, <1>3

(* Where the text is of one attempt, there is one voice. *)
LEMMA OneVoiceThen == VoiceInv => Talk!OneVoice
<1> SUFFICES ASSUME VoiceInv, Talk!Cardinality(Talk!UnderWay) <= 1
             PROVE  Talk!Cardinality(streaming) <= 1
  BY DEF Talk!OneVoice
<1>1. \A S : Talk!Cardinality(S) = Cardinality(S)
  BY DEF Talk!Cardinality, Cardinality
<1>2. IsFiniteSet(Talk!UnderWay)
  <2>1. Len(turns) \in Nat /\ DOMAIN turns = 1..Len(turns)
    BY DEF VoiceInv, ChatTypes
  <2>2. IsFiniteSet(1..Len(turns))
    <3>1. 1 \in Int /\ Len(turns) \in Int
      BY <2>1
    <3> QED BY <3>1, FS_Interval, Zenon
  <2>3. Talk!UnderWay \in SUBSET (1..Len(turns))
    BY <2>1 DEF Talk!UnderWay
  <2> QED BY <2>2, <2>3, FS_Subset
<1>3. Alone
  BY <1>1, <1>2, FewElements DEF Alone
<1>4. streaming = {} \/ \E a : streaming = {a}
  BY <1>3 DEF VoiceInv, TextOfOne
<1>5. Cardinality(streaming) \in {0, 1}
  BY <1>4, FS_EmptySet, FS_Singleton
<1> QED BY <1>1, <1>5

(* Nothing is said when the conversation begins. *)
LEMMA VoiceStarts == Talk!ChatInit => VoiceInv
<1> SUFFICES ASSUME Talk!ChatInit PROVE VoiceInv
  OBVIOUS
<1>1. wire = <<>> /\ streaming = {} /\ ChatTypes
  BY ChatStarts DEF Talk!ChatInit, ChatInv
<1>2. wire \in Seq(WireRecord) /\ DOMAIN wire = {}
  BY <1>1
<1> QED BY <1>1, <1>2 DEF VoiceInv, WireOfTurns, WireInVoices, TextOfOne

(* Where the wire and the turns' attempts stay, the voices do. *)
LEMMA SameVoices ==
    ASSUME VoiceInv, ChatTypes', wire' = wire, DOMAIN turns \subseteq DOMAIN turns',
           \A t \in DOMAIN turns :
              /\ turns'[t].stage = turns[t].stage /\ turns'[t].round = turns[t].round
              /\ turns'[t].tried = turns[t].tried /\ turns'[t].said = turns[t].said,
           TextOfOne'
    PROVE  VoiceInv'
<1> USE DEF VoiceInv
<1>1. \A t \in DOMAIN turns :
        /\ Quiet(turns', t) = Quiet(turns, t) /\ \A a : Hears(turns', t, a) = Hears(turns, t, a)
        /\ turns'[t].stage = turns[t].stage
  BY DEF Quiet, Hears
<1>2. WireOfTurns'
  BY <1>1 DEF WireOfTurns
<1>3. WireInVoices'
  <2>1. \A i \in DOMAIN wire : wire[i].kind = "delta" => wire[i].of[1] \in DOMAIN turns
    BY DEF WireOfTurns
  <2> QED BY <1>1, <2>1 DEF WireInVoices
<1> QED BY <1>2, <1>3

(* Every step of the conversation keeps the voices apart. *)
LEMMA VoiceStays == VoiceInv /\ ChatInv' /\ [Talk!ChatNext]_(Talk!chatVars) => VoiceInv'
<1> SUFFICES ASSUME VoiceInv, ChatInv', [Talk!ChatNext]_(Talk!chatVars) PROVE VoiceInv'
  OBVIOUS
<1>0. ChatTypes' /\ ChatTypes
  BY DEF ChatInv, VoiceInv
<1>1. CASE UNCHANGED <<turns, wire, pending, streaming>>
  <2>1. TextOfOne'
    <3>1. Talk!UnderWay' = Talk!UnderWay
      BY <1>1 DEF Talk!UnderWay
    <3> QED BY <1>1, <3>1 DEF VoiceInv, TextOfOne, Alone, GoesOn
  <2> QED BY <1>0, <1>1, <2>1, SameVoices
<1>2. ASSUME NEW c, LeftBehind(c), wire' = wire, streaming' = streaming, pending' = FALSE
      PROVE  VoiceInv'
  <2>1. Talk!UnderWay' = Talk!UnderWay
    BY <1>2 DEF LeftBehind, Talk!UnderWay
  <2>2. TextOfOne'
    BY <1>2, <2>1 DEF VoiceInv, TextOfOne, Alone
  <2>3. DOMAIN turns' = DOMAIN turns /\ \A t \in DOMAIN turns :
              /\ turns'[t].stage = turns[t].stage /\ turns'[t].round = turns[t].round
              /\ turns'[t].tried = turns[t].tried /\ turns'[t].said = turns[t].said
    BY <1>2 DEF LeftBehind
  <2> QED BY <1>0, <1>2, <2>2, <2>3, SameVoices
<1>3. CASE Talk!Send
  <2>1. /\ turns' = Append(turns, Talk!Asked(current')) /\ streaming' = {} /\ wire' = wire
    BY <1>3 DEF Talk!Send
  <2>2. /\ DOMAIN turns \subseteq DOMAIN turns' /\ \A t \in DOMAIN turns : turns'[t] = turns[t]
    BY <1>0, <2>1 DEF ChatTypes
  <2>3. TextOfOne'
    BY <2>1 DEF TextOfOne
  <2> QED BY <1>0, <2>1, <2>2, <2>3, SameVoices
<1>4. CASE Talk!StartNew
  <2>1. LeftBehind(0)
    BY <1>0, <1>4, LeavesBehind DEF Talk!StartNew
  <2> QED BY <1>2, <1>4, <2>1 DEF Talk!StartNew
<1>5. ASSUME NEW c \in Convs, Talk!Open(c) PROVE VoiceInv'
  <2>1. LeftBehind(c)
    BY <1>0, <1>5, LeavesBehind DEF Talk!Open
  <2> QED BY <1>2, <1>5, <2>1 DEF Talk!Open
<1>6. ASSUME NEW c \in Convs, Talk!Delete(c) PROVE VoiceInv'
  <2>1. CASE c = current
    <3>1. LeftBehind(0)
      BY <1>0, <1>6, <2>1, LeavesBehind DEF Talk!Delete
    <3> QED BY <1>2, <1>6, <2>1, <3>1 DEF Talk!Delete
  <2>2. CASE c # current
    BY <1>1, <1>6, <2>2 DEF Talk!Delete
  <2> QED BY <2>1, <2>2
<1>7. CASE Talk!Deliver
  <2>1. wire # <<>> /\ wire' = Tail(wire)
    BY <1>7 DEF Talk!Deliver
  <2>2. CASE Head(wire).kind \in {"delta", "clear"} /\ Talk!Shows(Head(wire))
    BY <1>0, <2>1, <2>2, ShowsKeeps DEF Talk!Shows
  <2>3. CASE Head(wire).kind = "finished" /\ Talk!Unlocks
    BY <1>0, <2>1, <2>3, ShowsKeeps DEF Talk!Unlocks
  <2>4. CASE Head(wire).kind \in {"reply", "fail"} /\ Talk!Finishes(Head(wire))
    <3>1. TurnTold(Head(wire).of[1]) /\ streaming' = {}
      BY <1>0, <2>4, FinishTells DEF Talk!Finishes
    <3> QED BY <1>0, <2>1, <2>4, <3>1, FinishesKeeps
  <2> QED BY <1>7, <2>2, <2>3, <2>4 DEF Talk!Deliver
<1>8. ASSUME NEW t \in DOMAIN turns,
             \/ Talk!Begin(t) \/ Talk!Chunk(t) \/ Talk!NextProvider(t) \/ Talk!UseTools(t)
             \/ Talk!AskAgain(t) \/ Talk!Answer(t) \/ Talk!Fails(t) \/ Talk!TimesOut(t)
      PROVE  VoiceInv'
  <2>1. Grows(t)
    BY <1>0, <1>8, AgentGrows DEF VoiceInv, WireOfTurns
  <2> QED BY <1>0, <2>1, GrowsKeeps
<1>9. CASE UNCHANGED Talk!chatVars
  BY <1>1, <1>9 DEF Talk!chatVars
<1>10. CASE Talk!ChatNext
  BY <1>3, <1>4, <1>5, <1>6, <1>7, <1>8, <1>10 DEF Talk!ChatNext
<1> QED BY <1>9, <1>10

(* The text in the bubble is of one attempt of one provider                   *)
(* (ProviderManager.stream takes back what a provider said before it broke),  *)
(* however many providers, rounds and turns there are.                        *)
THEOREM VoicesApart == Spec => []OneVoice
<1>1. Init => ChatInv /\ VoiceInv
  BY ChatStarts, VoiceStarts DEF Init
<1>2. ChatInv /\ VoiceInv /\ [Next]_vars => ChatInv' /\ VoiceInv'
  BY ChatSteps, ChatStays, VoiceStays
<1>3. VoiceInv => OneVoice
  BY OneVoiceThen DEF OneVoice
<1> QED BY <1>1, <1>2, <1>3, PTL DEF Spec

-----------------------------------------------------------------------------
(* The runner.                                                              *)
Said == Runner!Outcomes \cup {"finished"}
SignalRecord == [of : Runner!Handles, what : Said]

RunnerTypes ==
    /\ task \in [Runner!Handles -> {"none", "queued", "running", "over"}]
    /\ keyOf \in [Runner!Handles -> Keys \cup {NoKey}]
    /\ active \in [Keys -> Runner!Handles \cup {0}]
    /\ signals \in Seq(SignalRecord)
    /\ shown \in [Runner!Handles -> Seq(Said)]

(* The work of "h" was submitted after that of "g", under the same key. *)
Newer(g, h) == g < h /\ keyOf[g] = keyOf[h] /\ keyOf[g] \in Keys

(* The interface thread numbers its submissions. *)
InOrder == \A g, h \in Runner!Handles : g < h /\ task[g] = "none" => task[h] = "none"

(* Nothing is told of work that is not over. *)
ToldIsOver ==
    /\ \A i \in DOMAIN signals : task[signals[i].of] = "over"
    /\ \A h \in Runner!Handles : shown[h] = <<>> \/ task[h] = "over"

(* Work that still may tell its outcome is that which holds its key, and no   *)
(* later work has that key.                                                   *)
OnlyTheLast ==
    /\ \A g \in Runner!Used :
          keyOf[g] \in Keys => g \in cancelled \/ task[g] = "over" \/ active[keyOf[g]] = g
    /\ \A k \in Keys : active[k] # 0 =>
          /\ task[active[k]] # "none" /\ keyOf[active[k]] = k
          /\ \A h \in Runner!Used : keyOf[h] = k => h <= active[k]

(* No older outcome waits behind a signal of newer work, or is waiting when   *)
(* newer work has given its own.                                              *)
QueueInOrder ==
    /\ \A i, j \in DOMAIN signals :
          i < j /\ signals[j].what \in Runner!Outcomes => ~Newer(signals[j].of, signals[i].of)
    /\ \A h \in Runner!Handles : \A j \in DOMAIN signals :
          Runner!Answered(h) /\ signals[j].what \in Runner!Outcomes => ~Newer(signals[j].of, h)

RunnerInv == RunnerTypes /\ InOrder /\ ToldIsOver /\ OnlyTheLast /\ QueueInOrder

(* A signal is of a handle. *)
LEMMA SignalsOf ==
    ASSUME RunnerTypes, NEW i \in DOMAIN signals
    PROVE  signals[i] \in SignalRecord /\ signals[i].of \in Runner!Handles /\ signals[i].what \in Said
<1>1. signals[i] \in SignalRecord
  BY DEF RunnerTypes
<1> QED BY <1>1 DEF SignalRecord

(* Work that was not cancelled and still runs is the last of its key. *)
LEMMA LastOfItsKey ==
    ASSUME RunnerInv, NEW g \in Runner!Handles, task[g] \in {"queued", "running"}, g \notin cancelled,
           NEW h \in Runner!Used
    PROVE  ~Newer(g, h)
<1> SUFFICES ASSUME Newer(g, h) PROVE FALSE
  OBVIOUS
<1>1. active[keyOf[g]] = g /\ g # 0 /\ keyOf[g] \in Keys /\ keyOf[h] = keyOf[g] /\ g < h
  BY DEF RunnerInv, OnlyTheLast, Newer, Runner!Used, Runner!Handles
<1>2. h <= g
  BY <1>1 DEF RunnerInv, OnlyTheLast
<1> QED BY <1>1, <1>2, WorkAssumptions DEF Runner!Handles, Runner!Used, Runner!RunnerAssumption

(* The work of "h" is over and says how: an outcome only if it is wanted. *)
Ends(h) ==
    /\ h \in Runner!Handles /\ task[h] \in {"queued", "running"}
    /\ task' = [task EXCEPT ![h] = "over"]
    /\ signals' \in Seq(SignalRecord) /\ DOMAIN signals \subseteq DOMAIN signals'
    /\ \A i \in DOMAIN signals : signals'[i] = signals[i]
    /\ \A i \in DOMAIN signals' \ DOMAIN signals :
          signals'[i].of = h /\ (signals'[i].what = "finished" \/ h \notin cancelled)
    /\ UNCHANGED <<keyOf, cancelled, active, shown>>

(* Work that is superseded before it begins ends. *)
LEMMA BeginEnds ==
    ASSUME RunnerTypes, NEW h \in Runner!Handles, Runner!Begin(h), h \in cancelled
    PROVE  Ends(h)
<1> DEFINE s == Runner!Signal(h, "finished")
<1>1. s \in SignalRecord /\ s.of = h /\ s.what = "finished"
  BY DEF SignalRecord, Runner!Signal, Said
<1> HIDE DEF s
<1>2. signals' = Append(signals, s) /\ signals \in Seq(SignalRecord)
  BY DEF Runner!Begin, RunnerTypes, s
<1>3. /\ signals' \in Seq(SignalRecord) /\ DOMAIN signals \subseteq DOMAIN signals'
      /\ \A i \in DOMAIN signals : signals'[i] = signals[i]
      /\ \A i \in DOMAIN signals' \ DOMAIN signals : signals'[i] = s
  BY <1>1, <1>2
<1> QED BY <1>1, <1>3 DEF Ends, Runner!Begin

(* Work that comes to its end ends. *)
LEMMA FinishEnds ==
    ASSUME RunnerTypes, NEW h \in Runner!Handles, NEW what \in Runner!Outcomes,
           Runner!Finish(h, what)
    PROVE  Ends(h)
<1> DEFINE s == Runner!Signal(h, "finished")
           o == Runner!Signal(h, what)
<1>1. /\ s \in SignalRecord /\ s.of = h /\ s.what = "finished"
      /\ o \in SignalRecord /\ o.of = h
  BY DEF SignalRecord, Runner!Signal, Said
<1>2. /\ signals \in Seq(SignalRecord)
      /\ signals' = signals \o (IF h \in cancelled THEN <<s>> ELSE <<o, s>>)
  BY DEF Runner!Finish, Runner!Tells, RunnerTypes
<1> HIDE DEF s, o
<1>3. CASE h \in cancelled
  <2>1. signals' = signals \o <<s>>
    BY <1>2, <1>3
  <2>2. /\ signals' \in Seq(SignalRecord) /\ DOMAIN signals \subseteq DOMAIN signals'
        /\ \A i \in DOMAIN signals : signals'[i] = signals[i]
        /\ \A i \in DOMAIN signals' \ DOMAIN signals : signals'[i] = s
    BY <1>1, <1>2, <2>1
  <2> QED BY <1>1, <2>2 DEF Ends, Runner!Finish
<1>4. CASE h \notin cancelled
  <2>1. signals' = signals \o <<o, s>>
    BY <1>2, <1>4
  <2>2. /\ signals' \in Seq(SignalRecord) /\ DOMAIN signals \subseteq DOMAIN signals'
        /\ \A i \in DOMAIN signals : signals'[i] = signals[i]
        /\ \A i \in DOMAIN signals' \ DOMAIN signals : signals'[i] \in {o, s}
    BY <1>1, <1>2, <2>1
  <2> QED BY <1>1, <1>4, <2>2 DEF Ends, Runner!Finish
<1> QED BY <1>3, <1>4

(* The end of work keeps the order: what is wanted is the last of its key. *)
LEMMA EndsKeeps == ASSUME RunnerInv, NEW h, Ends(h) PROVE RunnerInv'
<1> USE DEF RunnerInv
<1>1. h \in Runner!Handles /\ task'[h] = "over" /\ task[h] \in {"queued", "running"}
      /\ \A g \in Runner!Handles \ {h} : task'[g] = task[g]
  BY DEF Ends, RunnerTypes
<1>2. keyOf' = keyOf /\ cancelled' = cancelled /\ active' = active /\ shown' = shown
  BY DEF Ends
<1>3. Runner!Used' = Runner!Used
  BY <1>1 DEF Runner!Used, Runner!Handles
<1>4. RunnerTypes' /\ InOrder'
  BY <1>1, <1>2 DEF RunnerTypes, InOrder, Ends, Runner!Handles, Runner!Outcomes, Said, SignalRecord
<1>5. ToldIsOver'
  <2>1. \A i \in DOMAIN signals' : signals'[i].of \in Runner!Handles /\ task'[signals'[i].of] = "over"
    <3>1. \A i \in DOMAIN signals : signals[i].of \in Runner!Handles
      BY SignalsOf
    <3> QED BY <1>1, <3>1 DEF ToldIsOver, Ends
  <2> QED BY <1>1, <1>2, <2>1 DEF ToldIsOver, Runner!Handles
<1>6. OnlyTheLast'
  <2>1. \A g \in Runner!Used' :
          keyOf'[g] \in Keys => g \in cancelled' \/ task'[g] = "over" \/ active'[keyOf'[g]] = g
    BY <1>1, <1>2, <1>3 DEF OnlyTheLast, Runner!Used
  <2>2. \A k \in Keys : active'[k] # 0 =>
          /\ task'[active'[k]] # "none" /\ keyOf'[active'[k]] = k
          /\ \A g \in Runner!Used' : keyOf'[g] = k => g <= active'[k]
    BY <1>1, <1>2, <1>3 DEF OnlyTheLast, RunnerTypes
  <2> QED BY <2>1, <2>2 DEF OnlyTheLast
<1>7. QueueInOrder'
  <2>1. \A g, x \in Runner!Handles : Newer(g, x)' <=> Newer(g, x)
    BY <1>2 DEF Newer
  <2>2. \A x : Runner!Answered(x)' <=> Runner!Answered(x)
    BY <1>2 DEF Runner!Answered
  <2>3. \A i \in DOMAIN signals' : signals'[i] \in SignalRecord
    BY <1>4 DEF RunnerTypes
  <2>4. \A x \in Runner!Used : h \notin cancelled => ~Newer(h, x)
    BY <1>1, LastOfItsKey
  <2>5. \A i \in DOMAIN signals : signals[i].of \in Runner!Used
    <3>1. \A i \in DOMAIN signals : signals[i].of \in Runner!Handles
      BY SignalsOf
    <3> QED BY <3>1 DEF ToldIsOver, Runner!Used
  <2>6. h \in Runner!Used
    BY <1>1 DEF Runner!Used
  <2>7. \A i \in DOMAIN signals' : signals'[i].of \in Runner!Used
    BY <2>5, <2>6 DEF Ends
  <2>8. ASSUME NEW i \in DOMAIN signals', NEW j \in DOMAIN signals', i < j,
               signals'[j].what \in Runner!Outcomes
        PROVE  ~Newer(signals'[j].of, signals'[i].of)
    <3>1. CASE j \in DOMAIN signals
      <4>1. i \in DOMAIN signals
        BY <2>8, <3>1, <1>4 DEF RunnerTypes
      <4> QED BY <2>8, <3>1, <4>1 DEF Ends, QueueInOrder
    <3>2. CASE j \notin DOMAIN signals
      <4>1. signals'[j].of = h /\ h \notin cancelled
        BY <2>8, <3>2 DEF Ends, Runner!Outcomes
      <4> QED BY <2>4, <2>7, <4>1
    <3> QED BY <3>1, <3>2
  <2>9. ASSUME NEW x \in Runner!Handles, NEW j \in DOMAIN signals', Runner!Answered(x),
               signals'[j].what \in Runner!Outcomes
        PROVE  ~Newer(signals'[j].of, x)
    <3>1. CASE j \in DOMAIN signals
      BY <2>9, <3>1 DEF Ends, QueueInOrder
    <3>2. CASE j \notin DOMAIN signals
      <4>1. signals'[j].of = h /\ h \notin cancelled
        BY <2>9, <3>2 DEF Ends, Runner!Outcomes
      <4>2. x \in Runner!Used
        BY <2>9 DEF Runner!Answered, ToldIsOver, Runner!Used
      <4> QED BY <2>4, <4>1, <4>2
    <3> QED BY <3>1, <3>2
  <2> QED BY <2>1, <2>2, <2>3, <2>8, <2>9 DEF QueueInOrder, SignalRecord, Runner!Outcomes, Runner!Handles
<1> QED BY <1>4, <1>5, <1>6, <1>7

(* Work begins, and nothing is told yet. *)
LEMMA BeginKeeps ==
    ASSUME RunnerInv, NEW h \in Runner!Handles, Runner!Begin(h), h \notin cancelled
    PROVE  RunnerInv'
<1> USE DEF RunnerInv
<1>1. /\ task[h] = "queued" /\ task' = [task EXCEPT ![h] = "running"]
      /\ UNCHANGED <<keyOf, cancelled, active, shown, signals>>
  BY DEF Runner!Begin
<1>2. task'[h] = "running" /\ \A g \in Runner!Handles \ {h} : task'[g] = task[g]
  BY <1>1 DEF RunnerTypes
<1>3. Runner!Used' = Runner!Used
  BY <1>1, <1>2 DEF Runner!Used, Runner!Handles
<1>4. RunnerTypes' /\ InOrder'
  BY <1>1, <1>2 DEF RunnerTypes, InOrder, Runner!Handles, Runner!Outcomes, Said, SignalRecord
<1>5. ToldIsOver'
  <2>1. \A i \in DOMAIN signals : signals[i].of \in Runner!Handles
    BY SignalsOf
  <2> QED BY <1>1, <1>2, <2>1 DEF ToldIsOver, Runner!Handles
<1>6. OnlyTheLast'
  <2>1. \A g \in Runner!Used' :
          keyOf'[g] \in Keys => g \in cancelled' \/ task'[g] = "over" \/ active'[keyOf'[g]] = g
    BY <1>1, <1>2, <1>3 DEF OnlyTheLast, Runner!Used
  <2>2. \A k \in Keys : active'[k] # 0 =>
          /\ task'[active'[k]] # "none" /\ keyOf'[active'[k]] = k
          /\ \A g \in Runner!Used' : keyOf'[g] = k => g <= active'[k]
    BY <1>1, <1>2, <1>3 DEF OnlyTheLast, RunnerTypes
  <2> QED BY <2>1, <2>2 DEF OnlyTheLast
<1>7. QueueInOrder'
  BY <1>1 DEF QueueInOrder, Newer, Runner!Answered, Runner!Outcomes, Runner!Handles
<1> QED BY <1>4, <1>5, <1>6, <1>7

(* A submission takes its key over from the work before it. *)
LEMMA SubmitKeeps ==
    ASSUME RunnerInv, NEW h \in Runner!Handles, NEW k \in Keys \cup {NoKey}, Runner!Submit(h, k)
    PROVE  RunnerInv'
<1> USE DEF RunnerInv
<1>1. /\ task[h] = "none" /\ task' = [task EXCEPT ![h] = "queued"]
      /\ \A g \in Runner!Handles : g < h => task[g] # "none"
      /\ keyOf' = [keyOf EXCEPT ![h] = k] /\ signals' = signals /\ shown' = shown
  BY DEF Runner!Submit
<1>2. /\ task'[h] = "queued" /\ keyOf'[h] = k
      /\ \A g \in Runner!Handles \ {h} : task'[g] = task[g] /\ keyOf'[g] = keyOf[g]
  BY <1>1 DEF RunnerTypes
<1>3. /\ h \notin Runner!Used
      /\ Runner!Used' = Runner!Used \cup {h} /\ \A g \in Runner!Used : g < h
  BY <1>1, <1>2 DEF Runner!Used, Runner!Handles, InOrder
<1>4. /\ k \in Keys => /\ cancelled' = cancelled \cup ({active[k]} \ {0})
                       /\ active' = [active EXCEPT ![k] = h]
      /\ k \notin Keys => active' = active /\ cancelled' = cancelled
  BY DEF Runner!Submit
<1>5. active' \in [Keys -> Runner!Handles \cup {0}]
  BY <1>4 DEF RunnerTypes
<1>6. RunnerTypes' /\ InOrder'
  <2>1. RunnerTypes'
    BY <1>1, <1>5 DEF RunnerTypes, Runner!Handles, Runner!Outcomes, Said, SignalRecord
  <2>2. InOrder'
    BY <1>1, <1>2 DEF InOrder, Runner!Handles
  <2> QED BY <2>1, <2>2
<1>7. ToldIsOver'
  <2>1. \A i \in DOMAIN signals : signals[i].of \in Runner!Handles
    BY SignalsOf
  <2> QED BY <1>1, <1>2, <2>1 DEF ToldIsOver, Runner!Handles
<1>8. OnlyTheLast'
  <2>1. ASSUME NEW g \in Runner!Used', keyOf'[g] \in Keys
        PROVE  g \in cancelled' \/ task'[g] = "over" \/ active'[keyOf'[g]] = g
    <3>1. CASE g = h
      BY <1>2, <1>4, <2>1, <3>1 DEF RunnerTypes
    <3>2. CASE g # h
      <4>1. g \in Runner!Used /\ g \in Runner!Handles /\ keyOf'[g] = keyOf[g] /\ task'[g] = task[g]
            /\ g # 0
        BY <1>2, <1>3, <3>2 DEF Runner!Used, Runner!Handles
      <4>2. g \in cancelled \/ task[g] = "over" \/ active[keyOf[g]] = g
        BY <2>1, <4>1 DEF OnlyTheLast
      <4>3. CASE active[keyOf[g]] = g
        <5>1. CASE keyOf[g] = k
          BY <1>4, <2>1, <4>1, <4>3, <5>1
        <5>2. CASE keyOf[g] # k
          BY <1>4, <2>1, <4>1, <4>3, <5>2 DEF RunnerTypes
        <5> QED BY <5>1, <5>2
      <4>4. cancelled \subseteq cancelled'
        BY <1>4
      <4> QED BY <4>1, <4>2, <4>3, <4>4
    <3> QED BY <3>1, <3>2
  <2>2. ASSUME NEW q \in Keys, active'[q] # 0
        PROVE  /\ task'[active'[q]] # "none" /\ keyOf'[active'[q]] = q
               /\ \A g \in Runner!Used' : keyOf'[g] = q => g <= active'[q]
    <3>1. CASE q = k
      <4>1. active'[q] = h
        BY <1>4, <3>1 DEF RunnerTypes
      <4> QED BY <1>2, <1>3, <3>1, <4>1 DEF Runner!Used, Runner!Handles
    <3>2. CASE q # k
      <4>1. active'[q] = active[q] /\ active[q] \in Runner!Handles
        BY <1>4, <2>2, <3>2 DEF RunnerTypes
      <4>2. /\ task[active[q]] # "none" /\ keyOf[active[q]] = q
            /\ \A g \in Runner!Used : keyOf[g] = q => g <= active[q]
        BY <2>2, <4>1 DEF OnlyTheLast
      <4>3. active[q] # h
        BY <1>1, <4>2
      <4> QED BY <1>2, <1>3, <3>2, <4>1, <4>2, <4>3 DEF Runner!Used
    <3> QED BY <3>1, <3>2
  <2> QED BY <2>1, <2>2 DEF OnlyTheLast
<1>9. QueueInOrder'
  <2>1. \A i \in DOMAIN signals : signals[i].of \in Runner!Handles \ {h}
    <3>1. \A i \in DOMAIN signals : signals[i].of \in Runner!Handles
      BY SignalsOf
    <3> QED BY <1>1, <3>1 DEF ToldIsOver
  <2>2. \A x \in Runner!Handles : Runner!Answered(x) => x # h
    BY <1>1 DEF ToldIsOver, Runner!Answered
  <2>3. \A x, y \in Runner!Handles \ {h} :
          (x < y /\ keyOf'[x] = keyOf'[y] /\ keyOf'[x] \in Keys) <=> Newer(x, y)
    BY <1>2 DEF Newer
  <2>4. \A x : Runner!Answered(x)' <=> Runner!Answered(x)
    BY <1>1 DEF Runner!Answered
  <2>5. ASSUME NEW i \in DOMAIN signals, NEW j \in DOMAIN signals, i < j,
               signals[j].what \in Runner!Outcomes
        PROVE  ~(signals[j].of < signals[i].of /\ keyOf'[signals[j].of] = keyOf'[signals[i].of]
                 /\ keyOf'[signals[j].of] \in Keys)
    BY <2>1, <2>3, <2>5 DEF QueueInOrder
  <2>6. ASSUME NEW x \in Runner!Handles, NEW j \in DOMAIN signals, Runner!Answered(x),
               signals[j].what \in Runner!Outcomes
        PROVE  ~(signals[j].of < x /\ keyOf'[signals[j].of] = keyOf'[x]
                 /\ keyOf'[signals[j].of] \in Keys)
    BY <2>1, <2>2, <2>3, <2>6 DEF QueueInOrder
  <2> QED BY <1>1, <2>4, <2>5, <2>6 DEF QueueInOrder, Newer, Runner!Outcomes, Runner!Handles
<1> QED BY <1>6, <1>7, <1>8, <1>9

(* Work that is cancelled gives its key back. *)
LEMMA CancelKeeps == ASSUME RunnerInv, NEW k \in Keys, Runner!Cancel(k) PROVE RunnerInv'
<1> USE DEF RunnerInv
<1>1. /\ cancelled' = cancelled \cup {active[k]} /\ active' = [active EXCEPT ![k] = 0]
      /\ UNCHANGED <<task, keyOf, signals, shown>>
  BY DEF Runner!Cancel
<1>2. active'[k] = 0 /\ \A q \in Keys \ {k} : active'[q] = active[q]
  BY <1>1 DEF RunnerTypes
<1>3. RunnerTypes' /\ InOrder' /\ ToldIsOver'
  BY <1>1 DEF RunnerTypes, InOrder, ToldIsOver, Runner!Handles, Runner!Outcomes, Said, SignalRecord
<1>4. OnlyTheLast'
  BY <1>1, <1>2 DEF OnlyTheLast, Runner!Used, Runner!Handles
<1>5. QueueInOrder'
  BY <1>1 DEF QueueInOrder, Newer, Runner!Answered, Runner!Outcomes, Runner!Handles
<1> QED BY <1>3, <1>4, <1>5

(* What the interface thread takes from its queue. *)
Takes(h, what) ==
    /\ h \in Runner!Handles /\ what \in Said /\ task[h] = "over"
    /\ shown' = [shown EXCEPT ![h] = Append(shown[h], what)]
    /\ active' = active \/ \E q \in Keys : active[q] = h /\ active' = [active EXCEPT ![q] = 0]
    /\ signals' \in Seq(SignalRecord)
    /\ \A i \in DOMAIN signals' : i + 1 \in DOMAIN signals /\ signals'[i] = signals[i + 1]
    /\ 1 \in DOMAIN signals /\ signals[1].of = h /\ signals[1].what = what
    /\ UNCHANGED <<task, keyOf, cancelled>>

(* Deliver takes the signal at the head. *)
LEMMA DeliverTakes ==
    ASSUME RunnerInv, Runner!Deliver
    PROVE  \E h, what : Takes(h, what)
<1> USE DEF RunnerInv
<1> DEFINE s == Head(signals)
<1>1. signals # <<>> /\ signals \in Seq(SignalRecord) /\ signals' = Tail(signals)
  BY DEF Runner!Deliver, RunnerTypes
<1>2. /\ 1 \in DOMAIN signals /\ s = signals[1] /\ signals' \in Seq(SignalRecord)
      /\ \A i \in DOMAIN signals' : i + 1 \in DOMAIN signals /\ signals'[i] = signals[i + 1]
  BY <1>1
<1>3. s.of \in Runner!Handles /\ s.what \in Said /\ task[s.of] = "over"
  BY <1>2, SignalsOf DEF ToldIsOver
<1>4. shown' = [shown EXCEPT ![s.of] = Append(shown[s.of], s.what)]
  BY DEF Runner!Deliver
<1>5. active' = active \/ \E q \in Keys : active[q] = s.of /\ active' = [active EXCEPT ![q] = 0]
  BY <1>3 DEF Runner!Deliver, Runner!Release, RunnerTypes
<1>6. UNCHANGED <<task, keyOf, cancelled>>
  BY DEF Runner!Deliver
<1> HIDE DEF s
<1>7. Takes(s.of, s.what)
  BY <1>1, <1>2, <1>3, <1>4, <1>5, <1>6 DEF Takes
<1> QED BY <1>7

(* What is called after a signal was taken: the handle of the signal has been *)
(* answered if it was an outcome, and nobody else has.                        *)
LEMMA TakesAnswers ==
    ASSUME RunnerTypes, NEW h, NEW what, Takes(h, what), NEW x \in Runner!Handles
    PROVE  Runner!Answered(x)' <=> Runner!Answered(x) \/ (x = h /\ what \in Runner!Outcomes)
<1>1. h \in Runner!Handles /\ shown \in [Runner!Handles -> Seq(Said)]
  BY DEF Takes, RunnerTypes
<1>2. shown' = [shown EXCEPT ![h] = Append(shown[h], what)] /\ what \in Said
  BY DEF Takes
<1>3. CASE x = h
  <2> DEFINE b == shown[h]
  <2>1. shown'[x] = Append(b, what) /\ b = shown[x] /\ b \in Seq(Said)
    BY <1>1, <1>2, <1>3
  <2> HIDE DEF b
  <2>2. /\ DOMAIN Append(b, what) = DOMAIN b \cup {Len(b) + 1}
        /\ Append(b, what)[Len(b) + 1] = what
        /\ \A i \in DOMAIN b : Append(b, what)[i] = b[i]
    BY <1>2, <2>1
  <2> QED BY <1>3, <2>1, <2>2 DEF Runner!Answered, Runner!Outcomes
<1>4. CASE x # h
  <2>1. shown'[x] = shown[x]
    BY <1>1, <1>2, <1>4
  <2> QED BY <1>4, <2>1 DEF Runner!Answered, Runner!Outcomes
<1> QED BY <1>3, <1>4

(* A signal is taken. *)
LEMMA TakesKeeps == ASSUME RunnerInv, NEW h, NEW what, Takes(h, what) PROVE RunnerInv'
<1> USE DEF RunnerInv
<1>1. /\ h \in Runner!Handles /\ what \in Said /\ task[h] = "over"
      /\ shown' = [shown EXCEPT ![h] = Append(shown[h], what)]
      /\ UNCHANGED <<task, keyOf, cancelled>>
  BY DEF Takes
<1>2. RunnerTypes' /\ InOrder'
  <2>1. active' \in [Keys -> Runner!Handles \cup {0}]
    BY DEF Takes, RunnerTypes
  <2>2. shown' \in [Runner!Handles -> Seq(Said)]
    BY <1>1 DEF RunnerTypes
  <2>3. signals' \in Seq(SignalRecord)
    BY DEF Takes
  <2> QED BY <1>1, <2>1, <2>2, <2>3
          DEF RunnerTypes, InOrder, Runner!Handles, Runner!Outcomes, Said, SignalRecord
<1>3. ToldIsOver'
  <2>1. \A i \in DOMAIN signals' : task[signals'[i].of] = "over"
    BY DEF Takes, ToldIsOver
  <2>2. \A x \in Runner!Handles : shown'[x] = <<>> \/ task[x] = "over"
    BY <1>1 DEF RunnerTypes, ToldIsOver
  <2> QED BY <1>1, <2>1, <2>2 DEF ToldIsOver, Runner!Handles
<1>4. OnlyTheLast'
  <2>1. \A q \in Keys : active'[q] = active[q] \/ (active'[q] = 0 /\ active[q] = h)
    BY DEF Takes, RunnerTypes
  <2>2. Runner!Used' = Runner!Used
    BY <1>1 DEF Runner!Used, Runner!Handles
  <2>3. \A g \in Runner!Used :
          keyOf[g] \in Keys => g \in cancelled \/ task[g] = "over" \/ active'[keyOf[g]] = g
    BY <1>1, <2>1 DEF OnlyTheLast
  <2>4. \A k \in Keys : active'[k] # 0 =>
          /\ task[active'[k]] # "none" /\ keyOf[active'[k]] = k
          /\ \A g \in Runner!Used : keyOf[g] = k => g <= active'[k]
    BY <2>1 DEF OnlyTheLast
  <2> QED BY <1>1, <2>2, <2>3, <2>4 DEF OnlyTheLast
<1>5. QueueInOrder'
  <2>1. \A x, y : Newer(x, y)' <=> Newer(x, y)
    BY <1>1 DEF Newer
  <2>2. \A i \in DOMAIN signals' : i + 1 \in DOMAIN signals /\ signals'[i] = signals[i + 1]
    BY DEF Takes
  <2>3. DOMAIN signals' \subseteq Nat \ {0}
    BY <1>2 DEF RunnerTypes
  <2>4. ASSUME NEW i \in DOMAIN signals', NEW j \in DOMAIN signals', i < j,
               signals'[j].what \in Runner!Outcomes
        PROVE  ~Newer(signals'[j].of, signals'[i].of)
    <3>1. i + 1 < j + 1
      BY <2>3, <2>4
    <3> QED BY <2>2, <2>4, <3>1 DEF QueueInOrder
  <2>5. ASSUME NEW x \in Runner!Handles, NEW j \in DOMAIN signals', Runner!Answered(x)',
               signals'[j].what \in Runner!Outcomes
        PROVE  ~Newer(signals'[j].of, x)
    <3>1. CASE Runner!Answered(x)
      BY <2>2, <2>5, <3>1 DEF QueueInOrder
    <3>2. CASE x = h
      <4>1. 1 \in DOMAIN signals /\ signals[1].of = h /\ 1 < j + 1
        BY <2>3 DEF Takes
      <4> QED BY <2>2, <2>5, <3>2, <4>1 DEF QueueInOrder
    <3> QED BY <2>5, <3>1, <3>2, TakesAnswers
  <2> QED BY <2>1, <2>4, <2>5 DEF QueueInOrder, Runner!Outcomes, Runner!Handles
<1> QED BY <1>2, <1>3, <1>4, <1>5

(* No work was submitted when the runner begins. *)
LEMMA RunnerStarts == Runner!RunnerInit => RunnerInv
<1> SUFFICES ASSUME Runner!RunnerInit PROVE RunnerInv
  OBVIOUS
<1> USE DEF Runner!RunnerInit
<1>1. signals = <<>> /\ DOMAIN signals = {} /\ signals \in Seq(SignalRecord)
  OBVIOUS
<1>2. \A h \in Runner!Handles : task[h] = "none" /\ shown[h] = <<>>
  OBVIOUS
<1>3. RunnerTypes
  BY <1>1 DEF RunnerTypes
<1>4. Runner!Used = {} /\ \A k \in Keys : active[k] = 0
  BY <1>2 DEF Runner!Used
<1> QED BY <1>1, <1>2, <1>3, <1>4 DEF RunnerInv, InOrder, ToldIsOver, OnlyTheLast, QueueInOrder, Runner!Answered

(* Every step of the runner keeps the order. *)
LEMMA RunnerStays == RunnerInv /\ [Runner!RunnerNext]_(Runner!runnerVars) => RunnerInv'
<1> SUFFICES ASSUME RunnerInv, [Runner!RunnerNext]_(Runner!runnerVars) PROVE RunnerInv'
  OBVIOUS
<1>1. ASSUME NEW h \in Runner!Handles, Runner!Begin(h) PROVE RunnerInv'
  BY <1>1, BeginKeeps, BeginEnds, EndsKeeps DEF RunnerInv
<1>2. ASSUME NEW h \in Runner!Handles, NEW what \in Runner!Outcomes, Runner!Finish(h, what)
      PROVE  RunnerInv'
  BY <1>2, FinishEnds, EndsKeeps DEF RunnerInv
<1>3. CASE Runner!Deliver
  BY <1>3, DeliverTakes, TakesKeeps
<1>4. CASE UNCHANGED Runner!runnerVars
  BY <1>4 DEF Runner!runnerVars, RunnerInv, RunnerTypes, InOrder, ToldIsOver, OnlyTheLast, QueueInOrder,
              Newer, Runner!Used, Runner!Answered, Runner!Handles, Runner!Outcomes, Said, SignalRecord
<1> QED BY <1>1, <1>2, <1>3, <1>4, SubmitKeeps, CancelKeeps DEF Runner!RunnerNext

(* No step gives the outcome of older work after newer work gave its own. *)
LEMMA NoOlderAnswer ==
    ASSUME RunnerInv, [Runner!RunnerNext]_(Runner!runnerVars),
           NEW g \in Runner!Used, NEW h \in Runner!Used, Newer(g, h),
           Runner!Answered(h), Runner!Answered(g)'
    PROVE  Runner!Answered(g)
<1>1. CASE shown' = shown
  BY <1>1 DEF Runner!Answered
<1>2. CASE Runner!Deliver
  <2>1. PICK x, what : Takes(x, what)
    BY <1>2, DeliverTakes
  <2>2. CASE g = x /\ what \in Runner!Outcomes
    <3>1. 1 \in DOMAIN signals /\ signals[1].of = g /\ signals[1].what \in Runner!Outcomes
      BY <2>1, <2>2 DEF Takes
    <3> QED BY <3>1 DEF RunnerInv, QueueInOrder, Runner!Used
  <2>3. Runner!Answered(g) \/ (g = x /\ what \in Runner!Outcomes)
    BY <2>1, TakesAnswers DEF RunnerInv, Runner!Used
  <2> QED BY <2>2, <2>3
<1> QED BY <1>1, <1>2 DEF Runner!RunnerNext, Runner!runnerVars, Runner!Begin, Runner!Submit,
                         Runner!Finish, Runner!Cancel

(* The outcome of older work is never shown over that of newer work of its    *)
(* key (async_runner.py, submit and _wrap): however many submissions, keys and *)
(* cancellations there are.                                                   *)
THEOREM NewestWins == Spec => LatestWins
<1>1. Init => RunnerInv
  BY RunnerStarts DEF Init
<1>2. RunnerInv /\ [Next]_vars => RunnerInv'
  BY RunnerSteps, RunnerStays
<1> DEFINE Goal == \A g, h \in Runner!Used :
                      g < h /\ keyOf[g] = keyOf[h] /\ keyOf[g] \in Keys /\ Runner!Answered(h)
                        => (Runner!Answered(g)' => Runner!Answered(g))
<1>3. RunnerInv /\ [Next]_vars => [Goal]_(Runner!runnerVars)
  BY RunnerSteps, NoOlderAnswer DEF Newer
<1>4. LatestWins <=> [][Goal]_(Runner!runnerVars)
  BY DEF LatestWins, Runner!LatestWins
<1> HIDE DEF Goal
<1> QED BY <1>1, <1>2, <1>3, <1>4, PTL DEF Spec

-----------------------------------------------------------------------------
(* How the end of work is told: all its signals wait until its end, and what *)
(* was called of its callbacks and what still waits make one course.         *)
NoneWaits(h) == \A n \in DOMAIN signals : signals[n].of # h

OneWaits(h) ==
    \E i \in DOMAIN signals :
        /\ signals[i].of = h /\ signals[i].what = "finished"
        /\ \A n \in DOMAIN signals : signals[n].of = h => n = i

TwoWait(h) ==
    \E i, j \in DOMAIN signals :
        /\ i < j /\ signals[i].of = h /\ signals[j].of = h
        /\ signals[i].what \in Runner!Outcomes /\ signals[j].what = "finished"
        /\ \A n \in DOMAIN signals : signals[n].of = h => n \in {i, j}

OpenCourse   == {<<>>, <<"succeeded">>, <<"failed">>}
ClosedCourse == {<<"finished">>, <<"succeeded", "finished">>, <<"failed", "finished">>}

CourseOf(h) ==
    \/ task[h] # "over" /\ NoneWaits(h) /\ shown[h] = <<>>
    \/ task[h] = "over" /\ NoneWaits(h) /\ shown[h] \in ClosedCourse
    \/ task[h] = "over" /\ OneWaits(h) /\ shown[h] \in OpenCourse
    \/ task[h] = "over" /\ TwoWait(h) /\ shown[h] = <<>>

CoursesInv == cancelled \subseteq Runner!Used /\ \A h \in Runner!Handles : CourseOf(h)

(* The courses, and one more call on each of them. *)
LEMMA CourseFacts ==
    /\ OpenCourse \cup ClosedCourse = Runner!Courses
    /\ \A c \in OpenCourse : Append(c, "finished") \in ClosedCourse
    /\ \A o \in Runner!Outcomes : Append(<<>>, o) \in OpenCourse
<1>1. /\ Append(<<>>, "finished") = <<"finished">>
      /\ Append(<<"succeeded">>, "finished") = <<"succeeded", "finished">>
      /\ Append(<<"failed">>, "finished") = <<"failed", "finished">>
      /\ Append(<<>>, "succeeded") = <<"succeeded">> /\ Append(<<>>, "failed") = <<"failed">>
  <2>1. ASSUME NEW x PROVE Append(<<>>, x) = <<x>>
    OBVIOUS
  <2>2. ASSUME NEW x \in Said, NEW y \in Said PROVE Append(<<x>>, y) = <<x, y>>
    <3> DEFINE a == Append(<<x>>, y)
               b == <<x, y>>
    <3>1. <<x>> \in Seq(Said) /\ Len(<<x>>) = 1 /\ <<x>>[1] = x
      OBVIOUS
    <3>2. a \in Seq(Said) /\ Len(a) = 2 /\ a[1] = x /\ a[2] = y
      BY <3>1
    <3>3. b \in Seq(Said) /\ Len(b) = 2 /\ b[1] = x /\ b[2] = y
      OBVIOUS
    <3> HIDE DEF a, b
    <3>4. a = [i \in 1..2 |-> a[i]] /\ b = [i \in 1..2 |-> b[i]]
      BY <3>2, <3>3
    <3>5. \A i \in 1..2 : a[i] = b[i]
      BY <3>2, <3>3
    <3>6. a = b
      BY <3>4, <3>5
    <3> QED BY <3>6 DEF a, b
  <2>3. {"succeeded", "failed", "finished"} \subseteq Said
    BY DEF Said, Runner!Outcomes
  <2> QED BY <2>1, <2>2, <2>3
<1>2. \A c \in OpenCourse : Append(c, "finished") \in ClosedCourse
  BY <1>1, Zenon DEF OpenCourse, ClosedCourse
<1>3. \A o \in Runner!Outcomes : Append(<<>>, o) \in OpenCourse
  BY <1>1, Zenon DEF OpenCourse, Runner!Outcomes
<1>4. OpenCourse \cup ClosedCourse = Runner!Courses
  BY Zenon DEF OpenCourse, ClosedCourse, Runner!Courses, Runner!Outcomes
<1> QED BY <1>2, <1>3, <1>4

(* A step that leaves the calls and the signals of work alone, and does not   *)
(* end it, leaves its course alone.                                           *)
LEMMA SameCourse ==
    ASSUME NEW h \in Runner!Handles, CourseOf(h), shown'[h] = shown[h], signals' = signals,
           task'[h] = "over" <=> task[h] = "over"
    PROVE  CourseOf(h)'
BY DEF CourseOf, NoneWaits, OneWaits, TwoWait, Runner!Outcomes

(* So does a step that only adds the signals of other work. *)
LEMMA OtherCourse ==
    ASSUME RunnerTypes, NEW h \in Runner!Handles, CourseOf(h), NEW g, Ends(g), g # h
    PROVE  CourseOf(h)'
<1>1. shown'[h] = shown[h] /\ task'[h] = task[h]
  BY DEF Ends, RunnerTypes
<1>2. /\ DOMAIN signals \subseteq DOMAIN signals'
      /\ \A i \in DOMAIN signals : signals'[i] = signals[i]
      /\ \A i \in DOMAIN signals' \ DOMAIN signals : signals'[i].of # h
  BY DEF Ends
<1>3. NoneWaits(h) => NoneWaits(h)'
  BY <1>2 DEF NoneWaits
<1>4. OneWaits(h) => OneWaits(h)'
  <2> SUFFICES ASSUME NEW i \in DOMAIN signals,
                      signals[i].of = h, signals[i].what = "finished",
                      \A n \in DOMAIN signals : signals[n].of = h => n = i
               PROVE  OneWaits(h)'
    BY DEF OneWaits
  <2>1. i \in DOMAIN signals' /\ signals'[i].of = h /\ signals'[i].what = "finished"
    BY <1>2
  <2>2. \A n \in DOMAIN signals' : signals'[n].of = h => n = i
    BY <1>2
  <2> QED BY <2>1, <2>2 DEF OneWaits
<1>5. TwoWait(h) => TwoWait(h)'
  <2> SUFFICES ASSUME NEW i \in DOMAIN signals, NEW j \in DOMAIN signals,
                      i < j, signals[i].of = h, signals[j].of = h,
                      signals[i].what \in Runner!Outcomes, signals[j].what = "finished",
                      \A n \in DOMAIN signals : signals[n].of = h => n \in {i, j}
               PROVE  TwoWait(h)'
    BY DEF TwoWait
  <2>1. /\ i \in DOMAIN signals' /\ signals'[i] = signals[i]
        /\ j \in DOMAIN signals' /\ signals'[j] = signals[j]
    BY <1>2
  <2>2. \A n \in DOMAIN signals' : signals'[n].of = h => n \in {i, j}
    BY <1>2
  <2> QED BY <2>1, <2>2 DEF TwoWait, Runner!Outcomes
<1> QED BY <1>1, <1>3, <1>4, <1>5 DEF CourseOf

(* Work that is superseded before it begins only tells its end. *)
LEMMA BeginCourse ==
    ASSUME RunnerTypes, NEW h \in Runner!Handles, CourseOf(h), Runner!Begin(h), h \in cancelled
    PROVE  CourseOf(h)'
<1> DEFINE s == Runner!Signal(h, "finished")
<1>1. s \in SignalRecord /\ s.of = h /\ s.what = "finished"
  BY DEF SignalRecord, Runner!Signal, Said
<1> HIDE DEF s
<1>2. /\ signals' = Append(signals, s) /\ signals \in Seq(SignalRecord)
      /\ task[h] = "queued" /\ task'[h] = "over" /\ shown' = shown
  BY DEF Runner!Begin, RunnerTypes, s
<1>3. NoneWaits(h) /\ shown[h] = <<>>
  BY <1>2 DEF CourseOf
<1>4. /\ Len(signals) + 1 \in DOMAIN signals' /\ signals'[Len(signals) + 1] = s
      /\ \A n \in DOMAIN signals' : n # Len(signals) + 1 => n \in DOMAIN signals /\ signals'[n] = signals[n]
  BY <1>1, <1>2
<1>5. OneWaits(h)'
  BY <1>1, <1>3, <1>4 DEF OneWaits, NoneWaits
<1>6. <<>> \in OpenCourse
  BY Zenon DEF OpenCourse
<1> QED BY <1>2, <1>3, <1>5, <1>6 DEF CourseOf

(* Work that comes to its end tells its outcome first, if it is wanted. *)
LEMMA FinishCourse ==
    ASSUME RunnerTypes, NEW h \in Runner!Handles, CourseOf(h), NEW what \in Runner!Outcomes,
           Runner!Finish(h, what)
    PROVE  CourseOf(h)'
<1> DEFINE s == Runner!Signal(h, "finished")
           o == Runner!Signal(h, what)
           k == Len(signals)
<1>1. /\ s \in SignalRecord /\ s.of = h /\ s.what = "finished"
      /\ o \in SignalRecord /\ o.of = h /\ o.what = what
  BY DEF SignalRecord, Runner!Signal, Said
<1>2. /\ signals \in Seq(SignalRecord)
      /\ signals' = signals \o (IF h \in cancelled THEN <<s>> ELSE <<o, s>>)
      /\ task[h] = "running" /\ task'[h] = "over" /\ shown' = shown
  BY DEF Runner!Finish, Runner!Tells, RunnerTypes
<1> HIDE DEF s, o
<1>3. NoneWaits(h) /\ shown[h] = <<>> /\ k \in Nat
  BY <1>2 DEF CourseOf
<1>4. CASE h \in cancelled
  <2>1. signals' = signals \o <<s>>
    BY <1>2, <1>4
  <2>2. /\ k + 1 \in DOMAIN signals' /\ signals'[k + 1] = s
        /\ \A n \in DOMAIN signals' : n # k + 1 => n \in DOMAIN signals /\ signals'[n] = signals[n]
    BY <1>1, <1>2, <2>1
  <2>3. OneWaits(h)'
    <3> HIDE DEF k
    <3> QED BY <1>1, <1>3, <2>2 DEF OneWaits, NoneWaits
  <2>4. <<>> \in OpenCourse
    BY Zenon DEF OpenCourse
  <2> QED BY <1>2, <1>3, <2>3, <2>4 DEF CourseOf
<1>5. CASE h \notin cancelled
  <2>1. signals' = signals \o <<o, s>>
    BY <1>2, <1>5
  <2>2. /\ k + 1 \in DOMAIN signals' /\ signals'[k + 1] = o
        /\ k + 2 \in DOMAIN signals' /\ signals'[k + 2] = s
        /\ \A n \in DOMAIN signals' : n \notin {k + 1, k + 2} => n \in DOMAIN signals /\ signals'[n] = signals[n]
    BY <1>1, <1>2, <2>1
  <2>3. k + 1 < k + 2
    BY <1>3
  <2>4. \A n \in DOMAIN signals' : signals'[n].of = h => n \in {k + 1, k + 2}
    BY <1>3, <2>2 DEF NoneWaits
  <2>5. TwoWait(h)'
    <3> DEFINE a == k + 1
               b == k + 2
    <3>1. /\ a < b /\ a \in DOMAIN signals' /\ b \in DOMAIN signals'
          /\ signals'[a] = o /\ signals'[b] = s
          /\ \A n \in DOMAIN signals' : signals'[n].of = h => n \in {a, b}
      BY <2>2, <2>3, <2>4
    <3> HIDE DEF a, b
    <3> QED BY <1>1, <3>1 DEF TwoWait, Runner!Outcomes
  <2> QED BY <1>2, <1>3, <2>5 DEF CourseOf
<1> QED BY <1>4, <1>5

(* A signal is taken: those of other work wait one place further ahead. *)
LEMMA TakesOthers ==
    ASSUME RunnerTypes, NEW h \in Runner!Handles, CourseOf(h), NEW g, NEW what, Takes(g, what), g # h,
           signals' = Tail(signals)
    PROVE  CourseOf(h)'
<1>1. shown'[h] = shown[h] /\ task' = task
  BY DEF Takes, RunnerTypes
<1>2. /\ \A n \in DOMAIN signals' : n + 1 \in DOMAIN signals /\ signals'[n] = signals[n + 1]
      /\ \A n \in DOMAIN signals : signals[n].of = h => n - 1 \in DOMAIN signals' /\ signals'[n - 1] = signals[n]
      /\ \A n \in DOMAIN signals : n \in Int
      /\ \A n \in DOMAIN signals' : n \in Int
  <2>1. signals \in Seq(SignalRecord) /\ 1 \in DOMAIN signals /\ signals[1].of # h
    BY DEF RunnerTypes, Takes
  <2>2. signals' \in Seq(SignalRecord) /\ Len(signals') = Len(signals) - 1
        /\ \A n \in 1..Len(signals') : signals'[n] = signals[n + 1]
    BY <2>1
  <2> QED BY <2>1, <2>2
<1>3. NoneWaits(h) => NoneWaits(h)'
  BY <1>2 DEF NoneWaits
<1>4. OneWaits(h) => OneWaits(h)'
  <2> SUFFICES ASSUME NEW i \in DOMAIN signals,
                      signals[i].of = h, signals[i].what = "finished",
                      \A n \in DOMAIN signals : signals[n].of = h => n = i
               PROVE  OneWaits(h)'
    BY DEF OneWaits
  <2>1. i - 1 \in DOMAIN signals' /\ signals'[i - 1] = signals[i]
    BY <1>2
  <2>2. \A n \in DOMAIN signals' : signals'[n].of = h => n = i - 1
    BY <1>2
  <2> QED BY <2>1, <2>2 DEF OneWaits
<1>5. TwoWait(h) => TwoWait(h)'
  <2> SUFFICES ASSUME NEW i \in DOMAIN signals, NEW j \in DOMAIN signals,
                      i < j, signals[i].of = h, signals[j].of = h,
                      signals[i].what \in Runner!Outcomes, signals[j].what = "finished",
                      \A n \in DOMAIN signals : signals[n].of = h => n \in {i, j}
               PROVE  TwoWait(h)'
    BY DEF TwoWait
  <2> DEFINE a == i - 1
             b == j - 1
  <2>1. /\ a \in DOMAIN signals' /\ signals'[a] = signals[i] /\ b \in DOMAIN signals' /\ signals'[b] = signals[j]
        /\ a < b
    BY <1>2
  <2>2. ASSUME NEW n \in DOMAIN signals', signals'[n].of = h PROVE n \in {a, b}
    <3>1. n + 1 = i \/ n + 1 = j
      BY <1>2, <2>2
    <3> QED BY <1>2, <3>1
  <2> HIDE DEF a, b
  <2> QED BY <2>1, <2>2 DEF TwoWait, Runner!Outcomes
<1> QED BY <1>1, <1>3, <1>4, <1>5 DEF CourseOf

(* The call of a callback goes on with the course of its work. *)
LEMMA TakesCourse ==
    ASSUME RunnerTypes, NEW h \in Runner!Handles, CourseOf(h), NEW what, Takes(h, what),
           signals' = Tail(signals)
    PROVE  CourseOf(h)'
<1>1. shown'[h] = Append(shown[h], what) /\ task'[h] = "over" /\ task[h] = "over"
  BY DEF Takes, RunnerTypes
<1>2. /\ \A n \in DOMAIN signals' : n + 1 \in DOMAIN signals /\ signals'[n] = signals[n + 1]
      /\ \A n \in DOMAIN signals : n # 1 => n - 1 \in DOMAIN signals' /\ signals'[n - 1] = signals[n]
      /\ \A n \in DOMAIN signals : n \in Int /\ n > 0
      /\ \A n \in DOMAIN signals' : n \in Int /\ n > 0
      /\ 1 \in DOMAIN signals /\ signals[1].of = h /\ signals[1].what = what
  <2>1. signals \in Seq(SignalRecord) /\ 1 \in DOMAIN signals
    BY DEF RunnerTypes, Takes
  <2>2. signals' \in Seq(SignalRecord) /\ Len(signals') = Len(signals) - 1
        /\ \A n \in 1..Len(signals') : signals'[n] = signals[n + 1]
    BY <2>1
  <2> QED BY <2>1, <2>2 DEF Takes
<1>3. ~NoneWaits(h)
  BY <1>2 DEF NoneWaits
<1>4. ASSUME OneWaits(h), shown[h] \in OpenCourse PROVE CourseOf(h)'
  <2>1. what = "finished" /\ \A n \in DOMAIN signals : signals[n].of = h => n = 1
    BY <1>2, <1>4 DEF OneWaits
  <2>2. NoneWaits(h)'
    BY <1>2, <2>1 DEF NoneWaits
  <2>3. shown'[h] \in ClosedCourse
    BY <1>1, <1>4, <2>1, CourseFacts, Zenon
  <2> QED BY <1>1, <2>2, <2>3 DEF CourseOf
<1>5. ASSUME TwoWait(h), shown[h] = <<>> PROVE CourseOf(h)'
  <2>1. PICK i \in DOMAIN signals, j \in DOMAIN signals :
          /\ i < j /\ signals[i].of = h /\ signals[j].of = h
          /\ signals[i].what \in Runner!Outcomes /\ signals[j].what = "finished"
          /\ \A n \in DOMAIN signals : signals[n].of = h => n \in {i, j}
    BY <1>5 DEF TwoWait
  <2>2. i = 1 /\ what \in Runner!Outcomes
    BY <1>2, <2>1
  <2> DEFINE b == j - 1
  <2>3. /\ b \in DOMAIN signals' /\ signals'[b] = signals[j]
        /\ \A n \in DOMAIN signals' : signals'[n].of = h => n = b
    BY <1>2, <2>1, <2>2
  <2> HIDE DEF b
  <2>4. OneWaits(h)'
    BY <2>1, <2>3 DEF OneWaits
  <2>5. shown'[h] \in OpenCourse
    BY <1>1, <1>5, <2>2, CourseFacts, Zenon
  <2> QED BY <1>1, <2>4, <2>5 DEF CourseOf
<1> QED BY <1>1, <1>3, <1>4, <1>5 DEF CourseOf

(* Every step of the runner goes on with the courses, and only what was      *)
(* submitted is cancelled.                                                   *)
LEMMA CoursesStep ==
    ASSUME RunnerInv, CoursesInv, [Runner!RunnerNext]_(Runner!runnerVars)
    PROVE  CoursesInv'
<1>0. RunnerTypes /\ \A h \in Runner!Handles : CourseOf(h)
  BY DEF RunnerInv, CoursesInv
<1>a. ASSUME cancelled' \subseteq Runner!Used', \A h \in Runner!Handles : CourseOf(h)' PROVE CoursesInv'
  BY <1>a DEF CoursesInv, Runner!Handles
<1>1. ASSUME NEW g \in Runner!Handles, Ends(g), CourseOf(g)' PROVE CoursesInv'
  <2>1. cancelled' \subseteq Runner!Used'
    BY <1>1 DEF Ends, CoursesInv, Runner!Used, RunnerInv, RunnerTypes, Runner!Handles
  <2>2. \A h \in Runner!Handles : CourseOf(h)'
    BY <1>0, <1>1, OtherCourse
  <2> QED BY <1>a, <2>1, <2>2
<1>2. ASSUME NEW g \in Runner!Handles, Runner!Begin(g) PROVE CoursesInv'
  <2>1. CASE g \in cancelled
    BY <1>0, <1>1, <1>2, <2>1, BeginEnds, BeginCourse
  <2>2. CASE g \notin cancelled
    <3>1. /\ task[g] = "queued" /\ task' = [task EXCEPT ![g] = "running"]
          /\ UNCHANGED <<cancelled, signals, shown>>
      BY <1>2, <2>2 DEF Runner!Begin
    <3>2. \A h \in Runner!Handles : task'[h] = task[h] \/ (h = g /\ task'[h] = "running")
      BY <1>0, <3>1 DEF RunnerTypes
    <3>3. cancelled' \subseteq Runner!Used'
      BY <3>1, <3>2 DEF CoursesInv, Runner!Used, Runner!Handles
    <3>4. \A h \in Runner!Handles : CourseOf(h)'
      BY <1>0, <3>1, <3>2, SameCourse
    <3> QED BY <1>a, <3>3, <3>4
  <2> QED BY <2>1, <2>2
<1>3. ASSUME NEW g \in Runner!Handles, NEW what \in Runner!Outcomes, Runner!Finish(g, what)
      PROVE  CoursesInv'
  BY <1>0, <1>1, <1>3, FinishEnds, FinishCourse
<1>4. ASSUME NEW g \in Runner!Handles, NEW k \in Keys \cup {NoKey}, Runner!Submit(g, k) PROVE CoursesInv'
  <2>1. /\ task[g] = "none" /\ task' = [task EXCEPT ![g] = "queued"]
        /\ UNCHANGED <<signals, shown>>
    BY <1>4 DEF Runner!Submit
  <2>2. \A h \in Runner!Handles : task'[h] = task[h] \/ (h = g /\ task'[h] = "queued")
    BY <1>0, <2>1 DEF RunnerTypes
  <2>3. Runner!Used \subseteq Runner!Used'
    BY <2>1, <2>2 DEF Runner!Used, Runner!Handles
  <2>4. cancelled' \subseteq cancelled \cup Runner!Used
    <3>1. CASE k \in Keys
      <4>1. cancelled' = cancelled \cup ({active[k]} \ {0})
        BY <1>4, <3>1 DEF Runner!Submit
      <4>2. active[k] # 0 => active[k] \in Runner!Used
        BY <1>0, <3>1 DEF RunnerInv, OnlyTheLast, RunnerTypes, Runner!Used
      <4> QED BY <4>1, <4>2
    <3>2. CASE k \notin Keys
      BY <1>4, <3>2 DEF Runner!Submit
    <3> QED BY <3>1, <3>2
  <2>5. \A h \in Runner!Handles : CourseOf(h)'
    BY <1>0, <2>1, <2>2, SameCourse
  <2> QED BY <1>a, <2>3, <2>4, <2>5 DEF CoursesInv
<1>5. ASSUME NEW k \in Keys, Runner!Cancel(k) PROVE CoursesInv'
  <2>1. /\ active[k] # 0 /\ cancelled' = cancelled \cup {active[k]} /\ UNCHANGED <<task, signals, shown>>
    BY <1>5 DEF Runner!Cancel
  <2>2. active[k] \in Runner!Used
    BY <1>0, <2>1 DEF RunnerInv, OnlyTheLast, RunnerTypes, Runner!Used
  <2>3. Runner!Used' = Runner!Used
    BY <2>1 DEF Runner!Used, Runner!Handles
  <2>4. \A h \in Runner!Handles : CourseOf(h)'
    BY <1>0, <2>1, SameCourse
  <2> QED BY <1>a, <2>1, <2>2, <2>3, <2>4 DEF CoursesInv
<1>6. CASE Runner!Deliver
  <2>1. PICK g, what : Takes(g, what)
    BY <1>6, DeliverTakes
  <2>2. signals' = Tail(signals) /\ UNCHANGED <<task, cancelled>> /\ g \in Runner!Handles
    BY <1>6, <2>1 DEF Runner!Deliver, Takes
  <2>3. \A h \in Runner!Handles : CourseOf(h)'
    BY <1>0, <2>1, <2>2, TakesOthers, TakesCourse
  <2>4. cancelled' \subseteq Runner!Used'
    BY <2>2 DEF CoursesInv, Runner!Used, Runner!Handles
  <2> QED BY <1>a, <2>3, <2>4
<1>7. CASE UNCHANGED Runner!runnerVars
  <2>1. UNCHANGED <<task, cancelled, signals, shown>>
    BY <1>7 DEF Runner!runnerVars
  <2>2. \A h \in Runner!Handles : CourseOf(h)'
    BY <1>0, <2>1, SameCourse
  <2>3. cancelled' \subseteq Runner!Used'
    BY <2>1 DEF CoursesInv, Runner!Used, Runner!Handles
  <2> QED BY <1>a, <2>2, <2>3
<1> QED BY <1>2, <1>3, <1>4, <1>5, <1>6, <1>7 DEF Runner!RunnerNext

(* Initially nothing was submitted. *)
LEMMA CoursesStart == Runner!RunnerInit => CoursesInv
<1> SUFFICES ASSUME Runner!RunnerInit PROVE CoursesInv
  OBVIOUS
<1>1. DOMAIN signals = {} /\ cancelled = {}
  BY DEF Runner!RunnerInit
<1>2. \A h \in Runner!Handles : task[h] = "none" /\ shown[h] = <<>>
  BY DEF Runner!RunnerInit
<1> QED BY <1>1, <1>2 DEF CoursesInv, CourseOf, NoneWaits

(* Together these are the types of the runner, with the courses it promises. *)
LEMMA RunnerTyped == RunnerInv /\ CoursesInv => Runner!RunnerTypeOK
<1> SUFFICES ASSUME RunnerInv, CoursesInv PROVE Runner!RunnerTypeOK
  OBVIOUS
<1>1. \A i \in DOMAIN signals : signals[i].of \in Runner!Used
  BY SignalsOf DEF RunnerInv, ToldIsOver, Runner!Used
<1>2. \A h \in Runner!Handles : shown[h] \in Runner!Courses
  <2>1. <<>> \in OpenCourse
    BY Zenon DEF OpenCourse
  <2>2. \A h \in Runner!Handles : shown[h] \in OpenCourse \cup ClosedCourse
    BY <2>1 DEF CoursesInv, CourseOf
  <2> QED BY <2>2, CourseFacts
<1>3. shown \in [Runner!Handles -> Runner!Courses]
  BY <1>2 DEF RunnerInv, RunnerTypes
<1> QED BY <1>1, <1>3 DEF Runner!RunnerTypeOK, RunnerInv, RunnerTypes, CoursesInv

-----------------------------------------------------------------------------
(* What must be told of work that is over is told, or on its way.             *)
EndWaits(h)    == \E i \in DOMAIN signals : signals[i].of = h /\ signals[i].what = "finished"
AnswerWaits(h) == \E i \in DOMAIN signals : signals[i].of = h /\ signals[i].what \in Runner!Outcomes

AnswerKept(h) == task[h] = "over" /\ h \notin cancelled => Runner!Answered(h) \/ AnswerWaits(h)

(* The safety that EveryEndIsTold rests on. *)
NoEndIsLost ==
    \A h \in Runner!Handles : task[h] = "over" =>
        /\ Runner!Ended(h) \/ EndWaits(h)
        /\ h \in cancelled \/ Runner!Answered(h) \/ AnswerWaits(h)

(* The end of the course is the word "finished". *)
LEMMA EndOfCourse ==
    ASSUME NEW h \in Runner!Handles, CourseOf(h), task[h] = "over"
    PROVE  Runner!Ended(h) \/ EndWaits(h)
<1>1. ASSUME NEW c \in ClosedCourse PROVE \E i \in DOMAIN c : c[i] = "finished"
  <2>1. c = <<"finished">> \/ c = <<"succeeded", "finished">> \/ c = <<"failed", "finished">>
    BY Zenon DEF ClosedCourse
  <2>2. CASE c = <<"finished">>
    <3>1. 1 \in DOMAIN c /\ c[1] = "finished"
      BY <2>2
    <3> QED BY <3>1
  <2>3. CASE c = <<"succeeded", "finished">> \/ c = <<"failed", "finished">>
    <3>1. 2 \in DOMAIN c /\ c[2] = "finished"
      BY <2>3
    <3> QED BY <3>1
  <2> QED BY <2>1, <2>2, <2>3
<1>2. shown[h] \in ClosedCourse => Runner!Ended(h)
  BY <1>1 DEF Runner!Ended
<1> QED BY <1>2 DEF CourseOf, OneWaits, TwoWait, EndWaits

(* A step that leaves the calls and the signals alone, ends no work and takes *)
(* no cancellation back, keeps the answers.                                   *)
LEMMA SameAnswer ==
    ASSUME NEW h \in Runner!Handles, AnswerKept(h), shown'[h] = shown[h], signals' = signals,
           task'[h] = "over" => task[h] = "over", cancelled \subseteq cancelled'
    PROVE  AnswerKept(h)'
BY DEF AnswerKept, AnswerWaits, Runner!Answered, Runner!Outcomes

(* So does one that only adds signals. *)
LEMMA MoreAnswers ==
    ASSUME NEW h \in Runner!Handles, AnswerKept(h), shown'[h] = shown[h], cancelled' = cancelled,
           task'[h] = "over" => task[h] = "over",
           DOMAIN signals \subseteq DOMAIN signals', \A i \in DOMAIN signals : signals'[i] = signals[i]
    PROVE  AnswerKept(h)'
<1>1. AnswerWaits(h) => AnswerWaits(h)'
  BY DEF AnswerWaits, Runner!Outcomes
<1>2. Runner!Answered(h) => Runner!Answered(h)'
  BY DEF Runner!Answered, Runner!Outcomes
<1> QED BY <1>1, <1>2 DEF AnswerKept

(* A signal that is taken is shown, and the others still wait. *)
LEMMA TakesAnswer ==
    ASSUME RunnerTypes, NEW h \in Runner!Handles, AnswerKept(h), NEW g, NEW what, Takes(g, what),
           signals' = Tail(signals)
    PROVE  AnswerKept(h)'
<1>1. /\ signals \in Seq(SignalRecord) /\ 1 \in DOMAIN signals /\ signals[1].of = g /\ signals[1].what = what
      /\ UNCHANGED <<task, cancelled>> /\ g \in Runner!Handles
  BY DEF RunnerTypes, Takes
<1>2. \A n \in DOMAIN signals : n # 1 => n - 1 \in DOMAIN signals' /\ signals'[n - 1] = signals[n]
  BY <1>1
<1>3. shown[h] \in Seq(Said) /\ what \in Said
      /\ shown'[h] = IF h = g THEN Append(shown[h], what) ELSE shown[h]
  BY <1>1 DEF RunnerTypes, Takes
<1>4. Runner!Answered(h) => Runner!Answered(h)'
  <2>1. \A i \in DOMAIN shown[h] : i \in DOMAIN shown'[h] /\ shown'[h][i] = shown[h][i]
    BY <1>3
  <2> QED BY <2>1 DEF Runner!Answered, Runner!Outcomes
<1>5. AnswerWaits(h) => Runner!Answered(h)' \/ AnswerWaits(h)'
  <2> SUFFICES ASSUME NEW i \in DOMAIN signals, signals[i].of = h, signals[i].what \in Runner!Outcomes
               PROVE  Runner!Answered(h)' \/ AnswerWaits(h)'
    BY DEF AnswerWaits
  <2>1. CASE i = 1
    <3>1. h = g /\ what \in Runner!Outcomes
      BY <1>1, <2>1
    <3> DEFINE n == Len(shown[h]) + 1
    <3>2. n \in DOMAIN shown'[h] /\ shown'[h][n] = what
      BY <1>3, <3>1
    <3> HIDE DEF n
    <3> QED BY <3>1, <3>2 DEF Runner!Answered, Runner!Outcomes
  <2>2. CASE i # 1
    <3> DEFINE n == i - 1
    <3>1. n \in DOMAIN signals' /\ signals'[n] = signals[i]
      BY <1>2, <2>2
    <3> HIDE DEF n
    <3> QED BY <3>1 DEF AnswerWaits, Runner!Outcomes
  <2> QED BY <2>1, <2>2
<1> QED BY <1>1, <1>4, <1>5 DEF AnswerKept

(* Work that ends unless it was cancelled has its outcome in the queue. *)
LEMMA FinishAnswers ==
    ASSUME RunnerTypes, NEW h \in Runner!Handles, NEW what \in Runner!Outcomes, Runner!Finish(h, what)
    PROVE  AnswerKept(h)'
<1>1. CASE h \in cancelled
  BY <1>1 DEF AnswerKept, Runner!Finish
<1>2. CASE h \notin cancelled
  <2> DEFINE s == Runner!Signal(h, "finished")
             o == Runner!Signal(h, what)
             n == Len(signals) + 1
  <2>1. s \in SignalRecord /\ o \in SignalRecord /\ o.of = h /\ o.what = what
    BY DEF SignalRecord, Runner!Signal, Said
  <2>2. signals \in Seq(SignalRecord) /\ signals' = signals \o <<o, s>>
    BY <1>2 DEF Runner!Finish, Runner!Tells, RunnerTypes
  <2> HIDE DEF s, o
  <2>3. n \in DOMAIN signals' /\ signals'[n] = o
    BY <2>1, <2>2
  <2> HIDE DEF n
  <2>4. AnswerWaits(h)'
    BY <2>1, <2>3 DEF AnswerWaits, Runner!Outcomes
  <2> QED BY <2>4 DEF AnswerKept
<1> QED BY <1>1, <1>2

(* No step of the runner loses an answer. *)
LEMMA AnswersStep ==
    ASSUME RunnerInv, \A h \in Runner!Handles : AnswerKept(h), [Runner!RunnerNext]_(Runner!runnerVars)
    PROVE  \A h \in Runner!Handles : AnswerKept(h)'
<1>0. RunnerTypes
  BY DEF RunnerInv
<1> SUFFICES ASSUME NEW h \in Runner!Handles PROVE AnswerKept(h)'
  OBVIOUS
<1>1. ASSUME NEW g \in Runner!Handles, Ends(g), g = h => AnswerKept(h)' PROVE AnswerKept(h)'
  <2>1. CASE g = h
    BY <1>1, <2>1
  <2>2. CASE g # h
    <3>1. task'[h] = task[h] /\ shown' = shown /\ cancelled' = cancelled
      BY <1>0, <1>1, <2>2 DEF Ends, RunnerTypes
    <3> QED BY <1>1, <3>1, MoreAnswers DEF Ends
  <2> QED BY <2>1, <2>2
<1>2. ASSUME NEW g \in Runner!Handles, Runner!Begin(g) PROVE AnswerKept(h)'
  <2>1. CASE g \in cancelled
    <3>1. g = h => AnswerKept(h)'
      BY <1>2, <2>1 DEF AnswerKept, Runner!Begin
    <3> QED BY <1>0, <1>1, <1>2, <2>1, <3>1, BeginEnds
  <2>2. CASE g \notin cancelled
    <3>1. /\ task' = [task EXCEPT ![g] = "running"] /\ UNCHANGED <<cancelled, signals, shown>>
      BY <1>2, <2>2 DEF Runner!Begin
    <3>2. task'[h] = "over" => task[h] = "over"
      BY <1>0, <3>1 DEF RunnerTypes
    <3> QED BY <3>1, <3>2, SameAnswer
  <2> QED BY <2>1, <2>2
<1>3. ASSUME NEW g \in Runner!Handles, NEW what \in Runner!Outcomes, Runner!Finish(g, what)
      PROVE  AnswerKept(h)'
  BY <1>0, <1>1, <1>3, FinishEnds, FinishAnswers
<1>4. ASSUME NEW g \in Runner!Handles, NEW k \in Keys \cup {NoKey}, Runner!Submit(g, k) PROVE AnswerKept(h)'
  <2>1. task' = [task EXCEPT ![g] = "queued"] /\ UNCHANGED <<signals, shown>>
    BY <1>4 DEF Runner!Submit
  <2>2. task'[h] = "over" => task[h] = "over"
    BY <1>0, <2>1 DEF RunnerTypes
  <2>3. cancelled \subseteq cancelled'
    BY <1>4 DEF Runner!Submit
  <2> QED BY <2>1, <2>2, <2>3, SameAnswer
<1>5. ASSUME NEW k \in Keys, Runner!Cancel(k) PROVE AnswerKept(h)'
  BY <1>5, SameAnswer DEF Runner!Cancel
<1>6. CASE Runner!Deliver
  <2>1. PICK g, what : Takes(g, what)
    BY <1>6, DeliverTakes
  <2>2. signals' = Tail(signals)
    BY <1>6 DEF Runner!Deliver
  <2> QED BY <1>0, <2>1, <2>2, TakesAnswer
<1>7. CASE UNCHANGED Runner!runnerVars
  BY <1>7, SameAnswer DEF Runner!runnerVars
<1> QED BY <1>2, <1>3, <1>4, <1>5, <1>6, <1>7 DEF Runner!RunnerNext

(* Of work that is over, the word that it is finished was told or waits in    *)
(* the event queue, and so does its outcome, unless it was cancelled: that    *)
(* the interface gets its busy flags back (EveryEndIsTold) is then a matter   *)
(* of the two threads going on (async_runner.py, _wrap).                      *)
THEOREM EndsAreKept == Spec => []NoEndIsLost
<1> DEFINE Kept == \A h \in Runner!Handles : AnswerKept(h)
           Inv == RunnerInv /\ CoursesInv /\ Kept
<1>1. Init => Inv
  <2>1. Init => RunnerInv /\ CoursesInv
    BY RunnerStarts, CoursesStart DEF Init
  <2>2. Init => Kept
    BY DEF Init, Runner!RunnerInit, AnswerKept
  <2> QED BY <2>1, <2>2
<1>2. Inv /\ [Next]_vars => Inv'
  <2> SUFFICES ASSUME Inv, [Next]_vars PROVE Inv'
    OBVIOUS
  <2>1. RunnerInv' /\ CoursesInv'
    BY RunnerSteps, RunnerStays, CoursesStep
  <2>2. \A h \in Runner!Handles : AnswerKept(h)'
    BY RunnerSteps, AnswersStep
  <2>3. Kept'
    BY <2>2 DEF Runner!Handles
  <2> QED BY <2>1, <2>3
<1>3. Inv => NoEndIsLost
  BY EndOfCourse DEF CoursesInv, AnswerKept, NoEndIsLost
<1> QED BY <1>1, <1>2, <1>3, PTL DEF Spec

-----------------------------------------------------------------------------
(* The types of the conversation.  The open one, if any, has a record: a      *)
(* record that goes closes it, and an answer that is stored gets one.         *)
PageTypes ==
    /\ records \subseteq Convs
    /\ current \in {0} \cup records
    /\ busy \in BOOLEAN /\ pending \in BOOLEAN

(* A turn that was only asked has had no round, and one that uses its tools    *)
(* has another one left; the rounds and the providers run out.                *)
TurnInBounds(r) ==
    /\ r.round \in 0..Rounds /\ r.tried \in 0..Providers
    /\ r.stage = "asked" => r.round = 0
    /\ r.stage = "tools" => r.round < Rounds

TalkBounds ==
    /\ Len(turns) <= MaxTurns
    /\ \A t \in DOMAIN turns : TurnInBounds(turns[t])

(* A message is stored in a conversation that has a record by then.           *)
LEMMA EnsuresRecord ==
    ASSUME PageTypes, Talk!Ensure
    PROVE  records' \subseteq Convs /\ current' \in {0} \cup records'
<1>1. CASE current # 0
  BY <1>1 DEF PageTypes, Talk!Ensure
<1>2. CASE current = 0
  BY <1>2 DEF PageTypes, Talk!Ensure
<1> QED BY <1>1, <1>2

(* Every step keeps the page in order. *)
LEMMA PageTypesStep == PageTypes /\ [Talk!ChatNext]_(Talk!chatVars) => PageTypes'
<1> SUFFICES ASSUME PageTypes, [Talk!ChatNext]_(Talk!chatVars) PROVE PageTypes'
  OBVIOUS
<1>1. ASSUME records' \subseteq Convs, current' \in {0} \cup records',
             busy' \in {busy, TRUE, FALSE}, pending' \in {pending, TRUE, FALSE}
      PROVE  PageTypes'
  BY <1>1 DEF PageTypes
<1>2. records \subseteq Convs /\ current \in {0} \cup records
  BY DEF PageTypes
<1>3. CASE Talk!Send
  BY <1>1, <1>3, EnsuresRecord DEF Talk!Send
<1>4. CASE Talk!StartNew
  BY <1>1, <1>2, <1>4 DEF Talk!StartNew
<1>5. ASSUME NEW c \in Convs, Talk!Open(c) PROVE PageTypes'
  BY <1>1, <1>2, <1>5 DEF Talk!Open
<1>6. ASSUME NEW c \in Convs, Talk!Delete(c) PROVE PageTypes'
  BY <1>1, <1>2, <1>6 DEF Talk!Delete
<1>7. CASE Talk!Deliver
  <2>1. CASE Talk!Shows(Head(wire)) \/ Talk!Unlocks
    BY <1>1, <1>2, <2>1 DEF Talk!Shows, Talk!Unlocks
  <2>2. CASE Talk!Finishes(Head(wire))
    BY <1>1, <1>2, <2>2, EnsuresRecord DEF Talk!Finishes
  <2> QED BY <1>7, <2>1, <2>2 DEF Talk!Deliver
<1>8. ASSUME NEW t \in DOMAIN turns,
             \/ Talk!Begin(t) \/ Talk!Chunk(t) \/ Talk!NextProvider(t) \/ Talk!UseTools(t)
             \/ Talk!AskAgain(t) \/ Talk!Answer(t) \/ Talk!Fails(t) \/ Talk!TimesOut(t)
      PROVE  PageTypes'
  <2>1. UNCHANGED Talk!page
    BY <1>8 DEF Talk!Begin, Talk!Chunk, Talk!NextProvider, Talk!UseTools, Talk!AskAgain,
                Talk!Answer, Talk!Fails, Talk!TimesOut
  <2> QED BY <1>1, <1>2, <2>1 DEF Talk!page
<1>9. CASE UNCHANGED Talk!chatVars
  BY <1>1, <1>2, <1>9 DEF Talk!chatVars
<1>10. CASE Talk!ChatNext
  BY <1>3, <1>4, <1>5, <1>6, <1>7, <1>8, <1>10 DEF Talk!ChatNext
<1> QED BY <1>9, <1>10

(* A round begins: one more than those before, with the first provider.       *)
LEMMA RoundBounds ==
    ASSUME NEW r \in TurnRecord, TurnInBounds(r), NEW seen1 \in SUBSET Nat,
           r.stage \in {"asked", "tools"} \/ r.round < Rounds
    PROVE  TurnInBounds([r EXCEPT !.stage = "round", !.round = r.round + 1, !.tried = 1,
                                  !.said = FALSE, !.given = seen1])
<1> DEFINE q == [r EXCEPT !.stage = "round", !.round = r.round + 1, !.tried = 1,
                          !.said = FALSE, !.given = seen1]
<1>1. q.stage = "round" /\ q.round = r.round + 1 /\ q.tried = 1
  BY DEF TurnRecord
<1>2. Rounds \in Nat \ {0} /\ Providers \in Nat \ {0}
  BY WorkAssumptions DEF Talk!ChatAssumption
<1>3. r.round \in 0..Rounds /\ r.round < Rounds
  BY <1>2 DEF TurnInBounds
<1> HIDE DEF q
<1>4. TurnInBounds(q)
  BY <1>1, <1>2, <1>3 DEF TurnInBounds
<1> QED BY <1>4 DEF q

(* The tools are used when a round is left.                                   *)
LEMMA ToolsBounds ==
    ASSUME NEW r \in TurnRecord, TurnInBounds(r), r.round < Rounds
    PROVE  TurnInBounds([r EXCEPT !.stage = "tools", !.tried = 0, !.said = FALSE, !.given = {}])
<1> DEFINE q == [r EXCEPT !.stage = "tools", !.tried = 0, !.said = FALSE, !.given = {}]
<1>1. q.stage = "tools" /\ q.round = r.round /\ q.tried = 0
  BY DEF TurnRecord
<1>2. Providers \in Nat \ {0}
  BY WorkAssumptions DEF Talk!ChatAssumption
<1> HIDE DEF q
<1>3. TurnInBounds(q)
  BY <1>1, <1>2 DEF TurnInBounds
<1> QED BY <1>3 DEF q

(* A turn that is over counts from nothing.                                   *)
LEMMA OverBounds ==
    ASSUME NEW r \in TurnRecord
    PROVE  TurnInBounds([Talk!Asked(r.home) EXCEPT !.stage = "over", !.left = r.left])
<1> DEFINE q == [Talk!Asked(r.home) EXCEPT !.stage = "over", !.left = r.left]
<1>1. q.stage = "over" /\ q.round = 0 /\ q.tried = 0
  BY DEF Talk!Asked
<1>2. Rounds \in Nat /\ Providers \in Nat
  BY WorkAssumptions DEF Talk!ChatAssumption
<1> HIDE DEF q
<1>3. TurnInBounds(q)
  BY <1>1, <1>2 DEF TurnInBounds
<1> QED BY <1>3 DEF q

(* The next provider is asked while one is left.                              *)
LEMMA NextBounds ==
    ASSUME NEW r \in TurnRecord, TurnInBounds(r), r.stage = "round", r.tried < Providers
    PROVE  TurnInBounds([r EXCEPT !.tried = r.tried + 1, !.said = FALSE])
<1> DEFINE q == [r EXCEPT !.tried = r.tried + 1, !.said = FALSE]
<1>1. q.stage = "round" /\ q.round = r.round /\ q.tried = r.tried + 1
  BY DEF TurnRecord
<1>2. Providers \in Nat
  BY WorkAssumptions DEF Talk!ChatAssumption
<1> HIDE DEF q
<1>3. TurnInBounds(q)
  BY <1>1, <1>2 DEF TurnInBounds
<1> QED BY <1>3 DEF q

(* So is a turn whose provider speaks. *)
LEMMA ChunkBounds ==
    ASSUME NEW r \in TurnRecord, TurnInBounds(r)
    PROVE  TurnInBounds([r EXCEPT !.said = TRUE])
<1> DEFINE q == [r EXCEPT !.said = TRUE]
<1>1. q.stage = r.stage /\ q.round = r.round /\ q.tried = r.tried
  BY DEF TurnRecord
<1> HIDE DEF q
<1>2. TurnInBounds(q)
  BY <1>1 DEF TurnInBounds
<1> QED BY <1>2 DEF q

(* The steps of the network thread keep the turn they change in its bounds.   *)
LEMMA AgentBounds ==
    ASSUME ChatTypes, TalkBounds, NEW t \in DOMAIN turns,
           \/ Talk!Begin(t) \/ Talk!Chunk(t) \/ Talk!NextProvider(t) \/ Talk!UseTools(t)
           \/ Talk!AskAgain(t) \/ Talk!Answer(t) \/ Talk!Fails(t) \/ Talk!TimesOut(t)
    PROVE  TurnInBounds(turns'[t])
<1> DEFINE old == turns[t]
<1>1. old \in TurnRecord /\ TurnInBounds(old) /\ memory \cup {t} \subseteq Nat
  BY DEF ChatTypes, TalkBounds
<1>2. ASSUME NEW q, turns' = [turns EXCEPT ![t] = q], TurnInBounds(q)
      PROVE  TurnInBounds(turns'[t])
  <2>1. turns'[t] = q
    BY <1>2
  <2> QED BY <1>2, <2>1
<1>3. CASE Talk!Begin(t) \/ Talk!AskAgain(t)
  <2> DEFINE q == [old EXCEPT !.stage = "round", !.round = old.round + 1,
                              !.tried = 1, !.said = FALSE, !.given = memory']
  <2>1. /\ turns' = [turns EXCEPT ![t] = q] /\ memory' = memory \cup {t}
        /\ old.stage \in {"asked", "tools"} \/ old.round < Rounds
    BY <1>3 DEF Talk!Begin, Talk!AskAgain, Talk!BeginRound
  <2>2. memory' \in SUBSET Nat
    BY <1>1, <2>1
  <2>3. TurnInBounds(q)
    <3> HIDE DEF old
    <3> QED BY <1>1, <2>1, <2>2, RoundBounds
  <2> HIDE DEF q
  <2> QED BY <1>2, <2>1, <2>3
<1>4. CASE Talk!Chunk(t)
  <2> DEFINE q == [old EXCEPT !.said = TRUE]
  <2>1. turns' = [turns EXCEPT ![t] = q]
    BY <1>4 DEF Talk!Chunk
  <2>2. TurnInBounds(q)
    <3> HIDE DEF old
    <3> QED BY <1>1, ChunkBounds
  <2> HIDE DEF q
  <2> QED BY <1>2, <2>1, <2>2
<1>5. CASE Talk!NextProvider(t)
  <2> DEFINE q == [old EXCEPT !.tried = old.tried + 1, !.said = FALSE]
  <2>1. turns' = [turns EXCEPT ![t] = q] /\ old.stage = "round" /\ old.tried < Providers
    BY <1>5 DEF Talk!NextProvider
  <2>2. TurnInBounds(q)
    <3> HIDE DEF old
    <3> QED BY <1>1, <2>1, NextBounds
  <2> HIDE DEF q
  <2> QED BY <1>2, <2>1, <2>2
<1>6. CASE Talk!UseTools(t)
  <2> DEFINE q == [old EXCEPT !.stage = "tools", !.tried = 0, !.said = FALSE, !.given = {}]
  <2>1. turns' = [turns EXCEPT ![t] = q] /\ old.round < Rounds
    BY <1>6 DEF Talk!UseTools
  <2>2. TurnInBounds(q)
    <3> HIDE DEF old
    <3> QED BY <1>1, <2>1, ToolsBounds
  <2> HIDE DEF q
  <2> QED BY <1>2, <2>1, <2>2
<1>7. CASE Talk!Answer(t) \/ Talk!Fails(t) \/ Talk!TimesOut(t)
  <2> DEFINE q == [Talk!Asked(old.home) EXCEPT !.stage = "over", !.left = old.left]
  <2>1. turns' = [turns EXCEPT ![t] = q]
    BY <1>7 DEF Talk!Answer, Talk!Fails, Talk!TimesOut, Talk!Over
  <2>2. TurnInBounds(q)
    <3> HIDE DEF old
    <3> QED BY <1>1, OverBounds
  <2> HIDE DEF q
  <2> QED BY <1>2, <2>1, <2>2
<1> QED BY <1>3, <1>4, <1>5, <1>6, <1>7

(* An outcome that reaches the page changes no count of its turn.             *)
LEMMA ToldBounds ==
    ASSUME ChatTypes, TalkBounds, NEW x, turns' = [turns EXCEPT ![x].stage = "told"]
    PROVE  TalkBounds'
<1>1. CASE x \in DOMAIN turns
  <2> DEFINE q == [turns[x] EXCEPT !.stage = "told"]
  <2>1. turns[x] \in TurnRecord /\ TurnInBounds(turns[x])
    BY <1>1 DEF ChatTypes, TalkBounds
  <2>2. q \in TurnRecord
    BY <2>1, TurnUpdates DEF Stages
  <2>3. q.round = turns[x].round /\ q.tried = turns[x].tried /\ q.stage = "told"
    BY <2>1 DEF TurnRecord
  <2>4. turns' = [turns EXCEPT ![x] = q]
    BY Zenon
  <2> HIDE DEF q
  <2>5. TurnInBounds(q)
    BY <2>1, <2>3 DEF TurnInBounds
  <2>6. Len(turns') = Len(turns) /\ DOMAIN turns' = DOMAIN turns /\ turns'[x] = q
        /\ \A u \in DOMAIN turns \ {x} : turns'[u] = turns[u]
    BY <1>1, <2>2, <2>4 DEF ChatTypes
  <2> QED BY <2>5, <2>6 DEF TalkBounds
<1>2. CASE x \notin DOMAIN turns
  <2>1. turns' = turns
    BY <1>2 DEF ChatTypes
  <2> QED BY <2>1 DEF TalkBounds
<1> QED BY <1>1, <1>2

(* Every step keeps the turns in their bounds. *)
LEMMA TalkBoundsStep ==
    ChatInv /\ TalkBounds /\ [Talk!ChatNext]_(Talk!chatVars) => TalkBounds'
<1> SUFFICES ASSUME ChatInv, TalkBounds, [Talk!ChatNext]_(Talk!chatVars) PROVE TalkBounds'
  OBVIOUS
<1>1. ChatTypes
  BY DEF ChatInv
<1>2. ASSUME turns' = turns PROVE TalkBounds'
  BY <1>2 DEF TalkBounds
<1>3. ASSUME NEW c, LeftBehind(c) PROVE TalkBounds'
  <2>1. Len(turns') = Len(turns)
    BY <1>1, <1>3 DEF LeftBehind, ChatTypes
  <2>2. ASSUME NEW t \in DOMAIN turns' PROVE TurnInBounds(turns'[t])
    <3>1. t \in DOMAIN turns
      BY <1>3, <2>2 DEF LeftBehind
    <3>2. turns'[t].stage = turns[t].stage /\ turns'[t].round = turns[t].round
          /\ turns'[t].tried = turns[t].tried
      BY <1>3, <3>1 DEF LeftBehind
    <3>3. TurnInBounds(turns[t])
      BY <3>1 DEF TalkBounds
    <3> QED BY <3>2, <3>3 DEF TurnInBounds
  <2>3. Len(turns') <= MaxTurns
    BY <2>1 DEF TalkBounds
  <2> QED BY <2>2, <2>3 DEF TalkBounds
<1>4. CASE Talk!Send
  <2> DEFINE q == Talk!Asked(current')
  <2>1. Talk!Ensure /\ turns' = Append(turns, q) /\ Len(turns) < MaxTurns
    BY <1>4 DEF Talk!Send
  <2>2. current' \in Convs
    BY <2>1, Ensures
  <2>3. q \in TurnRecord /\ q.round = 0 /\ q.tried = 0 /\ q.stage = "asked"
    BY <2>2, AskedFields DEF Talk!Asked
  <2>4. Rounds \in Nat /\ Providers \in Nat /\ MaxTurns \in Nat
    BY WorkAssumptions DEF Talk!ChatAssumption
  <2> HIDE DEF q
  <2>5. TurnInBounds(q)
    BY <2>3, <2>4 DEF TurnInBounds
  <2>6. /\ Len(turns') = Len(turns) + 1 /\ Len(turns) \in Nat
        /\ DOMAIN turns' = DOMAIN turns \cup {Len(turns) + 1}
        /\ turns'[Len(turns) + 1] = q
        /\ \A t \in DOMAIN turns : turns'[t] = turns[t]
    BY <1>1, <2>1, <2>3 DEF ChatTypes
  <2>7. Len(turns') <= MaxTurns
    BY <2>1, <2>4, <2>6
  <2>8. \A t \in DOMAIN turns' : TurnInBounds(turns'[t])
    BY <2>5, <2>6 DEF TalkBounds
  <2> QED BY <2>7, <2>8 DEF TalkBounds
<1>5. CASE Talk!StartNew
  BY <1>1, <1>3, <1>5, LeavesBehind DEF Talk!StartNew
<1>6. ASSUME NEW c \in Convs, Talk!Open(c) PROVE TalkBounds'
  BY <1>1, <1>3, <1>6, LeavesBehind DEF Talk!Open
<1>7. ASSUME NEW c \in Convs, Talk!Delete(c) PROVE TalkBounds'
  BY <1>1, <1>2, <1>3, <1>7, LeavesBehind DEF Talk!Delete
<1>8. CASE Talk!Deliver
  <2>1. CASE Talk!Shows(Head(wire)) \/ Talk!Unlocks
    BY <1>2, <2>1 DEF Talk!Shows, Talk!Unlocks
  <2>2. CASE Talk!Finishes(Head(wire))
    BY <1>1, <2>2, ToldBounds DEF Talk!Finishes
  <2> QED BY <1>8, <2>1, <2>2 DEF Talk!Deliver
<1>9. ASSUME NEW t \in DOMAIN turns,
             \/ Talk!Begin(t) \/ Talk!Chunk(t) \/ Talk!NextProvider(t) \/ Talk!UseTools(t)
             \/ Talk!AskAgain(t) \/ Talk!Answer(t) \/ Talk!Fails(t) \/ Talk!TimesOut(t)
      PROVE  TalkBounds'
  <2>1. OneTurn(t) /\ TurnInBounds(turns'[t])
    BY <1>1, <1>9, AgentSteps, AgentBounds
  <2>2. /\ DOMAIN turns' = DOMAIN turns /\ turns' \in Seq(TurnRecord) /\ turns \in Seq(TurnRecord)
        /\ \A u \in DOMAIN turns \ {t} : turns'[u] = turns[u]
    BY <1>1, <2>1 DEF OneTurn, ChatTypes
  <2>3. Len(turns') = Len(turns)
    BY <2>2
  <2> QED BY <2>1, <2>2, <2>3 DEF TalkBounds
<1>10. CASE UNCHANGED Talk!chatVars
  BY <1>2, <1>10 DEF Talk!chatVars
<1>11. CASE Talk!ChatNext
  BY <1>4, <1>5, <1>6, <1>7, <1>8, <1>9, <1>11 DEF Talk!ChatNext
<1> QED BY <1>10, <1>11

(* They are so when nothing was asked yet. *)
LEMMA TalkStarts == Talk!ChatInit => PageTypes /\ TalkBounds
<1> SUFFICES ASSUME Talk!ChatInit PROVE PageTypes /\ TalkBounds
  OBVIOUS
<1>1. PageTypes
  BY DEF Talk!ChatInit, PageTypes
<1>2. turns = <<>> /\ MaxTurns \in Nat
  BY WorkAssumptions DEF Talk!ChatInit, Talk!ChatAssumption
<1>3. Len(turns) = 0 /\ DOMAIN turns = {}
  BY <1>2
<1>4. TalkBounds
  BY <1>2, <1>3 DEF TalkBounds
<1> QED BY <1>1, <1>4

(* So the conversation has its types. *)
LEMMA TalkTyped == ChatInv /\ PageTypes /\ TalkBounds => Talk!ChatTypeOK
<1> SUFFICES ASSUME ChatInv, PageTypes, TalkBounds PROVE Talk!ChatTypeOK
  OBVIOUS
<1>1. ChatTypes
  BY DEF ChatInv
<1>2. DOMAIN turns \subseteq 1..MaxTurns
  <2>1. MaxTurns \in Nat /\ Len(turns) \in Nat /\ Len(turns) <= MaxTurns
        /\ DOMAIN turns = 1..Len(turns)
    BY <1>1, WorkAssumptions DEF Talk!ChatAssumption, TalkBounds, ChatTypes
  <2> QED BY <2>1
<1>3. ASSUME NEW t \in DOMAIN turns PROVE turns[t] \in Talk!Turn
  <2>1. turns[t] \in TurnRecord /\ TurnInBounds(turns[t]) /\ turns[t].given \subseteq DOMAIN turns
    BY <1>1, <1>3 DEF ChatTypes, TalkBounds
  <2>2. /\ turns[t].round \in 0..Rounds /\ turns[t].tried \in 0..Providers
        /\ turns[t].given \in SUBSET (1..MaxTurns)
    BY <1>2, <2>1 DEF TurnInBounds
  <2>3. /\ turns[t].stage \in {"asked", "round", "tools", "over", "told"}
        /\ turns[t].home \in Convs /\ turns[t].left \in BOOLEAN /\ turns[t].said \in BOOLEAN
    BY <2>1 DEF TurnRecord, Stages
  <2>4. turns[t] = [stage |-> turns[t].stage, home |-> turns[t].home, left |-> turns[t].left,
                    round |-> turns[t].round, tried |-> turns[t].tried, said |-> turns[t].said,
                    given |-> turns[t].given]
    BY <2>1 DEF TurnRecord
  <2> QED BY <2>2, <2>3, <2>4 DEF Talk!Turn
<1>4. turns \in Seq(Talk!Turn)
  <2>1. turns \in Seq(TurnRecord)
    BY <1>1 DEF ChatTypes
  <2> QED BY <1>3, <2>1
<1>5. {busy, pending} \subseteq BOOLEAN
  BY DEF PageTypes
<1>6. records \subseteq Convs /\ current \in {0} \cup records /\ memory \subseteq DOMAIN turns
  BY <1>1 DEF PageTypes, ChatTypes
<1> QED BY <1>4, <1>5, <1>6 DEF Talk!ChatTypeOK

-----------------------------------------------------------------------------
(* The types of all the parts.  Each part has the invariant that its type     *)
(* correctness needs, and no part disturbs another.                           *)

(* The three parts that watch the market, and the connections. *)
LEMMA FeedsTyped ==
    Spec => /\ []Ticks!TickTypeOK
            /\ []Streams!StreamsTypeOK
            /\ []Candles!MarketTypeOK
            /\ []Links!ConnTypeOK
<1>1. Ticks!TickTypeOK /\ [Next]_vars => Ticks!TickTypeOK'
  BY TickSteps, TickTypesStep
<1>2. StreamTypes /\ [Next]_vars => StreamTypes'
  <2> SUFFICES ASSUME StreamTypes, [Next]_vars PROVE StreamTypes'
    OBVIOUS
  <2>1. [Streams!StreamsNext]_(Streams!streamsVars)
    BY StreamSteps
  <2>2. CallInv'
    <3>1. CallInv
      BY DEF StreamTypes
    <3> QED BY <2>1, <3>1, CallStep
  <2>3. WantedTypes' /\ LineTypes' /\ CallTypes'
    BY <2>1, WantedTypesStep, LineTypesStep, CallTypesStep
  <2> QED BY <2>2, <2>3 DEF StreamTypes
<1>3. Init => StreamTypes
  BY CallStart, StreamTypesStart DEF StreamTypes
<1>4. Candles!MarketTypeOK /\ [Next]_vars => Candles!MarketTypeOK'
  BY CandleSteps, CandleTypesStep
<1>5. Links!ConnTypeOK /\ [Next]_vars => Links!ConnTypeOK'
  BY LinkSteps, LinkTypesStep
<1>6. Spec => []Ticks!TickTypeOK
  BY <1>1, TickTypesStart, PTL DEF Spec
<1>7. Spec => []Streams!StreamsTypeOK
  BY <1>2, <1>3, StreamTyped, PTL DEF Spec
<1>8. Spec => []Candles!MarketTypeOK
  BY <1>4, CandleTypesStart, PTL DEF Spec
<1>9. Spec => []Links!ConnTypeOK
  BY <1>5, LinkTypesStart, PTL DEF Spec
<1> QED BY <1>6, <1>7, <1>8, <1>9

(* The parts that work on trades: the monitor, the change of the exchange and *)
(* the results of the signals.                                                *)
LEMMA TradePartsTyped ==
    Spec => /\ []Monitor!MonitorTypeOK
            /\ []Switch!SwitchTypeOK
            /\ []Results!OutcomesTypeOK
<1>1. Init => MonitorTypes /\ QuoteTypes
  BY MonitorStart, QuoteTypesStart
<1>2. MonitorTypes /\ QuoteTypes /\ [Next]_vars => (MonitorTypes /\ QuoteTypes)'
  BY MonitorSteps, MonitorTypesStep, QuoteTypesStep
<1>3. Init => SwitchTypes
  BY SwitchTypesStart
<1>4. SwitchTypes /\ [Next]_vars => SwitchTypes'
  BY SwitchSteps, SwitchTypesStep
<1>5. SwitchTypes => Switch!SwitchTypeOK
  BY DEF SwitchTypes
<1>6. Init => ResultInv /\ QueueInv /\ AllBounded
  BY ResultStart, QueueStart
<1>7. ResultInv /\ QueueInv /\ AllBounded /\ [Next]_vars => (ResultInv /\ QueueInv /\ AllBounded)'
  BY ResultsSteps, ResultStays, QueueStep, BoundedStep
<1>8. Spec => []Monitor!MonitorTypeOK
  BY <1>1, <1>2, MonitorTyped, PTL DEF Spec
<1>9. Spec => []Switch!SwitchTypeOK
  BY <1>3, <1>4, <1>5, PTL DEF Spec
<1>10. Spec => []Results!OutcomesTypeOK
  BY <1>6, <1>7, ResultsTyped, PTL DEF Spec
<1> QED BY <1>8, <1>9, <1>10

(* The parts of the two threads. *)
LEMMA WorkPartsTyped == Spec => []Runner!RunnerTypeOK /\ []Talk!ChatTypeOK
<1>1. Init => RunnerInv /\ CoursesInv
  BY RunnerStarts, CoursesStart DEF Init
<1>2. RunnerInv /\ CoursesInv /\ [Next]_vars => (RunnerInv /\ CoursesInv)'
  BY RunnerSteps, RunnerStays, CoursesStep
<1>3. Init => ChatInv /\ PageTypes /\ TalkBounds
  BY ChatStarts, TalkStarts DEF Init
<1>4. ChatInv /\ PageTypes /\ TalkBounds /\ [Next]_vars => (ChatInv /\ PageTypes /\ TalkBounds)'
  BY ChatSteps, ChatStays, PageTypesStep, TalkBoundsStep
<1>5. Spec => []Runner!RunnerTypeOK
  BY <1>1, <1>2, RunnerTyped, PTL DEF Spec
<1>6. Spec => []Talk!ChatTypeOK
  BY <1>3, <1>4, TalkTyped, PTL DEF Spec
<1> QED BY <1>5, <1>6

(* Every variable of the part that runs keeps its type, for all values of the *)
(* constants.  Among what the types say of the code: a handle of the runner   *)
(* shows at most one outcome and then, once, that it is finished              *)
(* (async_runner.py, _wrap); a signal waits for its result exactly as long as *)
(* it is pending, and once (outcome_repository.py); a turn of the assistant   *)
(* has no more rounds and providers than there are, and the open conversation *)
(* has a record.                                                              *)
THEOREM PartsTyped == Spec => []PartsTypeOK
<1>1. /\ Ticks!TickTypeOK /\ Streams!StreamsTypeOK /\ Candles!MarketTypeOK /\ Links!ConnTypeOK
      /\ Monitor!MonitorTypeOK /\ Switch!SwitchTypeOK /\ Results!OutcomesTypeOK
      /\ Runner!RunnerTypeOK /\ Talk!ChatTypeOK
      => PartsTypeOK
  BY DEF PartsTypeOK
<1> QED BY <1>1, FeedsTyped, TradePartsTyped, WorkPartsTyped, PTL
=============================================================================
