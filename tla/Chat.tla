-------------------------------- MODULE Chat --------------------------------
(***************************************************************************)
(* The conversation with the assistant.  The page and the controller live  *)
(* on the interface thread, a turn of the assistant runs on the network    *)
(* thread, and what it says comes back through the event queue.            *)
(*                                                                         *)
(* A message is known by the turn it belongs to.  The text on the page is  *)
(* known by the attempts, of a provider in a round, that it came from.     *)
(***************************************************************************)
EXTENDS Integers, Sequences, FiniteSets, SequencesExt

CONSTANTS
    Convs,      \* bound: ids of conversations
    MaxTurns,   \* bound: messages the user sends
    Rounds,     \* rounds of a turn (3)
    Providers   \* providers in the chain

\* What the constants must satisfy.
ChatAssumption ==
    /\ 0 \notin Convs /\ Convs # {}
    /\ MaxTurns \in Nat /\ {Rounds, Providers} \subseteq Nat \ {0}

VARIABLES
    current,    \* _conversation_id
    records,    \* the stored conversations
    busy,       \* the input is locked
    pending,    \* a bubble waits for its text
    streamed,   \* the attempts whose text is in the bubble
    memory,     \* _history of the assistant
    turns,      \* the turns, in the order they were asked
    wire        \* signals on their way to the interface thread

chatVars == <<current, records, busy, pending, streamed, memory, turns, wire>>

page  == <<current, records, busy, pending, streamed>>
agent == <<memory, turns>>

-----------------------------------------------------------------------------
\* "home" is the conversation of the question and "left" whether the user left it
\* before the answer was there; "given" is what the model was given in the round.
Turn == [stage : {"asked", "round", "tools", "over", "told"}, home : Convs, left : BOOLEAN,
         round : 0..Rounds, tried : 0..Providers, said : BOOLEAN, given : SUBSET (1..MaxTurns)]

Asked(c) == [stage |-> "asked", home |-> c, left |-> FALSE,
             round |-> 0, tried |-> 0, said |-> FALSE, given |-> {}]

UnderWay == {t \in DOMAIN turns : turns[t].stage # "told"}
Attempt(t) == <<t, turns[t].round, turns[t].tried>>

Delta(a)         == [kind |-> "delta", of |-> a]
Clear            == [kind |-> "clear", of |-> <<>>]
Outcome(kind, t) == [kind |-> kind, of |-> <<t>>]

\* _ensure_conversation, called whenever a message is stored: a conversation that
\* has no record gets one.
Ensure ==
    /\ current' \in IF current # 0 THEN {current} ELSE Convs \ records
    /\ records' = records \cup {current'}

-----------------------------------------------------------------------------
(* The interface thread.                                                   *)

\* send_chat_message
Send ==
    /\ ~busy /\ Len(turns) < MaxTurns
    /\ Ensure
    /\ turns' = Append(turns, Asked(current'))
    /\ busy' = TRUE /\ pending' = TRUE /\ streamed' = {}
    /\ UNCHANGED <<memory, wire>>

\* The user leaves the conversation of every turn that is under way and is not of
\* "c".
Left(c) ==
    [t \in DOMAIN turns |-> [turns[t] EXCEPT !.left = turns[t].left \/ (t \in UnderWay /\ turns[t].home # c)]]

\* Variant: the memory of the assistant is kept.
OpenAndRemember(c) ==
    /\ c \in records
    /\ current' = c /\ pending' = FALSE
    /\ turns' = Left(c)
    /\ UNCHANGED <<records, busy, streamed, memory, wire>>

\* open_conversation
Open(c) ==
    /\ c \in records
    /\ current' = c /\ pending' = FALSE /\ memory' = {}
    /\ turns' = Left(c)
    /\ UNCHANGED <<records, busy, streamed, wire>>

\* start_new_conversation, and the button that clears the page
StartNew ==
    /\ current' = 0 /\ pending' = FALSE /\ memory' = {}
    /\ turns' = Left(0)
    /\ UNCHANGED <<records, busy, streamed, wire>>

\* delete_conversation
Delete(c) ==
    /\ c \in records
    /\ records' = records \ {c}
    /\ IF c = current
       THEN current' = 0 /\ pending' = FALSE /\ memory' = {} /\ turns' = Left(0)
       ELSE UNCHANGED <<current, pending, memory, turns>>
    /\ UNCHANGED <<busy, streamed, wire>>

\* stream_delta; a piece that finds no bubble is thrown away.
Shows(s) ==
    /\ streamed' = IF ~pending THEN streamed ELSE IF s.kind = "clear" THEN {} ELSE streamed \cup {s.of}
    /\ UNCHANGED <<current, records, busy, pending, memory, turns>>

\* apply: finish_reply, and the answer is stored; a failure is only shown.
Finishes(s) ==
    /\ busy' = FALSE /\ pending' = FALSE /\ streamed' = {}
    /\ turns' = [turns EXCEPT ![s.of[1]].stage = "told"]
    /\ IF s.kind = "reply"
       THEN Ensure
       ELSE UNCHANGED <<current, records>>
    /\ UNCHANGED memory

\* on_finished unlocks the input once more.
Unlocks ==
    /\ busy' = FALSE
    /\ UNCHANGED <<current, records, pending, streamed, memory, turns>>

Deliver ==
    /\ wire # <<>> /\ wire' = Tail(wire)
    /\ \/ Head(wire).kind \in {"delta", "clear"} /\ Shows(Head(wire))
       \/ Head(wire).kind \in {"reply", "fail"} /\ Finishes(Head(wire))
       \/ Head(wire).kind = "finished" /\ Unlocks

-----------------------------------------------------------------------------
(* The network thread.                                                     *)

\* The messages of a round are put together, and the first provider is asked.
BeginRound(t, seen) ==
    turns' = [turns EXCEPT ![t] = [turns[t] EXCEPT
                !.stage = "round", !.round = turns[t].round + 1, !.tried = 1, !.said = FALSE, !.given = seen]]

\* _turn, with the question or, after the tools, with what they said
Begin(t) ==
    /\ turns[t].stage \in {"asked", "tools"}
    /\ memory' = memory \cup {t}
    /\ BeginRound(t, memory')
    /\ UNCHANGED <<page, wire>>

\* A piece of the answer (the second one of an attempt tells nothing new).
Chunk(t) ==
    /\ turns[t].stage = "round" /\ ~turns[t].said
    /\ turns' = [turns EXCEPT ![t] = [turns[t] EXCEPT !.said = TRUE]]
    /\ wire' = Append(wire, Delta(Attempt(t)))
    /\ UNCHANGED <<page, memory>>

\* Variant: nothing is taken back.
NothingBack(t) == <<>>

\* What a provider has said before it broke is taken back (_reset_stream).
TakenBack(t) == IF turns[t].said THEN <<Clear>> ELSE <<>>

\* A provider breaks in the middle of its stream, and the next one is asked.
NextProvider(t) ==
    /\ turns[t].stage = "round" /\ turns[t].tried < Providers
    /\ turns' = [turns EXCEPT ![t] = [turns[t] EXCEPT !.tried = turns[t].tried + 1, !.said = FALSE]]
    /\ wire' = wire \o TakenBack(t)
    /\ UNCHANGED <<page, memory>>

\* The turn is over: its outcome, then that it has finished.
Over(t) == [turns EXCEPT ![t] = [Asked(turns[t].home) EXCEPT !.stage = "over", !.left = turns[t].left]]
Told(t, kind) == <<Outcome(kind, t), Outcome("finished", t)>>

\* The model asks for tools, which run until the next round begins.
UseTools(t) ==
    /\ turns[t].stage = "round" /\ turns[t].round < Rounds
    /\ turns' = [turns EXCEPT ![t] = [turns[t] EXCEPT
                    !.stage = "tools", !.tried = 0, !.said = FALSE, !.given = {}]]
    /\ memory' = memory \cup {t}
    /\ wire' = Append(wire, Clear)
    /\ UNCHANGED page

\* The model says nothing that could be shown and is asked once more.
AskAgain(t) ==
    /\ turns[t].stage = "round" /\ turns[t].round < Rounds /\ ~turns[t].said
    /\ memory' = memory \cup {t}
    /\ BeginRound(t, memory')
    /\ UNCHANGED <<page, wire>>

Answer(t) ==
    /\ turns[t].stage = "round"
    /\ turns' = Over(t)
    /\ memory' = memory \cup {t}
    /\ wire' = wire \o Told(t, "reply")
    /\ UNCHANGED page

\* The last provider broke, or the model gave no answer.
Fails(t) ==
    /\ turns[t].stage = "round" /\ (turns[t].tried = Providers \/ ~turns[t].said)
    /\ turns' = Over(t)
    /\ wire' = wire \o TakenBack(t) \o Told(t, "fail")
    /\ UNCHANGED <<page, memory>>

\* The time of the turn is up, wherever it is.
TimesOut(t) ==
    /\ turns[t].stage \in {"round", "tools"}
    /\ turns' = Over(t)
    /\ wire' = wire \o Told(t, "fail")
    /\ UNCHANGED <<page, memory>>

-----------------------------------------------------------------------------
ChatInit ==
    /\ current = 0 /\ records \in SUBSET Convs
    /\ busy = FALSE /\ pending = FALSE /\ streamed = {}
    /\ memory = {} /\ turns = <<>> /\ wire = <<>>

ChatNext ==
    \/ Send \/ StartNew \/ Deliver
    \/ \E c \in Convs : Open(c) \/ Delete(c)
    \/ \E t \in DOMAIN turns :
        \/ Begin(t) \/ Chunk(t) \/ NextProvider(t) \/ UseTools(t) \/ AskAgain(t)
        \/ Answer(t) \/ Fails(t) \/ TimesOut(t)

ChatSpec == ChatInit /\ [][ChatNext]_chatVars

-----------------------------------------------------------------------------
(* Properties.                                                             *)

\* Every variable keeps its type.
ChatTypeOK ==
    /\ records \subseteq Convs /\ current \in {0} \cup records
    /\ {busy, pending} \subseteq BOOLEAN
    /\ memory \subseteq DOMAIN turns
    /\ turns \in Seq(Turn)

\* The model is given no message of another conversation than the one it answers
\* in (open_conversation: the memory is cleared so that answers are not mixed up
\* with the conversation before).  Claimed of the turns whose conversation the
\* user did not leave before the answer was there: such an answer, and what its
\* tools said, goes to the memory of whatever conversation is open by then.
MemoryApart ==
    \A t \in DOMAIN turns : ~turns[t].left =>
        \A u \in turns[t].given : ~turns[u].left => turns[u].home = turns[t].home

\* The text that grows in the bubble is of one attempt of one provider: answers of
\* two do not stick together (stream_delta, ProviderManager.stream).  Two turns
\* are under way at once only when the user asks again between the two signals
\* that end a turn.
OneVoice == Cardinality(UnderWay) <= 1 => Cardinality(streamed) <= 1
=============================================================================
