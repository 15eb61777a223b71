-------------------------- MODULE PartsFeedProofs --------------------------
(***************************************************************************)
(* Theorems about the parts that bring prices: the tick engine, the        *)
(* subscriptions of the web sockets, and the candles, and about the        *)
(* variables of these and of the connections.                              *)
(***************************************************************************)
EXTENDS PartsSafety, Integers, FiniteSetTheorems, TLAPS

(* What the parts assume of the constants. *)
LEMMA FeedAssumptions ==
    /\ Ticks!TickAssumption /\ Streams!StreamsAssumption /\ Candles!MarketAssumption
    /\ Links!ConnectivityAssumption
BY PartsAssumption

(* A step of the whole is a step of each part, or leaves it alone. *)
LEMMA TickSteps == [Next]_vars => [Ticks!TickNext]_(Ticks!tickVars)
BY DEF Next, TicksStep, StreamsStep, CandlesStep, MonitorStep, RunnerStep, LinksStep, SwitchStep,
       ResultsStep, ChatStep, vars, ticksVars, Ticks!tickVars

(* So it is with the streams. *)
LEMMA StreamSteps == [Next]_vars => [Streams!StreamsNext]_(Streams!streamsVars)
BY DEF Next, TicksStep, StreamsStep, CandlesStep, MonitorStep, RunnerStep, LinksStep, SwitchStep,
       ResultsStep, ChatStep, vars, streamsVars, Streams!streamsVars

(* So it is with the candles. *)
LEMMA CandleSteps == [Next]_vars => [Candles!MarketNext]_(Candles!marketVars)
BY DEF Next, TicksStep, StreamsStep, CandlesStep, MonitorStep, RunnerStep, LinksStep, SwitchStep,
       ResultsStep, ChatStep, vars, candlesVars, Candles!marketVars

-----------------------------------------------------------------------------
(* The tick engine.  Until the local clock is set, the two clocks differ by *)
(* the skew that was there when the quote was made.                         *)
QuoteFields == {"made", "arrived", "stamped", "exchange", "received", "processed",
                "hasBook", "book", "bookArrived"}

TickTimes ==
    /\ now \in Int /\ skew \in Int /\ steps \in Nat
    /\ quote # Ticks!NoQuote =>
         /\ DOMAIN quote = QuoteFields
         /\ quote.made \in Int /\ quote.arrived \in Int /\ quote.processed \in Int
         /\ quote.book \in Int /\ quote.bookArrived \in Int /\ quote.hasBook \in BOOLEAN
         /\ steps = 0 => quote.processed = quote.arrived + skew
         /\ steps = 0 /\ quote.hasBook => quote.book = quote.bookArrived + skew

(* What a recorded tick leaves. *)
LEMMA RecordEffect ==
    ASSUME TickTimes, NEW made \in Int, NEW stamped \in BOOLEAN, NEW received,
           Ticks!Record(made, stamped, received), UNCHANGED <<now, skew, steps>>
    PROVE  /\ TickTimes'
           /\ \/ quote' = quote
              \/ /\ quote'.made = made /\ quote'.stamped = stamped
                 /\ stamped => quote'.exchange = made + offset'
                 /\ quote # Ticks!NoQuote /\ quote.stamped /\ stamped
                       => quote'.exchange >= quote.exchange
<1> DEFINE book == Ticks!CarriedBook
           exchange1 == IF stamped THEN made + offset' ELSE Ticks!Local
<1>1. CASE quote' = quote
  BY <1>1 DEF TickTimes
<1>2. CASE /\ Ticks!Accept(stamped, exchange1)
           /\ quote' = [made |-> made, arrived |-> now, stamped |-> stamped,
                        exchange |-> exchange1, received |-> received,
                        processed |-> Ticks!Local, hasBook |-> book[1], book |-> book[2],
                        bookArrived |-> book[3]]
  <2>1. /\ book[1] \in BOOLEAN /\ book[2] \in Int /\ book[3] \in Int
        /\ steps = 0 /\ book[1] => book[2] = book[3] + skew
    BY DEF TickTimes, Ticks!CarriedBook, Ticks!BookFresh
  <2>2. Ticks!Local = now + skew /\ Ticks!Local \in Int
    BY DEF Ticks!Local, TickTimes
  <2> HIDE DEF book
  <2>3. TickTimes'
    BY <1>2, <2>1, <2>2 DEF TickTimes, QuoteFields
  <2>4. quote # Ticks!NoQuote /\ quote.stamped /\ stamped => exchange1 >= quote.exchange
    BY <1>2 DEF Ticks!Accept
  <2> QED BY <1>2, <2>3, <2>4
<1> QED BY <1>1, <1>2 DEF Ticks!Record

(* A price does not go back in this step. *)
NotBack ==
    (/\ offset = 0 /\ offset' = 0 /\ Ticks!NoQuote \notin {quote, quote'}
     /\ quote.stamped /\ quote'.stamped /\ quote.exchange = quote.made)
        => quote'.made >= quote.made

(* The inductive step, and that no step takes the price back. *)
LEMMA TickTimesStep ==
    ASSUME TickTimes, [Ticks!TickNext]_(Ticks!tickVars)
    PROVE  TickTimes' /\ NotBack
<1>1. ASSUME NEW made \in Int, NEW stamped \in BOOLEAN, NEW received,
             Ticks!Record(made, stamped, received), UNCHANGED <<now, skew, steps>>
      PROVE  TickTimes' /\ NotBack
  <2>1. TickTimes'
    BY <1>1, RecordEffect
  <2>2. CASE quote' = quote
    BY <2>1, <2>2 DEF NotBack, TickTimes
  <2>3. CASE /\ quote'.made = made /\ quote'.stamped = stamped
             /\ stamped => quote'.exchange = made + offset'
             /\ quote # Ticks!NoQuote /\ quote.stamped /\ stamped
                   => quote'.exchange >= quote.exchange
    BY <1>1, <2>1, <2>3 DEF NotBack, TickTimes
  <2> QED BY <1>1, <2>1, <2>2, <2>3, RecordEffect
<1>2. ASSUME NEW made \in 0..MaxTime, NEW stamped \in StreamStamps,
             Ticks!StreamTick(made, stamped)
      PROVE  TickTimes' /\ NotBack
  BY <1>1, <1>2, FeedAssumptions DEF Ticks!StreamTick, Ticks!TickAssumption
<1>3. ASSUME NEW freshest \in 0..MaxTime, NEW made \in 0..MaxTime, NEW received \in 0..MaxTime,
             Ticks!PollBatch(freshest, made, received)
      PROVE  TickTimes' /\ NotBack
  <2>1. Ticks!Record(made, TRUE, received + skew) /\ UNCHANGED <<now, skew, steps>>
    BY <1>3 DEF Ticks!PollBatch
  <2>2. made \in Int
    BY FeedAssumptions DEF Ticks!TickAssumption
  <2> QED BY <1>1, <2>1, <2>2
<1>4. ASSUME NEW made \in 0..MaxTime, Ticks!RecordBook(made) PROVE TickTimes' /\ NotBack
  <2>1. /\ quote # Ticks!NoQuote /\ UNCHANGED <<now, skew, steps>>
        /\ quote' = [quote EXCEPT !.hasBook = TRUE, !.book = now + skew, !.bookArrived = now]
    BY <1>4 DEF Ticks!RecordBook, Ticks!Local
  <2>2. /\ quote'.made = quote.made /\ quote'.arrived = quote.arrived
        /\ quote'.processed = quote.processed /\ quote'.hasBook = TRUE
        /\ quote'.book = now + skew /\ quote'.bookArrived = now /\ DOMAIN quote' = QuoteFields
    BY <2>1 DEF TickTimes, QuoteFields
  <2> QED BY <2>1, <2>2 DEF TickTimes, NotBack
<1>5. CASE Ticks!Clear
  BY <1>5 DEF Ticks!Clear, TickTimes, NotBack
<1>6. CASE Ticks!TimePasses
  BY <1>6 DEF Ticks!TimePasses, TickTimes, NotBack
<1>7. CASE Ticks!ClockIsSet
  BY <1>7, FeedAssumptions DEF Ticks!ClockIsSet, TickTimes, NotBack, Ticks!TickAssumption
<1>8. CASE UNCHANGED Ticks!tickVars
  BY <1>8 DEF Ticks!tickVars, TickTimes, NotBack
<1> QED BY <1>2, <1>3, <1>4, <1>5, <1>6, <1>7, <1>8 DEF Ticks!TickNext

(* Initially there is no quote. *)
LEMMA TickStart == Init => TickTimes
<1> SUFFICES ASSUME Init PROVE TickTimes
  OBVIOUS
<1>1. Ticks!TickInit
  BY DEF Init
<1> QED BY <1>1, FeedAssumptions DEF Ticks!TickInit, Ticks!TickAssumption, TickTimes

(* A quote that is not stale arrived lately, and a book counts as fresh for *)
(* its own life, as long as the local clock is not set; whatever offset was *)
(* estimated.                                                               *)
THEOREM QuotesAge == Spec => []FreshMeansRecent
<1>1. TickTimes /\ [Next]_vars => TickTimes'
  BY TickSteps, TickTimesStep
<1>2. ASSUME TickTimes PROVE FreshMeansRecent
  <2>1. ASSUME steps = 0, ~Ticks!Stale PROVE now - quote.arrived <= StaleAfter
    <3>1. quote # Ticks!NoQuote /\ ~(Ticks!Local - quote.processed > StaleAfter)
      BY <2>1 DEF Ticks!Stale
    <3> QED BY <1>2, <2>1, <3>1, FeedAssumptions
            DEF TickTimes, Ticks!Local, Ticks!TickAssumption
  <2>2. ASSUME steps = 0, quote # Ticks!NoQuote, Ticks!BookFresh
        PROVE  now - quote.bookArrived <= BookLife
    BY <1>2, <2>2, FeedAssumptions
       DEF TickTimes, Ticks!BookFresh, Ticks!Local, Ticks!TickAssumption
  <2> QED BY <2>1, <2>2 DEF FreshMeansRecent, Ticks!FreshMeansRecent, Ticks!BookAges
<1> QED BY <1>1, <1>2, TickStart, PTL DEF Spec

(* While the clocks agree, a tick of a known time never takes the price     *)
(* back to an older one, in whatever order the two sources deliver.         *)
THEOREM PricesGoForward == Spec => NeverGoesBack
<1>1. TickTimes /\ [Next]_vars => TickTimes'
  BY TickSteps, TickTimesStep
<1>2. TickTimes /\ [Next]_vars => [NotBack]_(Ticks!tickVars)
  BY TickSteps, TickTimesStep
<1>3. Spec => [][NotBack]_(Ticks!tickVars)
  BY <1>1, <1>2, TickStart, PTL DEF Spec
<1> QED BY <1>3 DEF NeverGoesBack, Ticks!NeverGoesBack, NotBack

-----------------------------------------------------------------------------
(* The subscriptions of the web sockets.  What a client wants is either     *)
(* delivered or still to be registered again.                               *)
OfClients(f) == f = [c \in Clients |-> f[c]]

LinesServed ==
    /\ OfClients(subs) /\ OfClients(line) /\ OfClients(again) /\ OfClients(server)
    /\ \A c \in Clients : /\ line[c] \in {"down", "again", "up"}
                          /\ line[c] = "again" => subs[c] \subseteq server[c] \cup again[c]
                          /\ line[c] = "up" => subs[c] \subseteq server[c]

(* The inductive step: a change of the set reaches the server whenever the  *)
(* connection is there, whether or not it is being registered again.        *)
LEMMA LinesServedStep ==
    ASSUME LinesServed, [Streams!StreamsNext]_(Streams!streamsVars)
    PROVE  LinesServed'
<1>1. ASSUME NEW c \in Clients, Streams!Cast(c) PROVE LinesServed'
  <2>1. /\ OfClients(subs') /\ OfClients(server') /\ UNCHANGED <<line, again>>
        /\ \A d \in Clients \ {c} : subs'[d] = subs[d] /\ server'[d] = server[d]
    BY <1>1 DEF LinesServed, OfClients, Streams!Cast, Streams!wanted
  <2>2. CASE call.op = "subscribe"
    <3>1. /\ subs'[c] = subs[c] \cup {call.symbol}
          /\ server'[c] = IF call.symbol \notin subs[c] /\ line[c] # "down"
                          THEN server[c] \cup {call.symbol} ELSE server[c]
      BY <1>1, <2>2 DEF LinesServed, OfClients, Streams!Cast, Streams!Sends
    <3> QED BY <2>1, <3>1 DEF LinesServed, OfClients
  <2>3. CASE call.op # "subscribe"
    <3>1. /\ subs'[c] = subs[c] \ {call.symbol}
          /\ server'[c] = IF line[c] # "down" THEN server[c] \ {call.symbol} ELSE server[c]
      BY <1>1, <2>3 DEF LinesServed, OfClients, Streams!Cast, Streams!Sends
    <3> QED BY <2>1, <3>1 DEF LinesServed, OfClients
  <2> QED BY <2>2, <2>3
<1>2. ASSUME NEW c \in Clients, Streams!Connect(c) PROVE LinesServed'
  BY <1>2 DEF LinesServed, OfClients, Streams!Connect
<1>3. ASSUME NEW c \in Clients, NEW x \in Symbols, Streams!Again(c, x) PROVE LinesServed'
  BY <1>3 DEF LinesServed, OfClients, Streams!Again
<1>4. ASSUME NEW c \in Clients, Streams!AgainEnds(c) PROVE LinesServed'
  BY <1>4 DEF LinesServed, OfClients, Streams!AgainEnds
<1>5. ASSUME NEW c \in Clients, Streams!Lost(c) PROVE LinesServed'
  BY <1>5 DEF LinesServed, OfClients, Streams!Lost
<1>6. ASSUME NEW c \in Clients, Streams!Revive(c) PROVE LinesServed'
  BY <1>6 DEF LinesServed, OfClients, Streams!Revive
<1>7. CASE UNCHANGED Streams!lines
  BY <1>7 DEF LinesServed, OfClients, Streams!lines
<1> QED BY <1>1, <1>2, <1>3, <1>4, <1>5, <1>6, <1>7
        DEF Streams!StreamsNext, Streams!Submit, Streams!Feed, Streams!LoopEnds, Streams!Show,
            Streams!SocketComes, Streams!Loop, Streams!streamsVars, Streams!lines

(* A client whose connection is up receives every symbol of its set,        *)
(* whatever calls, losses and revivals fell between its registrations.      *)
THEOREM UpServed == Spec => []UpIsServed
<1>1. LinesServed /\ [Next]_vars => LinesServed'
  BY StreamSteps, LinesServedStep
<1>2. Init => LinesServed
  <2> SUFFICES ASSUME Init PROVE LinesServed
    OBVIOUS
  <2>1. Streams!StreamsInit
    BY DEF Init
  <2> QED BY <2>1 DEF Streams!StreamsInit, LinesServed, OfClients
<1>3. LinesServed => UpIsServed
  BY DEF LinesServed, UpIsServed, Streams!UpIsServed
<1> QED BY <1>1, <1>2, <1>3, PTL DEF Spec

-----------------------------------------------------------------------------
(* The call that changes the subscriptions.  Until a call is replaced, the  *)
(* stream's set is between the calls what was asked for, inside a call what *)
(* the rest of its loop will make of it, and a client differs from it by    *)
(* the one symbol it has still to be told.                                  *)
CallFields == {"at", "list", "shown", "drop", "add", "op", "symbol", "left", "last"}

Between == call.at \in {"idle", "feed", "show"} \/ (call.at = "cast" /\ call.last)
Looping == call.at = "loop" \/ (call.at = "cast" /\ ~call.last)

CallShape ==
    /\ DOMAIN call = CallFields /\ call.last \in BOOLEAN /\ call.left \subseteq Clients
    /\ call.at \in {"idle", "feed", "loop", "cast", "show"}
    /\ call.at = "cast" => call.op \in {"subscribe", "unsubscribe"}
    /\ replaced \in Nat /\ OfClients(subs)

StreamMatches ==
    /\ Between => tickers = watch \cup explicit
    /\ Looping => (tickers \ call.drop) \cup call.add = Streams!ToSet(call.list) \cup explicit

ClientsMatch ==
    /\ call.at # "cast" => \A c \in Clients : subs[c] = tickers
    /\ call.at = "cast" => \A c \in Clients :
          /\ c \notin call.left => subs[c] = tickers
          /\ c \in call.left /\ call.op = "subscribe" => subs[c] \cup {call.symbol} = tickers
          /\ c \in call.left /\ call.op = "unsubscribe" => subs[c] \ {call.symbol} = tickers

CallInv == CallShape /\ (replaced = 0 => StreamMatches /\ ClientsMatch)

(* A broadcast starts with every client to be told. *)
LEMMA BroadcastEffect ==
    ASSUME CallShape, NEW op \in {"subscribe", "unsubscribe"}, NEW x, NEW last \in BOOLEAN,
           Streams!Broadcast(op, x, last)
    PROVE  /\ tickers' = IF op = "subscribe" THEN tickers \cup {x} ELSE tickers \ {x}
           /\ DOMAIN call' = CallFields /\ call'.at = "cast" /\ call'.op = op
           /\ call'.symbol = x /\ call'.left = Clients /\ call'.last = last
           /\ call'.list = call.list /\ call'.drop = call.drop \ {x}
           /\ call'.add = IF op = "subscribe" THEN call.add \ {x} ELSE call.add
BY DEF CallShape, CallFields, Streams!Broadcast

(* The loop of a call tells one symbol, and what is left of it makes up the *)
(* difference.                                                              *)
LEMMA LoopStep ==
    ASSUME CallInv, NEW x \in Symbols, Streams!Loop(x)
    PROVE  CallInv'
<1>1. PICK op \in {"subscribe", "unsubscribe"} :
         /\ Streams!Broadcast(op, x, FALSE) /\ call.at = "loop"
         /\ op = "unsubscribe" => x \in call.drop
         /\ op = "subscribe" => call.drop = {} /\ x \in call.add
  BY DEF Streams!Loop
<1>2. UNCHANGED <<replaced, subs, watch, explicit>>
  BY DEF Streams!Loop, Streams!wanted, Streams!lines
<1>3. CallShape'
  BY <1>1, <1>2, BroadcastEffect DEF CallInv, CallShape
<1>4. ASSUME replaced = 0 PROVE StreamMatches'
  <2>1. (tickers \ call.drop) \cup call.add = Streams!ToSet(call.list) \cup explicit
    BY <1>1, <1>4 DEF CallInv, StreamMatches, Looping
  <2>2. (tickers' \ call'.drop) \cup call'.add = (tickers \ call.drop) \cup call.add
    <3>1. CASE op = "subscribe"
      <4>1. /\ tickers' = tickers \cup {x} /\ call'.drop = {} /\ call'.add = call.add \ {x}
            /\ x \in call.add /\ call.drop = {}
        BY <1>1, <3>1, BroadcastEffect DEF CallInv
      <4> QED BY <4>1
    <3>2. CASE op = "unsubscribe"
      <4>1. /\ tickers' = tickers \ {x} /\ call'.drop = call.drop \ {x} /\ call'.add = call.add
            /\ x \in call.drop
        BY <1>1, <3>2, BroadcastEffect DEF CallInv
      <4> QED BY <4>1
    <3> QED BY <3>1, <3>2
  <2>3. Streams!ToSet(call'.list) = Streams!ToSet(call.list) /\ Looping' /\ ~Between'
    BY <1>1, BroadcastEffect DEF CallInv, Looping, Between
  <2> QED BY <1>2, <2>1, <2>2, <2>3 DEF StreamMatches
<1>5. ASSUME replaced = 0 PROVE ClientsMatch'
  <2>1. \A c \in Clients : subs[c] = tickers
    BY <1>1, <1>5 DEF CallInv, ClientsMatch
  <2> QED BY <1>1, <1>2, <2>1, BroadcastEffect DEF CallInv, ClientsMatch
<1> QED BY <1>2, <1>3, <1>4, <1>5 DEF CallInv

(* A client is told the symbol; the last one ends the broadcast. *)
LEMMA CastStep ==
    ASSUME CallInv, NEW c \in Clients, Streams!Cast(c)
    PROVE  CallInv'
<1>1. /\ call.at = "cast" /\ c \in call.left /\ OfClients(subs')
      /\ UNCHANGED <<replaced, watch, explicit, tickers>>
      /\ \A d \in Clients \ {c} : subs'[d] = subs[d]
      /\ subs'[c] = IF call.op = "subscribe" THEN subs[c] \cup {call.symbol}
                                            ELSE subs[c] \ {call.symbol}
  BY DEF CallInv, CallShape, OfClients, Streams!Cast, Streams!wanted
<1>2. CASE call.left # {c}
  <2>1. /\ DOMAIN call' = CallFields /\ call'.at = "cast" /\ call'.op = call.op
        /\ call'.symbol = call.symbol /\ call'.left = call.left \ {c}
        /\ call'.last = call.last /\ call'.list = call.list /\ call'.drop = call.drop
        /\ call'.add = call.add
    BY <1>2 DEF CallInv, CallShape, CallFields, Streams!Cast
  <2>2. CallShape'
    BY <1>1, <2>1 DEF CallInv, CallShape
  <2>3. StreamMatches => StreamMatches'
    BY <1>1, <2>1 DEF StreamMatches, Between, Looping
  <2>4. ClientsMatch => ClientsMatch'
    BY <1>1, <2>1 DEF ClientsMatch, CallInv, CallShape
  <2> QED BY <1>1, <2>2, <2>3, <2>4 DEF CallInv
<1>3. CASE call.left = {c} /\ call.last
  <2>1. call' = Streams!Idle
    BY <1>3 DEF Streams!Cast
  <2>2. CallShape' /\ call'.at = "idle"
    BY <1>1, <2>1 DEF CallInv, CallShape, CallFields, Streams!Idle
  <2>3. StreamMatches => StreamMatches'
    BY <1>1, <1>3, <2>2 DEF StreamMatches, Between, Looping
  <2>4. ClientsMatch => ClientsMatch'
    BY <1>1, <1>3, <2>2 DEF ClientsMatch, CallInv, CallShape
  <2> QED BY <1>1, <2>2, <2>3, <2>4 DEF CallInv
<1>4. CASE call.left = {c} /\ ~call.last
  <2>1. /\ DOMAIN call' = CallFields /\ call'.at = "loop" /\ call'.left = {}
        /\ call'.last = call.last /\ call'.list = call.list /\ call'.drop = call.drop
        /\ call'.add = call.add
    BY <1>4 DEF CallInv, CallShape, CallFields, Streams!Cast
  <2>2. CallShape'
    BY <1>1, <2>1 DEF CallInv, CallShape
  <2>3. StreamMatches => StreamMatches'
    BY <1>1, <1>4, <2>1 DEF StreamMatches, Between, Looping
  <2>4. ClientsMatch => ClientsMatch'
    BY <1>1, <1>4, <2>1 DEF ClientsMatch, CallInv, CallShape
  <2> QED BY <1>1, <2>2, <2>3, <2>4 DEF CallInv
<1> QED BY <1>2, <1>3, <1>4 DEF CallInv, CallShape

(* A revived client is told every symbol of the stream, also the one that a *)
(* broadcast under way has still to tell it.                                *)
LEMMA ReviveStep ==
    ASSUME CallInv, NEW c \in Clients, Streams!Revive(c)
    PROVE  CallInv'
<1>1. /\ UNCHANGED <<call, replaced, watch, explicit, tickers>> /\ OfClients(subs')
      /\ \A d \in Clients \ {c} : subs'[d] = subs[d]
      /\ subs'[c] = subs[c] \cup tickers
  BY DEF CallInv, CallShape, OfClients, Streams!Revive, Streams!wanted
<1>2. CallShape'
  BY <1>1 DEF CallInv, CallShape
<1>3. StreamMatches => StreamMatches'
  BY <1>1 DEF StreamMatches, Between, Looping
<1>4. ClientsMatch => ClientsMatch'
  BY <1>1 DEF ClientsMatch
<1> QED BY <1>1, <1>2, <1>3, <1>4 DEF CallInv

(* The beginning of a call: what it will drop and add makes up the          *)
(* difference to its list.                                                  *)
LEMMA FeedStep ==
    ASSUME CallInv, Streams!Feed
    PROVE  CallInv'
<1>1. call.at = "feed" /\ UNCHANGED <<watch, explicit, tickers, subs, replaced>>
  BY DEF Streams!Feed, Streams!lines
<1>2. CASE call' = [call EXCEPT !.at = "show"]
  <2>1. DOMAIN call' = CallFields /\ call'.at = "show" /\ call'.last = call.last
        /\ call'.left = call.left
    BY <1>2 DEF CallInv, CallShape, CallFields
  <2> QED BY <1>1, <2>1 DEF CallInv, CallShape, StreamMatches, ClientsMatch, Between, Looping
<1>3. CASE call' = [call EXCEPT !.at = "loop",
                                !.drop = Streams!Dropped(Streams!ToSet(call.list)),
                                !.add = Streams!ToSet(call.list) \ watch]
  <2> DEFINE desired == Streams!ToSet(call.list)
  <2>1. /\ DOMAIN call' = CallFields /\ call'.at = "loop" /\ call'.last = call.last
        /\ call'.left = call.left /\ call'.list = call.list
        /\ call'.drop = watch \ (desired \cup explicit) /\ call'.add = desired \ watch
    BY <1>3 DEF CallInv, CallShape, CallFields, Streams!Dropped
  <2>2. Streams!ToSet(call'.list) = desired
    BY <2>1
  <2> HIDE DEF desired
  <2>3. ASSUME replaced = 0 PROVE (tickers \ call'.drop) \cup call'.add = desired \cup explicit
    <3>1. tickers = watch \cup explicit
      BY <1>1, <2>3 DEF CallInv, StreamMatches, Between
    <3> QED BY <2>1, <3>1
  <2> QED BY <1>1, <2>1, <2>2, <2>3
          DEF CallInv, CallShape, StreamMatches, ClientsMatch, Between, Looping
<1> QED BY <1>2, <1>3 DEF Streams!Feed

(* The inductive step of the other actions. *)
LEMMA CallStep ==
    ASSUME CallInv, [Streams!StreamsNext]_(Streams!streamsVars)
    PROVE  CallInv'
<1>1. ASSUME NEW held1, NEW others, NEW shown1, Streams!Submit(held1, others, shown1)
      PROVE  CallInv'
  <2>1. /\ DOMAIN call' = CallFields /\ call'.at = "feed" /\ call'.last = FALSE
        /\ call'.left = {} /\ UNCHANGED <<watch, explicit, tickers, subs>>
    BY <1>1 DEF Streams!Submit, Streams!Idle, CallFields, Streams!lines
  <2>2. /\ replaced' \in Nat
        /\ replaced' = 0 => replaced = 0 /\ call.at = "idle"
    BY <1>1 DEF Streams!Submit, Streams!Under, CallInv, CallShape
  <2> QED BY <2>1, <2>2 DEF CallInv, CallShape, StreamMatches, ClientsMatch, Between, Looping
<1>2. CASE Streams!LoopEnds
  <2>1. /\ DOMAIN call' = CallFields /\ call'.at = "show" /\ call'.last = call.last
        /\ call'.left = call.left /\ call.at = "loop" /\ call.drop = {} /\ call.add = {}
        /\ watch' = Streams!ToSet(call.list) /\ UNCHANGED <<explicit, tickers, subs, replaced>>
    BY <1>2 DEF Streams!LoopEnds, CallInv, CallShape, CallFields, Streams!lines
  <2> QED BY <2>1 DEF CallInv, CallShape, StreamMatches, ClientsMatch, Between, Looping
<1>3. CASE Streams!Show
  <2>1. call.at = "show" /\ UNCHANGED <<watch, subs, replaced>>
    BY <1>3 DEF Streams!Show, Streams!lines
  <2>2. CASE call' = Streams!Idle /\ UNCHANGED <<explicit, tickers>>
    <3>1. /\ DOMAIN call' = CallFields /\ call'.at = "idle" /\ call'.last = FALSE
          /\ call'.left = {}
      BY <2>2 DEF Streams!Idle, CallFields
    <3> QED BY <2>1, <2>2, <3>1
            DEF CallInv, CallShape, StreamMatches, ClientsMatch, Between, Looping
  <2>3. ASSUME NEW x, explicit' = explicit \cup {x}, Streams!Broadcast("subscribe", x, TRUE)
        PROVE  CallInv'
    <3>1. /\ DOMAIN call' = CallFields /\ call'.at = "cast" /\ call'.op = "subscribe"
          /\ call'.symbol = x /\ call'.left = Clients /\ call'.last = TRUE
          /\ tickers' = tickers \cup {x}
      BY <2>3, BroadcastEffect DEF CallInv
    <3> QED BY <2>1, <2>3, <3>1
            DEF CallInv, CallShape, StreamMatches, ClientsMatch, Between, Looping
  <2> QED BY <1>3, <2>2, <2>3 DEF Streams!Show
<1>4. CASE UNCHANGED <<call, replaced, watch, explicit, tickers, subs>>
  BY <1>4 DEF CallInv, CallShape, StreamMatches, ClientsMatch, Between, Looping
<1> QED BY <1>1, <1>2, <1>3, <1>4, LoopStep, CastStep, ReviveStep, FeedStep
        DEF Streams!StreamsNext, Streams!Connect, Streams!Again, Streams!AgainEnds, Streams!Lost,
            Streams!SocketComes, Streams!streamsVars, Streams!wanted, Streams!lines

(* Initially no call is made. *)
LEMMA CallStart == Init => CallInv
<1> SUFFICES ASSUME Init PROVE CallInv
  OBVIOUS
<1>1. Streams!StreamsInit
  BY DEF Init
<1> QED BY <1>1 DEF Streams!StreamsInit, Streams!Idle, CallInv, CallShape, CallFields, OfClients,
                    StreamMatches, ClientsMatch, Between, Looping

(* As long as no call was replaced, nothing but what was asked for is       *)
(* subscribed when no call is under way, and every client agrees with the   *)
(* stream, however many there are.                                          *)
THEOREM ClientsAgreeAlways == Spec => []ClientsAgree
<1>1. CallInv /\ [Next]_vars => CallInv'
  BY StreamSteps, CallStep
<1>2. CallInv => ClientsAgree
  BY DEF CallInv, StreamMatches, ClientsMatch, Between, ClientsAgree, Streams!ClientsAgree,
         Streams!Under
<1> QED BY <1>1, <1>2, CallStart, PTL DEF Spec

-----------------------------------------------------------------------------
(* The candles.  There is at most one request, the one that callers join,   *)
(* and none while something is cached; and nothing known here is newer than *)
(* the exchange.                                                            *)
UpToNow == -1..exchange
Back(j) == calls[j].at = "back"

OneRequest ==
    /\ DOMAIN calls = Candles!CallIds
    /\ inflight \in Candles!CallIds \cup {0}
    /\ \A j \in Candles!CallIds :
          /\ calls[j] = Candles!NoCall <=> j # inflight
          /\ Back(j) => calls[j].version \in 0..exchange
    /\ inflight # 0 => cache = Candles!None

NotAhead ==
    /\ exchange \in Nat
    /\ cache \in UpToNow /\ stored \in UpToNow /\ live \in UpToNow
    /\ DOMAIN answer = Callers
    /\ \A c \in Callers : answer[c].base \in UpToNow /\ answer[c].live \in UpToNow

(* What a caller will be told next, from the cache or from the answer on    *)
(* its way, ends no earlier than what it was told.                          *)
Promised(v) ==
    \A c \in Callers : Candles!LastCandle(answer[c]) <= Candles!LastCandle(Candles!Merge(v))

Promises ==
    /\ \A j \in Candles!CallIds : Back(j) => Promised(calls[j].version)
    /\ cache # Candles!None => Promised(cache)

(* Later versions show later candles. *)
LEMMA CandleOrder ==
    ASSUME NEW v \in Int, NEW w \in Int, v <= w
    PROVE  /\ Candles!CandleOf(v) \in Int /\ Candles!CandleOf(w) \in Int
           /\ Candles!CandleOf(v) <= Candles!CandleOf(w)
BY DEF Candles!CandleOf

(* The last candle of an answer is the later one of its two. *)
LEMMA LastIsLater ==
    ASSUME NEW a, a.base \in Int, a.live \in Int, a.base >= -1, a.live >= -1
    PROVE  /\ Candles!LastCandle(a) \in Int
           /\ Candles!LastCandle(a) >= Candles!CandleOf(a.base)
           /\ Candles!LastCandle(a) >= Candles!CandleOf(a.live)
           /\ Candles!LastCandle(a) \in {Candles!CandleOf(a.base), Candles!CandleOf(a.live)}
BY DEF Candles!LastCandle, Candles!CandleOf, Candles!None

(* Nothing told so far is later than what the exchange shows now. *)
LEMMA ToldNotAhead ==
    ASSUME NotAhead, NEW c \in Callers
    PROVE  /\ Candles!LastCandle(answer[c]) \in Int
           /\ Candles!LastCandle(answer[c]) <= Candles!CandleOf(exchange)
BY LastIsLater, CandleOrder DEF NotAhead, UpToNow

(* A merged answer that the exchange's series is in is the latest there is. *)
LEMMA MergedNow ==
    ASSUME NotAhead
    PROVE  Promised(exchange)
<1> DEFINE m == Candles!Merge(exchange)
<1>1. m.base = exchange /\ m.live = live
  BY DEF Candles!Merge
<1> HIDE DEF m
<1>2. Candles!LastCandle(m) \in Int /\ Candles!LastCandle(m) >= Candles!CandleOf(exchange)
  BY <1>1, LastIsLater DEF NotAhead, UpToNow
<1>3. Candles!CandleOf(exchange) \in Int
  BY CandleOrder DEF NotAhead
<1> QED BY <1>2, <1>3, ToldNotAhead DEF Promised, m

(* What the absent request is. *)
LEMMA NoCallFields ==
    /\ Candles!NoCall.at = "none" /\ 0 \notin Candles!CallIds
BY DEF Candles!NoCall, Candles!CallIds

(* The effect of the end of a request. *)
LEMMA OverEffect ==
    ASSUME OneRequest, NEW i \in Candles!CallIds, calls[i].at # "none", Candles!Over(i)
    PROVE  /\ i = inflight /\ inflight' = 0 /\ cache = Candles!None
           /\ DOMAIN calls' = Candles!CallIds
           /\ \A j \in Candles!CallIds : calls'[j] = Candles!NoCall
<1>1. i = inflight /\ i # 0
  <2>1. calls[i] # Candles!NoCall /\ i # 0
    BY NoCallFields
  <2> QED BY <2>1 DEF OneRequest
<1>2. calls' = [calls EXCEPT ![i] = Candles!NoCall] /\ inflight' = 0
  BY <1>1 DEF Candles!Over
<1> QED BY <1>1, <1>2 DEF OneRequest

(* The inductive step of the requests. *)
LEMMA OneRequestStep ==
    ASSUME OneRequest, NotAhead, [Candles!MarketNext]_(Candles!marketVars)
    PROVE  OneRequest'
<1>1. ASSUME NEW c \in Callers, Candles!FromCache(c) \/ Candles!Joins(c) \/ Candles!GivesUp(c)
      PROVE  OneRequest'
  BY <1>1 DEF OneRequest, Back, Candles!FromCache, Candles!Joins, Candles!GivesUp
<1>2. ASSUME NEW c \in Callers, NEW i \in Candles!CallIds, Candles!Starts(c, i)
      PROVE  OneRequest'
  <2>1. /\ inflight = 0 /\ inflight' = i /\ cache = Candles!None
        /\ UNCHANGED <<exchange, cache>>
        /\ calls' = [calls EXCEPT ![i] = [at |-> "sent", version |-> Candles!None,
                                         bulk |-> c \in Bulk]]
    BY <1>2 DEF Candles!Starts
  <2>2. /\ calls'[i].at = "sent"
        /\ \A j \in Candles!CallIds \ {i} : calls'[j] = calls[j] /\ calls[j] = Candles!NoCall
        /\ DOMAIN calls' = Candles!CallIds
    BY <2>1, NoCallFields DEF OneRequest
  <2> QED BY <2>1, <2>2, NoCallFields DEF OneRequest, Back
<1>3. ASSUME NEW i \in Candles!CallIds, Candles!Responds(i) PROVE OneRequest'
  <2>1. /\ calls[i].at = "sent" /\ UNCHANGED <<exchange, inflight, cache>>
        /\ calls' = [calls EXCEPT ![i] = [at |-> "back", version |-> exchange,
                                         bulk |-> calls[i].bulk]]
    BY <1>3 DEF Candles!Responds
  <2>2. /\ calls'[i].at = "back" /\ calls'[i].version = exchange
        /\ \A j \in Candles!CallIds \ {i} : calls'[j] = calls[j]
        /\ DOMAIN calls' = Candles!CallIds
    BY <2>1 DEF OneRequest
  <2>3. calls[i] # Candles!NoCall /\ calls'[i] # Candles!NoCall
    BY <2>1, <2>2, NoCallFields
  <2> QED BY <2>1, <2>2, <2>3 DEF OneRequest, NotAhead, Back
<1>4. ASSUME NEW i \in Candles!CallIds, Candles!Returns(i) \/ Candles!Fails(i) PROVE OneRequest'
  <2>1. calls[i].at # "none" /\ Candles!Over(i)
    BY <1>4 DEF Candles!Returns, Candles!Fails
  <2> QED BY <2>1, OverEffect, NoCallFields DEF OneRequest, Back
<1>5. ASSUME NEW k \in Conns, NEW v \in Candles!Versions, Candles!LiveCandle(k, v)
      PROVE  OneRequest'
  BY <1>5 DEF OneRequest, Back, Candles!LiveCandle, Candles!TakesLive
<1>6. CASE Candles!Expires
  BY <1>6 DEF OneRequest, Back, Candles!Expires
<1>7. CASE Candles!ExchangeMoves
  BY <1>7 DEF OneRequest, NotAhead, Back, Candles!ExchangeMoves
<1>8. CASE UNCHANGED Candles!marketVars
  BY <1>8 DEF OneRequest, Back, Candles!marketVars
<1> QED BY <1>1, <1>2, <1>3, <1>4, <1>5, <1>6, <1>7, <1>8 DEF Candles!MarketNext

(* A step tells a caller one of the news, or nothing.  *)
TellsOnly(news) ==
    /\ DOMAIN answer' = Callers
    /\ \A c \in Callers : answer'[c] = answer[c] \/ answer'[c] \in news

(* The answers from the cache, from a request, and from the database. *)
LEMMA FromCacheEffect ==
    ASSUME OneRequest, NotAhead, NEW c \in Callers, Candles!FromCache(c)
    PROVE  /\ TellsOnly({Candles!Merge(cache)}) /\ cache # Candles!None /\ inflight = 0
           /\ UNCHANGED <<exchange, calls, cache, stored, live, overtaken>>
<1>1. answer' = [answer EXCEPT ![c] = Candles!Merge(cache)]
  BY DEF Candles!FromCache
<1>2. TellsOnly({Candles!Merge(cache)})
  BY <1>1 DEF TellsOnly, NotAhead
<1> QED BY <1>2 DEF OneRequest, Candles!FromCache

(* A request that returns tells its waiting callers no version but its own. *)
LEMMA ReturnsEffect ==
    ASSUME NEW i \in Candles!CallIds, Candles!Returns(i)
    PROVE  /\ Back(i) /\ Candles!Over(i) /\ TellsOnly({Candles!Merge(calls[i].version)})
           /\ cache' \in {cache, calls[i].version} /\ stored' \in {stored, calls[i].version}
           /\ UNCHANGED <<exchange, live, overtaken>>
BY DEF Candles!Returns, TellsOnly, Back

(* A request that fails tells them what is stored, or nothing. *)
LEMMA FailsEffect ==
    ASSUME NEW i \in Candles!CallIds, Candles!Fails(i)
    PROVE  /\ calls[i].at # "none" /\ Candles!Over(i)
           /\ stored # Candles!None => TellsOnly({Candles!FromStore})
           /\ stored = Candles!None => TellsOnly({})
           /\ UNCHANGED <<exchange, cache, stored, live, overtaken>>
BY DEF Candles!Fails, TellsOnly

(* The fields of what is told. *)
LEMMA TellingFields ==
    /\ \A v : /\ Candles!Merge(v).base = v /\ Candles!Merge(v).live = live
             /\ Candles!Merge(v).offline = FALSE
    /\ Candles!FromStore.base = stored /\ Candles!FromStore.live = Candles!None
    /\ Candles!FromStore.offline = TRUE /\ Candles!None = -1
BY DEF Candles!Merge, Candles!FromStore, Candles!None

(* Nothing gets ahead of the exchange. *)
LEMMA NotAheadStep ==
    ASSUME OneRequest, NotAhead, [Candles!MarketNext]_(Candles!marketVars)
    PROVE  NotAhead'
<1>1. ASSUME NEW news, TellsOnly(news), \A a \in news : a.base \in UpToNow /\ a.live \in UpToNow,
             exchange' = exchange, live' = live, cache' \in UpToNow, stored' \in UpToNow
      PROVE  NotAhead'
  BY <1>1 DEF TellsOnly, NotAhead, UpToNow
<1>2. ASSUME NEW c \in Callers, Candles!FromCache(c) PROVE NotAhead'
  <2> DEFINE m == Candles!Merge(cache)
  <2>1. m.base \in UpToNow /\ m.live \in UpToNow
    BY TellingFields DEF NotAhead
  <2>2. TellsOnly({m}) /\ UNCHANGED <<exchange, cache, stored, live>>
    BY <1>2, FromCacheEffect
  <2> HIDE DEF m
  <2> QED BY <1>1, <2>1, <2>2 DEF NotAhead
<1>3. ASSUME NEW i \in Candles!CallIds, Candles!Returns(i) PROVE NotAhead'
  <2> DEFINE m == Candles!Merge(calls[i].version)
  <2>1. calls[i].version \in UpToNow
    <3>1. Back(i)
      BY <1>3, ReturnsEffect
    <3> QED BY <3>1 DEF OneRequest, UpToNow
  <2>2. m.base \in UpToNow /\ m.live \in UpToNow
    BY <2>1, TellingFields DEF NotAhead
  <2>3. /\ TellsOnly({m}) /\ UNCHANGED <<exchange, live>>
        /\ cache' \in UpToNow /\ stored' \in UpToNow
    BY <1>3, <2>1, ReturnsEffect DEF NotAhead
  <2> HIDE DEF m
  <2> QED BY <1>1, <2>2, <2>3
<1>4. ASSUME NEW i \in Candles!CallIds, Candles!Fails(i) PROVE NotAhead'
  <2> DEFINE m == Candles!FromStore
  <2>1. m.base \in UpToNow /\ m.live \in UpToNow
    BY TellingFields DEF NotAhead, UpToNow
  <2>2. (TellsOnly({m}) \/ TellsOnly({})) /\ UNCHANGED <<exchange, cache, stored, live>>
    BY <1>4, FailsEffect
  <2> HIDE DEF m
  <2> QED BY <1>1, <2>1, <2>2 DEF NotAhead
<1>5. ASSUME NEW k \in Conns, NEW v \in Candles!Versions, Candles!LiveCandle(k, v) PROVE NotAhead'
  <2>1. v \in UpToNow /\ Candles!None \in UpToNow
    BY <1>5, FeedAssumptions
       DEF Candles!LiveCandle, Candles!Versions, Candles!MarketAssumption, UpToNow, NotAhead,
           Candles!None
  <2> QED BY <1>5, <2>1 DEF NotAhead, UpToNow, Candles!LiveCandle, Candles!TakesLive
<1>6. CASE Candles!Expires
  BY <1>6 DEF NotAhead, UpToNow, Candles!Expires, Candles!None
<1>7. CASE Candles!ExchangeMoves
  BY <1>7 DEF NotAhead, UpToNow, Candles!ExchangeMoves
<1>8. CASE UNCHANGED <<exchange, cache, stored, live, answer>>
  BY <1>8 DEF NotAhead, UpToNow
<1> QED BY <1>2, <1>3, <1>4, <1>5, <1>6, <1>7, <1>8
        DEF Candles!MarketNext, Candles!Joins, Candles!GivesUp, Candles!Starts,
            Candles!Responds, Candles!marketVars

(* After a request is over there is none. *)
LEMMA NoneBack ==
    ASSUME OneRequest, inflight = 0
    PROVE  \A j \in Candles!CallIds : ~Back(j)
BY NoCallFields DEF OneRequest, Back

(* The inductive step of the promises. *)
LEMMA PromisesStep ==
    ASSUME OneRequest, NotAhead, Promises, [Candles!MarketNext]_(Candles!marketVars)
    PROVE  Promises'
<1>1. ASSUME NEW c \in Callers, Candles!FromCache(c) PROVE Promises'
  <2> DEFINE m == Candles!Merge(cache)
  <2>1. /\ TellsOnly({m}) /\ UNCHANGED <<calls, cache, live>> /\ inflight = 0
        /\ cache # Candles!None
    BY <1>1, FromCacheEffect
  <2>2. Candles!LastCandle(m) \in Int
    BY TellingFields, LastIsLater DEF NotAhead, UpToNow
  <2>3. \A d \in Callers : Candles!LastCandle(answer[d]) <= Candles!LastCandle(m)
    BY <2>1 DEF Promises, Promised
  <2>4. m' = m
    BY <2>1 DEF Candles!Merge
  <2>5. \A j \in Candles!CallIds : ~Back(j)'
    BY <2>1, NoneBack DEF Back
  <2>6. \A d \in Callers : Candles!LastCandle(answer'[d]) <= Candles!LastCandle(m)
    <3> HIDE DEF m
    <3> QED BY <2>1, <2>2, <2>3 DEF TellsOnly
  <2>7. Promised(cache)'
    BY <2>1, <2>6 DEF Promised, Candles!Merge, Candles!LastCandle
  <2> QED BY <2>5, <2>7 DEF Promises
<1>2. ASSUME NEW i \in Candles!CallIds, Candles!Returns(i) PROVE Promises'
  <2> DEFINE m == Candles!Merge(calls[i].version)
  <2>1. /\ Back(i) /\ TellsOnly({m}) /\ live' = live
        /\ cache' = Candles!None \/ cache' = calls[i].version
        /\ \A j \in Candles!CallIds : calls'[j] = Candles!NoCall
    BY <1>2, ReturnsEffect, OverEffect DEF Back
  <2>2. Candles!LastCandle(m) \in Int
    BY <2>1, TellingFields, LastIsLater DEF OneRequest, NotAhead, UpToNow
  <2>3. \A d \in Callers : Candles!LastCandle(answer[d]) <= Candles!LastCandle(m)
    BY <2>1 DEF Promises, Promised
  <2>4. \A d \in Callers : Candles!LastCandle(answer'[d]) <= Candles!LastCandle(m)
    <3> HIDE DEF m
    <3> QED BY <2>1, <2>2, <2>3 DEF TellsOnly
  <2>5. cache' # Candles!None => Promised(cache)'
    BY <2>1, <2>4 DEF Promised, Candles!Merge, Candles!LastCandle
  <2>6. \A j \in Candles!CallIds : ~Back(j)'
    BY <2>1, NoCallFields DEF Back
  <2> QED BY <2>5, <2>6 DEF Promises
<1>3. ASSUME NEW i \in Candles!CallIds, Candles!Fails(i) PROVE Promises'
  <2>1. cache' = Candles!None /\ \A j \in Candles!CallIds : calls'[j] = Candles!NoCall
    BY <1>3, FailsEffect, OverEffect
  <2> QED BY <2>1, NoCallFields DEF Promises, Back, Candles!None
<1>4. ASSUME NEW c \in Callers, NEW i \in Candles!CallIds, Candles!Starts(c, i) PROVE Promises'
  <2>1. /\ inflight = 0 /\ UNCHANGED <<cache, live, answer>>
        /\ calls' = [calls EXCEPT ![i] = [at |-> "sent", version |-> Candles!None,
                                         bulk |-> c \in Bulk]]
    BY <1>4 DEF Candles!Starts
  <2>2. \A j \in Candles!CallIds : ~Back(j)'
    BY <2>1, NoneBack DEF OneRequest, Back
  <2> QED BY <2>1, <2>2 DEF Promises, Promised, Candles!Merge, Candles!LastCandle
<1>5. ASSUME NEW i \in Candles!CallIds, Candles!Responds(i) PROVE Promises'
  <2>1. /\ calls[i].at = "sent" /\ UNCHANGED <<exchange, cache, live, answer>>
        /\ calls' = [calls EXCEPT ![i] = [at |-> "back", version |-> exchange,
                                         bulk |-> calls[i].bulk]]
    BY <1>5 DEF Candles!Responds
  <2>2. i = inflight /\ cache = Candles!None
    BY <2>1, NoCallFields DEF OneRequest
  <2>3. \A j \in Candles!CallIds \ {i} : ~Back(j)'
    BY <2>1, <2>2, NoCallFields DEF OneRequest, Back
  <2>4. calls'[i].version = exchange
    BY <2>1 DEF OneRequest
  <2>5. Promised(exchange)'
    BY <2>1, MergedNow DEF Promised, Candles!Merge, Candles!LastCandle
  <2>6. Promised(calls[i].version)'
    BY <2>1, <2>4, <2>5 DEF Promised
  <2> QED BY <2>1, <2>2, <2>3, <2>6 DEF Promises, Candles!None
<1>6. ASSUME NEW k \in Conns, NEW v \in Candles!Versions, Candles!LiveCandle(k, v) PROVE Promises'
  <2>1. UNCHANGED <<calls, answer>> /\ v \in 0..exchange /\ v \in Int
    BY <1>6, FeedAssumptions
       DEF Candles!LiveCandle, Candles!Versions, Candles!MarketAssumption, NotAhead
  <2>2. CASE UNCHANGED <<live, cache>>
    BY <2>1, <2>2 DEF Promises, Promised, Back, Candles!Merge, Candles!LastCandle
  <2>3. CASE Candles!Accepts(v) /\ Candles!TakesLive(v)
    <3>1. live' = v /\ cache' = Candles!None
      BY <2>3 DEF Candles!TakesLive
    <3>2. Candles!CandleOf(live) <= Candles!CandleOf(v)
      BY <2>1, <2>3, CandleOrder DEF Candles!Accepts, NotAhead, UpToNow, Candles!None
    <3>3. ASSUME NEW j \in Candles!CallIds, Back(j)' PROVE Promised(calls[j].version)'
      <4> DEFINE w == calls[j].version
                 m == [base |-> w, live |-> live, offline |-> FALSE]
                 n == [base |-> w, live |-> v, offline |-> FALSE]
      <4>1. Back(j) /\ w \in 0..exchange
        BY <2>1, <3>3 DEF Back, OneRequest
      <4>2. /\ Candles!LastCandle(m) \in {Candles!CandleOf(w), Candles!CandleOf(live)}
            /\ Candles!LastCandle(n) >= Candles!CandleOf(w)
            /\ Candles!LastCandle(n) >= Candles!CandleOf(v)
            /\ Candles!LastCandle(n) \in Int
            /\ Candles!CandleOf(w) \in Int /\ Candles!CandleOf(live) \in Int
            /\ Candles!CandleOf(v) \in Int
        BY <2>1, <4>1, LastIsLater, CandleOrder DEF NotAhead, UpToNow
      <4>3. Candles!LastCandle(m) <= Candles!LastCandle(n)
        BY <3>2, <4>2
      <4>4. \A c \in Callers : Candles!LastCandle(answer[c]) <= Candles!LastCandle(m)
        BY <4>1 DEF Promises, Promised, Candles!Merge
      <4>5. \A c \in Callers : Candles!LastCandle(answer[c]) <= Candles!LastCandle(n)
        <5> HIDE DEF m, n
        <5> QED BY <4>2, <4>3, <4>4, ToldNotAhead
      <4> QED BY <2>1, <3>1, <4>5 DEF Promised, Candles!Merge, Candles!LastCandle
    <3> QED BY <3>1, <3>3 DEF Promises, Candles!None
  <2> QED BY <1>6, <2>2, <2>3 DEF Candles!LiveCandle
<1>7. CASE Candles!Expires
  BY <1>7 DEF Promises, Promised, Back, Candles!Expires, Candles!Merge, Candles!LastCandle,
              Candles!None
<1>8. CASE UNCHANGED <<calls, cache, live, answer>>
  BY <1>8 DEF Promises, Promised, Back, Candles!Merge, Candles!LastCandle
<1> QED BY <1>1, <1>2, <1>3, <1>4, <1>5, <1>6, <1>7, <1>8
        DEF Candles!MarketNext, Candles!Joins, Candles!GivesUp, Candles!ExchangeMoves,
            Candles!marketVars

(* Initially nothing is known. *)
LEMMA CandleStart == Init => OneRequest /\ NotAhead /\ Promises
<1> SUFFICES ASSUME Init PROVE OneRequest /\ NotAhead /\ Promises
  OBVIOUS
<1>1. Candles!MarketInit
  BY DEF Init
<1>2. OneRequest
  BY <1>1, NoCallFields DEF Candles!MarketInit, OneRequest, Back
<1>3. NotAhead
  BY <1>1 DEF Candles!MarketInit, NotAhead, UpToNow, Candles!None, Candles!NoAnswer
<1>4. Promises
  BY <1>1, NoCallFields DEF Candles!MarketInit, Promises, Back
<1> QED BY <1>2, <1>3, <1>4

(* A caller is never shown a series that ends before the one it was shown   *)
(* earlier, unless it is the stored one, however many callers time out and  *)
(* join, requests fail and connections deliver.                             *)
THEOREM AnswersGoForward == Spec => AnswersAdvance
<1> DEFINE Inv == OneRequest /\ NotAhead /\ Promises
           Advance == \A c \in Callers : answer'[c] # answer[c] /\ ~answer'[c].offline
                         => Candles!LastCandle(answer'[c]) >= Candles!LastCandle(answer[c])
<1>1. Inv /\ [Next]_vars => Inv'
  BY CandleSteps, OneRequestStep, NotAheadStep, PromisesStep
<1>2. ASSUME Inv, [Candles!MarketNext]_(Candles!marketVars) PROVE Advance
  <2>1. ASSUME NEW v, NEW c \in Callers, TellsOnly({Candles!Merge(v)}), Promised(v),
               v \in UpToNow, answer'[c] # answer[c]
        PROVE  Candles!LastCandle(answer'[c]) >= Candles!LastCandle(answer[c])
    <3>1. answer'[c] = Candles!Merge(v)
      BY <2>1 DEF TellsOnly
    <3>2. /\ Candles!LastCandle(answer[c]) <= Candles!LastCandle(Candles!Merge(v))
          /\ Candles!LastCandle(answer[c]) \in Int
      BY <1>2, <2>1, ToldNotAhead DEF Promised
    <3>3. Candles!LastCandle(Candles!Merge(v)) \in Int
      BY <1>2, <2>1, TellingFields, LastIsLater DEF NotAhead, UpToNow
    <3> QED BY <3>1, <3>2, <3>3
  <2>2. ASSUME NEW d \in Callers, Candles!FromCache(d) PROVE Advance
    <3>1. TellsOnly({Candles!Merge(cache)}) /\ cache # Candles!None
      BY <1>2, <2>2, FromCacheEffect
    <3>2. Promised(cache) /\ cache \in UpToNow
      BY <1>2, <3>1 DEF Promises, NotAhead
    <3> QED BY <2>1, <3>1, <3>2
  <2>3. ASSUME NEW i \in Candles!CallIds, Candles!Returns(i) PROVE Advance
    <3>1. TellsOnly({Candles!Merge(calls[i].version)}) /\ Back(i)
      BY <2>3, ReturnsEffect
    <3>2. Promised(calls[i].version) /\ calls[i].version \in UpToNow
      BY <1>2, <3>1 DEF Promises, OneRequest, UpToNow
    <3> QED BY <2>1, <3>1, <3>2
  <2>4. ASSUME NEW i \in Candles!CallIds, Candles!Fails(i) PROVE Advance
    <3>1. TellsOnly({Candles!FromStore}) \/ TellsOnly({})
      BY <2>4, FailsEffect
    <3> QED BY <3>1, TellingFields DEF TellsOnly
  <2>5. CASE answer' = answer
    BY <2>5
  <2> QED BY <1>2, <2>2, <2>3, <2>4, <2>5
          DEF Candles!MarketNext, Candles!Joins, Candles!GivesUp, Candles!Starts,
              Candles!Responds, Candles!LiveCandle, Candles!Expires, Candles!ExchangeMoves,
              Candles!marketVars
<1>3. Inv /\ [Next]_vars => [Advance]_(Candles!marketVars)
  BY <1>2, CandleSteps
<1>4. Spec => [][Advance]_(Candles!marketVars)
  BY <1>1, <1>3, CandleStart, PTL DEF Spec
<1> QED BY <1>4 DEF AnswersAdvance, Candles!AnswersAdvance

-----------------------------------------------------------------------------
(* The series under the live candle.  Until a live candle overtakes an      *)
(* answer on its way, the cache and that answer already reach it: a live    *)
(* candle empties the cache.                                                *)
Reached ==
    ~overtaken =>
        /\ cache # Candles!None => live <= cache
        /\ \A j \in Candles!CallIds : Back(j) => live <= calls[j].version
        /\ \A c \in Callers : answer[c].live <= answer[c].base

(* The inductive step. *)
LEMMA ReachedStep ==
    ASSUME OneRequest, NotAhead, Reached, [Candles!MarketNext]_(Candles!marketVars)
    PROVE  Reached'
<1>1. ASSUME NEW c \in Callers, Candles!FromCache(c) PROVE Reached'
  <2>1. /\ TellsOnly({Candles!Merge(cache)}) /\ cache # Candles!None
        /\ UNCHANGED <<calls, cache, live, overtaken>>
    BY <1>1, FromCacheEffect
  <2> QED BY <2>1, TellingFields DEF Reached, TellsOnly, Back
<1>2. ASSUME NEW i \in Candles!CallIds, Candles!Returns(i) PROVE Reached'
  <2>1. /\ TellsOnly({Candles!Merge(calls[i].version)}) /\ Back(i)
        /\ cache' = Candles!None \/ cache' = calls[i].version
        /\ \A j \in Candles!CallIds : calls'[j] = Candles!NoCall
        /\ UNCHANGED <<live, overtaken>>
    BY <1>2, ReturnsEffect, OverEffect DEF Back
  <2>2. \A j \in Candles!CallIds : ~Back(j)'
    BY <2>1, NoCallFields DEF Back
  <2> QED BY <2>1, <2>2, TellingFields DEF Reached, TellsOnly
<1>3. ASSUME NEW i \in Candles!CallIds, Candles!Fails(i) PROVE Reached'
  <2>1. /\ cache' = Candles!None /\ \A j \in Candles!CallIds : calls'[j] = Candles!NoCall
        /\ UNCHANGED <<live, overtaken>>
    BY <1>3, FailsEffect, OverEffect
  <2>2. \A j \in Candles!CallIds : ~Back(j)'
    BY <2>1, NoCallFields DEF Back
  <2>3. TellsOnly({Candles!FromStore}) \/ TellsOnly({})
    BY <1>3, FailsEffect
  <2>4. Candles!FromStore.live <= Candles!FromStore.base
    BY TellingFields DEF NotAhead, UpToNow
  <2>5. ~overtaken => \A c \in Callers : answer'[c].live <= answer'[c].base
    BY <2>3, <2>4 DEF Reached, TellsOnly
  <2> QED BY <2>1, <2>2, <2>5 DEF Reached, Candles!None
<1>4. ASSUME NEW c \in Callers, NEW i \in Candles!CallIds, Candles!Starts(c, i) PROVE Reached'
  <2>1. /\ inflight = 0 /\ UNCHANGED <<cache, live, answer, overtaken>>
        /\ calls' = [calls EXCEPT ![i] = [at |-> "sent", version |-> Candles!None,
                                         bulk |-> c \in Bulk]]
    BY <1>4 DEF Candles!Starts
  <2>2. \A j \in Candles!CallIds : ~Back(j)'
    BY <2>1, NoneBack DEF OneRequest, Back
  <2> QED BY <2>1, <2>2 DEF Reached
<1>5. ASSUME NEW i \in Candles!CallIds, Candles!Responds(i) PROVE Reached'
  <2>1. /\ UNCHANGED <<exchange, cache, live, answer, overtaken>>
        /\ calls' = [calls EXCEPT ![i] = [at |-> "back", version |-> exchange,
                                         bulk |-> calls[i].bulk]]
    BY <1>5 DEF Candles!Responds
  <2>2. /\ calls'[i].version = exchange /\ live <= exchange
        /\ \A j \in Candles!CallIds \ {i} : calls'[j] = calls[j]
    BY <2>1 DEF OneRequest, NotAhead, UpToNow
  <2> QED BY <2>1, <2>2 DEF Reached, Back
<1>6. ASSUME NEW k \in Conns, NEW v \in Candles!Versions, Candles!LiveCandle(k, v) PROVE Reached'
  <2>1. /\ UNCHANGED <<calls, answer>> /\ ~overtaken' => ~overtaken
        /\ ~overtaken' => \A j \in Candles!CallIds : ~Back(j)
    BY <1>6 DEF Candles!LiveCandle, Back
  <2> QED BY <1>6, <2>1 DEF Reached, Back, Candles!LiveCandle, Candles!TakesLive
<1>7. CASE Candles!Expires
  BY <1>7 DEF Reached, Back, Candles!Expires
<1>8. CASE UNCHANGED <<calls, cache, live, answer, overtaken>>
  BY <1>8 DEF Reached, Back
<1> QED BY <1>1, <1>2, <1>3, <1>4, <1>5, <1>6, <1>7, <1>8
        DEF Candles!MarketNext, Candles!Joins, Candles!GivesUp, Candles!ExchangeMoves,
            Candles!marketVars

(* As long as no live candle overtakes an answer on its way, the series of  *)
(* every answer already reaches the live candle that is merged into it.     *)
THEOREM SeriesReaches == Spec => []SeriesReachesLive
<1> DEFINE Inv == OneRequest /\ NotAhead /\ Reached
<1>1. Inv /\ [Next]_vars => Inv'
  BY CandleSteps, OneRequestStep, NotAheadStep, ReachedStep
<1>2. Init => Reached
  <2> SUFFICES ASSUME Init PROVE Reached
    OBVIOUS
  <2>1. Candles!MarketInit
    BY DEF Init
  <2> QED BY <2>1, NoCallFields DEF Candles!MarketInit, Reached, Back, Candles!NoAnswer, Candles!None
<1>3. Reached => SeriesReachesLive
  BY DEF Reached, SeriesReachesLive, Candles!SeriesReachesLive
<1> QED BY <1>1, <1>2, <1>3, CandleStart, PTL DEF Spec

-----------------------------------------------------------------------------
(* A set of natural numbers has a least one ...                             *)
LEMMA LeastNumber ==
    ASSUME NEW S \in SUBSET Nat, S # {}
    PROVE  \E m \in S : \A n \in S : m <= n
<1> DEFINE R == OpToRel(<, Nat)
<1>1. IsWellFoundedOn(R, Nat)
  BY NatLessThanWellFounded, Zenon
<1>2. \A m, n \in Nat : m < n => <<m, n>> \in R
  <2>1. R = {ss \in Nat \X Nat : ss[1] < ss[2]}
    BY DEF OpToRel
  <2> HIDE DEF R
  <2> QED BY <2>1
<1> HIDE DEF R
<1>3. PICK m \in S : \A n \in S : <<n, m>> \notin R
  BY <1>1, WFMin
<1>4. ASSUME NEW n \in S PROVE m <= n
  <2>1. ~(n < m)
    BY <1>2, <1>3
  <2> QED BY <2>1
<1> QED BY <1>3, <1>4

(* ... and holds them all when it holds 0 and with every number the next:    *)
(* induction, over a set and not over a formula.                            *)
LEMMA NatSets ==
    ASSUME NEW S, 0 \in S, \A n \in Nat : n \in S => n + 1 \in S
    PROVE  Nat \subseteq S
<1> SUFFICES ASSUME Nat \ S # {} PROVE FALSE
  OBVIOUS
<1>1. PICK m \in Nat \ S : \A n \in Nat \ S : m <= n
  BY LeastNumber
<1>2. m - 1 \in Nat \ S
  BY <1>1
<1> QED BY <1>1, <1>2

(* Some of the numbers of a sequence have a largest among them.             *)
LEMMA LargestOfSome ==
    ASSUME NEW s \in Seq(Int), NEW D \in SUBSET DOMAIN s, D # {}
    PROVE  \E m \in D : \A i \in D : s[i] <= s[m]
<1> DEFINE To(k) == {i \in D : i <= k}
           K == {k \in Nat : To(k) = {} \/ \E m \in To(k) : \A i \in To(k) : s[i] <= s[m]}
<1>1. D \subseteq Nat \ {0} /\ \A i \in D : s[i] \in Int
  OBVIOUS
<1>2. 0 \in K
  BY <1>1
<1>3. ASSUME NEW k \in Nat, k \in K PROVE k + 1 \in K
  <2>1. To(k + 1) = To(k) \cup {i \in D : i = k + 1}
    BY <1>1
  <2>2. CASE k + 1 \notin D
    <3>1. To(k + 1) = To(k)
      BY <2>1, <2>2
    <3> HIDE DEF To
    <3> QED BY <1>3, <3>1
  <2>3. CASE k + 1 \in D
    <3>1. To(k + 1) = To(k) \cup {k + 1}
      BY <2>1, <2>3
    <3>2. To(k) \subseteq D
      OBVIOUS
    <3> HIDE DEF To
    <3>3. CASE To(k) = {}
      BY <1>1, <2>3, <3>1, <3>3
    <3>4. ASSUME NEW m \in To(k), \A i \in To(k) : s[i] <= s[m] PROVE k + 1 \in K
      <4>1. CASE s[m] <= s[k + 1]
        <5>1. \A i \in To(k + 1) : s[i] <= s[k + 1]
          BY <1>1, <2>3, <3>1, <3>2, <3>4, <4>1
        <5> QED BY <3>1, <5>1
      <4>2. CASE ~(s[m] <= s[k + 1])
        <5>1. \A i \in To(k + 1) : s[i] <= s[m]
          BY <1>1, <2>3, <3>1, <3>2, <3>4, <4>2
        <5> QED BY <3>1, <5>1
      <4> QED BY <4>1, <4>2
    <3> QED BY <1>3, <3>3, <3>4
  <2> QED BY <2>2, <2>3
<1>4. Nat \subseteq K
  <2> HIDE DEF K
  <2> QED BY <1>2, <1>3, NatSets
<1>5. Len(s) \in K /\ To(Len(s)) = D
  <2>1. Len(s) \in Nat /\ DOMAIN s = 1..Len(s)
    OBVIOUS
  <2>2. To(Len(s)) = D
    BY <2>1
  <2> HIDE DEF K
  <2> QED BY <1>4, <2>1, <2>2
<1> HIDE DEF To
<1> QED BY <1>5

(* There is a sample in the middle.                                         *)
LEMMA MedianType ==
    ASSUME NEW s \in Seq(Int), s # <<>>
    PROVE  Ticks!Median(s) \in Int
<1> DEFINE V == Ticks!ToSet(s)
           half == Len(s) \div 2
           Below(x) == {i \in DOMAIN s : s[i] < x}
           UpTo(x) == {i \in DOMAIN s : s[i] <= x}
           Good(x) == Cardinality(Below(x)) <= half /\ Cardinality(UpTo(x)) > half
           G == {x \in V : Cardinality(UpTo(x)) > half}
<1>1. DOMAIN s = 1..Len(s) /\ Len(s) \in Nat \ {0} /\ half \in Nat /\ half < Len(s)
  OBVIOUS
<1>2. V = {s[i] : i \in DOMAIN s} /\ V \subseteq Int
  BY DEF Ticks!ToSet
<1>3. IsFiniteSet(DOMAIN s) /\ Cardinality(DOMAIN s) = Len(s)
  <2>1. 1 \in Int /\ Len(s) \in Int
    OBVIOUS
  <2>2. IsFiniteSet(1..Len(s)) /\ Cardinality(1..Len(s)) = IF 1 > Len(s) THEN 0 ELSE Len(s) - 1 + 1
    BY <2>1, FS_Interval, Zenon
  <2> QED BY <1>1, <2>2
<1>4. ASSUME NEW x
      PROVE  /\ IsFiniteSet(Below(x)) /\ IsFiniteSet(UpTo(x))
             /\ Cardinality(Below(x)) \in Nat /\ Cardinality(UpTo(x)) \in Nat
  <2>1. Below(x) \in SUBSET DOMAIN s /\ UpTo(x) \in SUBSET DOMAIN s
    OBVIOUS
  <2> HIDE DEF Below, UpTo
  <2>2. IsFiniteSet(Below(x)) /\ IsFiniteSet(UpTo(x))
    BY <1>3, <2>1, FS_Subset
  <2> QED BY <2>2, FS_CardinalityType
<1> HIDE DEF half
<1>5. G # {}
  <2>1. PICK m \in DOMAIN s : \A i \in DOMAIN s : s[i] <= s[m]
    <3>1. DOMAIN s # {} /\ DOMAIN s \in SUBSET DOMAIN s
      <4>1. 1 \in DOMAIN s
        BY <1>1
      <4> QED BY <4>1
    <3> QED BY <3>1, LargestOfSome
  <2>2. UpTo(s[m]) = DOMAIN s
    BY <2>1
  <2>3. s[m] \in V
    BY <1>2
  <2> HIDE DEF UpTo, V
  <2> QED BY <1>1, <1>3, <2>2, <2>3
<1>6. PICK x \in G : \A y \in G : Cardinality(UpTo(x)) <= Cardinality(UpTo(y))
  <2> DEFINE N == {Cardinality(UpTo(y)) : y \in G}
  <2>1. N \in SUBSET Nat /\ N # {}
    <3> HIDE DEF UpTo, V
    <3> QED BY <1>4, <1>5
  <2>2. PICK n \in N : \A o \in N : n <= o
    <3> HIDE DEF N
    <3> QED BY <2>1, LeastNumber
  <2> HIDE DEF UpTo, G
  <2> QED BY <2>2
<1>7. Cardinality(Below(x)) <= half
  <2> SUFFICES ASSUME Cardinality(Below(x)) > half PROVE FALSE
    <3>1. Cardinality(Below(x)) \in Nat
      BY <1>4
    <3> HIDE DEF Below
    <3> QED BY <1>1, <3>1
  <2>1. Below(x) # {}
    <3> HIDE DEF Below
    <3>1. Cardinality(Below(x)) # 0
      BY <1>1, <1>4
    <3> QED BY <3>1, FS_EmptySet
  <2>2. PICK m \in Below(x) : \A i \in Below(x) : s[i] <= s[m]
    <3>1. Below(x) \in SUBSET DOMAIN s
      OBVIOUS
    <3> HIDE DEF Below
    <3> QED BY <2>1, <3>1, LargestOfSome
  <2>3. s[m] \in V /\ s[m] < x /\ x \in V /\ s[m] \in Int /\ x \in Int
    BY <1>2, <1>6, <2>2
  <2>4. UpTo(s[m]) = Below(x)
    <3>1. \A i \in DOMAIN s : s[i] \in Int
      OBVIOUS
    <3> QED BY <2>2, <2>3, <3>1
  <2>5. PICK j \in DOMAIN s : s[j] = x
    BY <1>2, <2>3
  <2>6. j \in UpTo(x) /\ j \notin Below(x) /\ Below(x) \in SUBSET UpTo(x)
    <3>1. \A i \in DOMAIN s : s[i] \in Int
      OBVIOUS
    <3> QED BY <2>3, <2>5, <3>1
  <2> HIDE DEF V, UpTo, Below
  <2>7. s[m] \in G
    BY <2>3, <2>4
  <2>8. Cardinality(Below(x)) = Cardinality(UpTo(x))
    BY <1>4, <1>6, <2>4, <2>6, <2>7, FS_Subset
  <2> QED BY <1>4, <2>6, <2>8, FS_Subset
<1>8. \E y \in V : Good(y)
  <2> HIDE DEF Below, UpTo, V
  <2> QED BY <1>6, <1>7
<1>9. Ticks!Median(s) = CHOOSE y \in V : Good(y)
  BY DEF Ticks!Median, half, Ticks!Cardinality, Cardinality
<1> HIDE DEF V, Good
<1> QED BY <1>2, <1>8, <1>9

(* What a tick records is a quote.                                          *)
LEMMA RecordTypes ==
    ASSUME Ticks!TickTypeOK, NEW made \in 0..MaxTime, NEW stamped \in BOOLEAN, NEW received \in Int,
           offset' \in Int, Ticks!Record(made, stamped, received)
    PROVE  quote' = quote \/ quote' \in Ticks!Quote
<1> DEFINE exchange1 == IF stamped THEN made + offset' ELSE Ticks!Local
           book == Ticks!CarriedBook
           q == [made |-> made, arrived |-> now, stamped |-> stamped, exchange |-> exchange1,
                 received |-> received, processed |-> Ticks!Local,
                 hasBook |-> book[1], book |-> book[2], bookArrived |-> book[3]]
<1>1. now \in 0..MaxTime /\ skew \in Int /\ (quote # Ticks!NoQuote => quote \in Ticks!Quote)
  BY FeedAssumptions DEF Ticks!TickTypeOK, Ticks!TickAssumption
<1>2. Ticks!Local \in Int /\ exchange1 \in Int
  BY <1>1, FeedAssumptions DEF Ticks!Local, Ticks!TickAssumption
<1>3. book[1] \in BOOLEAN /\ book[2] \in Int /\ book[3] \in Int
  BY <1>1 DEF Ticks!CarriedBook, Ticks!Quote
<1>4. quote' = quote \/ quote' = q
  BY DEF Ticks!Record
<1> HIDE DEF exchange1, book
<1>5. q \in Ticks!Quote
  BY <1>1, <1>2, <1>3 DEF Ticks!Quote
<1> QED BY <1>4, <1>5

(* Every variable of the tick engine keeps its type: there is a sample in   *)
(* the middle whenever one is taken.                                        *)
LEMMA TickTypesStep ==
    ASSUME Ticks!TickTypeOK, [Ticks!TickNext]_(Ticks!tickVars)
    PROVE  Ticks!TickTypeOK'
<1>1. /\ MaxTime \in Nat /\ MaxClockSteps \in Nat /\ Samples \in Nat \ {0} /\ Skews \subseteq Int
      /\ StreamStamps \subseteq BOOLEAN
  BY FeedAssumptions DEF Ticks!TickAssumption
<1>2. /\ now \in 0..MaxTime /\ skew \in Skews /\ skew \in Int /\ steps \in 0..MaxClockSteps
      /\ samples \in Seq(Int) /\ Len(samples) <= Samples /\ offset \in Int
      /\ quote = Ticks!NoQuote \/ quote \in Ticks!Quote
  BY <1>1 DEF Ticks!TickTypeOK
<1>3. ASSUME NEW made \in 0..MaxTime, NEW stamped \in StreamStamps, Ticks!StreamTick(made, stamped)
      PROVE  Ticks!TickTypeOK'
  <2>1. Ticks!Record(made, stamped, Ticks!Local) /\ UNCHANGED <<now, skew, steps, samples, offset>>
    BY <1>3 DEF Ticks!StreamTick
  <2>2. Ticks!Local \in Int
    BY <1>1, <1>2 DEF Ticks!Local
  <2>3. quote' = quote \/ quote' \in Ticks!Quote
    BY <1>1, <1>2, <2>1, <2>2, RecordTypes
  <2> QED BY <1>2, <2>1, <2>3 DEF Ticks!TickTypeOK, Ticks!NoQuote
<1>4. ASSUME NEW freshest \in 0..MaxTime, NEW made \in 0..MaxTime, NEW received \in 0..MaxTime,
             Ticks!PollBatch(freshest, made, received)
      PROVE  Ticks!TickTypeOK'
  <2> DEFINE n == Append(samples, received + skew - freshest)
  <2>1. received + skew - freshest \in Int /\ received + skew \in Int
    BY <1>1, <1>2
  <2>2. n \in Seq(Int) /\ n # <<>> /\ Len(n) = Len(samples) + 1
    BY <1>2, <2>1
  <2>3. \/ samples' = Ticks!Kept(n) /\ offset' = Ticks!Applied(Ticks!Median(samples'))
        \/ UNCHANGED <<samples, offset>>
    BY <1>4 DEF Ticks!PollBatch
  <2> HIDE DEF n
  <2>4. ASSUME samples' = Ticks!Kept(n)
        PROVE  samples' \in Seq(Int) /\ Len(samples') <= Samples /\ Len(samples') > 0
    BY <1>1, <1>2, <2>2, <2>4 DEF Ticks!Kept
  <2>5. ASSUME samples' = Ticks!Kept(n)
        PROVE  Ticks!Median(samples') \in Int
    <3>1. samples' \in Seq(Int) /\ samples' # <<>>
      BY <2>4, <2>5
    <3> QED BY <3>1, MedianType
  <2>6. samples' \in Seq(Int) /\ Len(samples') <= Samples /\ offset' \in Int
    BY <1>2, <2>3, <2>4, <2>5 DEF Ticks!Applied
  <2>7. Ticks!Record(made, TRUE, received + skew) /\ UNCHANGED <<now, skew, steps>>
    BY <1>4 DEF Ticks!PollBatch
  <2>8. quote' = quote \/ quote' \in Ticks!Quote
    BY <2>1, <2>6, <2>7, RecordTypes
  <2> QED BY <1>2, <2>6, <2>7, <2>8 DEF Ticks!TickTypeOK, Ticks!NoQuote
<1>5. ASSUME NEW made \in 0..MaxTime, Ticks!RecordBook(made) PROVE Ticks!TickTypeOK'
  <2> DEFINE loc == Ticks!Local
             q1 == [quote EXCEPT !.hasBook = TRUE]
             q2 == [q1 EXCEPT !.book = loc]
             q3 == [q2 EXCEPT !.bookArrived = now]
  <2>1. loc \in Int /\ now \in Int
    BY <1>1, <1>2 DEF Ticks!Local
  <2>2. quote' = q3 /\ UNCHANGED <<now, skew, steps, samples, offset>> /\ quote \in Ticks!Quote
    BY <1>2, <1>5 DEF Ticks!RecordBook
  <2> HIDE DEF loc
  <2>3. q1 \in Ticks!Quote
    BY <2>2 DEF Ticks!Quote
  <2> HIDE DEF q1
  <2>4. q2 \in Ticks!Quote
    BY <2>1, <2>3 DEF Ticks!Quote
  <2> HIDE DEF q2
  <2>5. q3 \in Ticks!Quote
    BY <2>1, <2>4 DEF Ticks!Quote
  <2> QED BY <1>2, <2>2, <2>5 DEF Ticks!TickTypeOK, Ticks!NoQuote
<1>6. CASE Ticks!Clear
  BY <1>2, <1>6 DEF Ticks!Clear, Ticks!TickTypeOK, Ticks!NoQuote
<1>7. CASE Ticks!TimePasses
  <2>1. now' \in 0..MaxTime
    BY <1>1, <1>2, <1>7 DEF Ticks!TimePasses
  <2> QED BY <1>2, <1>7, <2>1 DEF Ticks!TimePasses, Ticks!TickTypeOK, Ticks!NoQuote
<1>8. CASE Ticks!ClockIsSet
  <2>1. steps' \in 0..MaxClockSteps /\ skew' \in Skews
    BY <1>1, <1>2, <1>8 DEF Ticks!ClockIsSet
  <2> QED BY <1>2, <1>8, <2>1 DEF Ticks!ClockIsSet, Ticks!TickTypeOK, Ticks!NoQuote
<1>9. CASE UNCHANGED Ticks!tickVars
  BY <1>2, <1>9 DEF Ticks!tickVars, Ticks!TickTypeOK, Ticks!NoQuote
<1> QED BY <1>3, <1>4, <1>5, <1>6, <1>7, <1>8, <1>9 DEF Ticks!TickNext

(* Initially there is no sample and no quote. *)
LEMMA TickTypesStart == Init => Ticks!TickTypeOK
<1> SUFFICES ASSUME Ticks!TickInit PROVE Ticks!TickTypeOK
  BY DEF Init
<1>1. 0 \in 0..MaxTime /\ 0 \in 0..MaxClockSteps /\ 0 <= Samples
  BY FeedAssumptions DEF Ticks!TickAssumption
<1>2. samples \in Seq(Int) /\ Len(samples) = 0
  BY DEF Ticks!TickInit
<1> QED BY <1>1, <1>2 DEF Ticks!TickInit, Ticks!TickTypeOK

-----------------------------------------------------------------------------
(* What the symbols, the connections and the call under way are.            *)
WantedTypes ==
    /\ held \subseteq Symbols /\ watch \subseteq Symbols /\ explicit \subseteq Symbols
    /\ streamed \in Seq(Symbols) /\ Len(streamed) <= MaxStreamed
    /\ socket \in BOOLEAN /\ replaced \in 0..MaxReplace

LineTypes ==
    /\ line \in [Clients -> {"down", "again", "up"}]
    /\ subs \in [Clients -> SUBSET Symbols] /\ again \in [Clients -> SUBSET Symbols]
    /\ server \in [Clients -> SUBSET Symbols]

CallTypes ==
    /\ tickers \subseteq Symbols /\ call.list \in Seq(Symbols) /\ Len(call.list) <= MaxStreamed
    /\ call.shown \subseteq Symbols /\ call.add \subseteq Symbols
    /\ call.at = "cast" => call.symbol \in Symbols

StreamTypes == CallInv /\ WantedTypes /\ LineTypes /\ CallTypes

(* A set of symbols can be put into a sequence. *)
LEMMA SymbolSequence ==
    ASSUME NEW S \in SUBSET Symbols
    PROVE  Streams!SetToSeq(S) \in Seq(Symbols)
<1> DEFINE F == [1..Cardinality(S) -> S]
           P(f) == Streams!IsInjective(f)
<1>1. IsFiniteSet(Symbols)
  BY FeedAssumptions DEF Streams!StreamsAssumption, Streams!IsFiniteSet, IsFiniteSet
<1>2. IsFiniteSet(S)
  BY <1>1, FS_Subset
<1>3. Cardinality(S) \in Nat /\ ExistsBijection(1..Cardinality(S), S)
  BY <1>2, FS_CardinalityType
<1>4. \E f \in F : P(f)
  BY <1>3 DEF ExistsBijection, Bijection, Injection, Streams!IsInjective, IsInjective
<1>5. Streams!SetToSeq(S) = CHOOSE f \in F : P(f)
  BY DEF Streams!SetToSeq, Streams!Cardinality, Cardinality
<1>6. Streams!SetToSeq(S) \in F
  <2> HIDE DEF F, P
  <2> QED BY <1>4, <1>5
<1>7. \A f \in F : f \in Seq(Symbols)
  BY <1>3
<1> QED BY <1>6, <1>7

(* A list that is streamed is one of symbols, and no longer than the bound. *)
LEMMA StreamListType ==
    ASSUME NEW some \in SUBSET Symbols, NEW others \in SUBSET Symbols
    PROVE  /\ Streams!StreamList(some, others) \in Seq(Symbols)
           /\ Len(Streams!StreamList(some, others)) <= MaxStreamed
<1> DEFINE l == Streams!SetToSeq(some) \o Streams!SetToSeq(others \ some)
           n == IF Len(l) > MaxStreamed THEN MaxStreamed ELSE Len(l)
<1>1. l \in Seq(Symbols)
  BY SymbolSequence
<1>2. Streams!StreamList(some, others) = SubSeq(l, 1, n)
  BY DEF Streams!StreamList
<1> HIDE DEF l
<1>3. n \in 0..Len(l) /\ n <= MaxStreamed /\ Len(l) \in Nat
  BY <1>1, FeedAssumptions DEF Streams!StreamsAssumption
<1> HIDE DEF n
<1>4. SubSeq(l, 1, n) \in Seq(Symbols) /\ Len(SubSeq(l, 1, n)) = n
  BY <1>1, <1>3
<1> QED BY <1>2, <1>3, <1>4

(* The elements of a sequence of symbols are symbols. *)
LEMMA SymbolsOf == ASSUME NEW s \in Seq(Symbols) PROVE Streams!ToSet(s) \subseteq Symbols
BY DEF Streams!ToSet

(* A broadcast is one of a symbol. *)
LEMMA BroadcastTypes ==
    ASSUME StreamTypes, NEW op \in {"subscribe", "unsubscribe"}, NEW x \in Symbols, NEW last \in BOOLEAN,
           Streams!Broadcast(op, x, last)
    PROVE  CallTypes'
<1>1. call'.shown = call.shown
  BY DEF StreamTypes, CallInv, CallShape, CallFields, Streams!Broadcast
<1> QED BY <1>1, BroadcastEffect DEF StreamTypes, CallInv, CallTypes

(* The connections of the clients hold symbols, whatever becomes of them.   *)
LEMMA LineTypesStep ==
    ASSUME StreamTypes, [Streams!StreamsNext]_(Streams!streamsVars)
    PROVE  LineTypes'
<1>1. ASSUME NEW c \in Clients, Streams!Cast(c) PROVE LineTypes'
  <2>1. call.symbol \in Symbols /\ UNCHANGED <<line, again>>
    BY <1>1 DEF StreamTypes, CallTypes, Streams!Cast
  <2>2. CASE call.op = "subscribe"
    BY <1>1, <2>1, <2>2 DEF StreamTypes, LineTypes, Streams!Cast
  <2>3. CASE call.op # "subscribe"
    BY <1>1, <2>1, <2>3 DEF StreamTypes, LineTypes, Streams!Cast
  <2> QED BY <2>2, <2>3
<1>2. ASSUME NEW c \in Clients, Streams!Connect(c) \/ Streams!AgainEnds(c) PROVE LineTypes'
  BY <1>2 DEF StreamTypes, LineTypes, Streams!Connect, Streams!AgainEnds
<1>3. ASSUME NEW c \in Clients, Streams!Lost(c) PROVE LineTypes'
  BY <1>3 DEF StreamTypes, LineTypes, Streams!Lost
<1>4. ASSUME NEW c \in Clients, Streams!Revive(c) PROVE LineTypes'
  BY <1>4 DEF StreamTypes, LineTypes, CallTypes, Streams!Revive
<1>5. ASSUME NEW c \in Clients, NEW x \in Symbols, Streams!Again(c, x) PROVE LineTypes'
  BY <1>5 DEF StreamTypes, LineTypes, Streams!Again
<1>6. CASE UNCHANGED <<subs, line, again, server>>
  BY <1>6 DEF StreamTypes, LineTypes
<1> QED BY <1>1, <1>2, <1>3, <1>4, <1>5, <1>6
        DEF Streams!StreamsNext, Streams!Submit, Streams!Feed, Streams!LoopEnds, Streams!Show,
            Streams!SocketComes, Streams!Loop, Streams!streamsVars, Streams!lines

(* What is wanted are symbols, and no more of them are streamed than may be. *)
LEMMA WantedTypesStep ==
    ASSUME StreamTypes, [Streams!StreamsNext]_(Streams!streamsVars)
    PROVE  WantedTypes'
<1>1. call.list \in Seq(Symbols) /\ Len(call.list) <= MaxStreamed /\ call.shown \subseteq Symbols
  BY DEF StreamTypes, CallTypes
<1>2. ASSUME NEW some \in SUBSET Symbols, NEW others, NEW visible, Streams!Submit(some, others, visible)
      PROVE  WantedTypes'
  <2>1. replaced' \in 0..MaxReplace
    BY <1>2, FeedAssumptions DEF Streams!Submit, Streams!StreamsAssumption, StreamTypes, WantedTypes
  <2> QED BY <1>2, <2>1 DEF Streams!Submit, StreamTypes, WantedTypes
<1>3. CASE Streams!Feed
  BY <1>1, <1>3 DEF Streams!Feed, StreamTypes, WantedTypes
<1>4. CASE Streams!LoopEnds
  BY <1>1, <1>4, SymbolsOf DEF Streams!LoopEnds, StreamTypes, WantedTypes
<1>5. CASE Streams!Show
  BY <1>1, <1>5 DEF Streams!Show, StreamTypes, WantedTypes
<1>6. CASE Streams!SocketComes
  BY <1>6 DEF Streams!SocketComes, StreamTypes, WantedTypes
<1>7. CASE UNCHANGED <<held, streamed, watch, explicit, socket, replaced>>
  BY <1>7 DEF StreamTypes, WantedTypes
<1> QED BY <1>2, <1>3, <1>4, <1>5, <1>6, <1>7
        DEF Streams!StreamsNext, Streams!Loop, Streams!Cast, Streams!Connect, Streams!Again, Streams!AgainEnds,
            Streams!Lost, Streams!Revive, Streams!streamsVars, Streams!wanted

(* A call tells symbols, and the stream subscribes no others.               *)
LEMMA CallTypesStep ==
    ASSUME StreamTypes, [Streams!StreamsNext]_(Streams!streamsVars)
    PROVE  CallTypes'
<1>1. /\ DOMAIN call = CallFields /\ CallTypes
      /\ watch \subseteq Symbols /\ MaxStreamed \in Nat
  BY FeedAssumptions DEF StreamTypes, WantedTypes, CallInv, CallShape, Streams!StreamsAssumption
<1>2. /\ Streams!Idle.at = "idle" /\ Streams!Idle.list = <<>> /\ Streams!Idle.shown = {} /\ Streams!Idle.add = {}
  BY DEF Streams!Idle
<1>3. ASSUME NEW some \in SUBSET Symbols, NEW others \in SUBSET Symbols,
             NEW visible \in {{}} \cup {{x} : x \in Symbols}, Streams!Submit(some, others, visible)
      PROVE  CallTypes'
  <2> DEFINE l == Streams!StreamList(some, others)
  <2>1. l \in Seq(Symbols) /\ Len(l) <= MaxStreamed
    BY StreamListType
  <2>2. call' = [Streams!Idle EXCEPT !.at = "feed", !.list = l, !.shown = visible] /\ tickers' = tickers
    BY <1>3 DEF Streams!Submit
  <2> HIDE DEF l
  <2>3. call'.at = "feed" /\ call'.list = l /\ call'.shown = visible /\ call'.add = {}
    BY <2>2 DEF Streams!Idle
  <2>4. visible \subseteq Symbols
    BY <1>3
  <2> QED BY <1>1, <2>1, <2>2, <2>3, <2>4 DEF CallTypes
<1>4. CASE Streams!Feed
  <2>1. tickers' = tickers
    BY <1>4 DEF Streams!Feed
  <2>2. \/ call' = [call EXCEPT !.at = "show"]
        \/ \E d : call' = [call EXCEPT !.at = "loop", !.drop = d, !.add = Streams!ToSet(call.list) \ watch]
    BY <1>4 DEF Streams!Feed
  <2>3. /\ call'.at \in {"show", "loop"} /\ call'.list = call.list /\ call'.shown = call.shown
        /\ call'.add \in {call.add, Streams!ToSet(call.list) \ watch}
    BY <1>1, <2>2 DEF CallFields
  <2> QED BY <1>1, <2>1, <2>3, SymbolsOf DEF CallTypes
<1>5. CASE Streams!LoopEnds
  <2>1. /\ call'.at = "show" /\ call'.list = call.list /\ call'.shown = call.shown /\ call'.add = call.add
        /\ tickers' = tickers
    BY <1>1, <1>5 DEF Streams!LoopEnds, CallFields
  <2> QED BY <1>1, <2>1 DEF CallTypes
<1>6. CASE call' = Streams!Idle /\ tickers' = tickers
  <2>1. <<>> \in Seq(Symbols) /\ Len(<<>>) = 0
    OBVIOUS
  <2>2. Len(Streams!Idle.list) <= MaxStreamed
    BY <1>1, <1>2, <2>1
  <2> QED BY <1>1, <1>2, <1>6, <2>1, <2>2 DEF CallTypes
<1>7. CASE Streams!Show
  BY <1>1, <1>6, <1>7, BroadcastTypes DEF Streams!Show, CallTypes
<1>8. ASSUME NEW x \in Symbols, Streams!Loop(x) PROVE CallTypes'
  BY <1>8, BroadcastTypes DEF Streams!Loop
<1>9. ASSUME NEW c \in Clients, Streams!Cast(c) PROVE CallTypes'
  <2>1. \/ call' = [call EXCEPT !.left = @ \ {c}]
        \/ call' = Streams!Idle
        \/ call' = [call EXCEPT !.at = "loop", !.op = "none", !.symbol = "none", !.left = {}]
    BY <1>9 DEF Streams!Cast
  <2>2. tickers' = tickers
    BY <1>9 DEF Streams!Cast
  <2>3. CASE call' # Streams!Idle
    <3>1. /\ call'.at \in {"loop", call.at} /\ call'.list = call.list /\ call'.shown = call.shown
          /\ call'.add = call.add
          /\ call'.at # "loop" => call'.symbol = call.symbol
      BY <1>1, <2>1, <2>3 DEF CallFields
    <3> QED BY <1>1, <2>2, <3>1 DEF CallTypes
  <2> QED BY <1>6, <2>2, <2>3
<1>10. CASE UNCHANGED <<call, tickers>>
  BY <1>1, <1>10 DEF CallTypes
<1> QED BY <1>3, <1>4, <1>5, <1>7, <1>8, <1>9, <1>10
        DEF Streams!StreamsNext, Streams!Connect, Streams!Again, Streams!AgainEnds, Streams!Lost,
            Streams!Revive, Streams!SocketComes, Streams!streamsVars

(* So every variable of the streams has its type. *)
LEMMA StreamTyped == StreamTypes => Streams!StreamsTypeOK
<1> SUFFICES ASSUME StreamTypes PROVE Streams!StreamsTypeOK
  OBVIOUS
<1>1. Streams!ToSet(streamed) \subseteq Symbols
  BY SymbolsOf DEF StreamTypes, WantedTypes
<1>2. call.at \in {"idle", "feed", "loop", "cast", "show"} /\ call.left \subseteq Clients
  BY DEF StreamTypes, CallInv, CallShape
<1>3. \A f \in {subs, again, server} : f \in [Clients -> SUBSET Symbols]
  BY DEF StreamTypes, LineTypes
<1> QED BY <1>1, <1>2, <1>3 DEF StreamTypes, WantedTypes, LineTypes, CallTypes, Streams!StreamsTypeOK

(* Initially nothing is streamed. *)
LEMMA StreamTypesStart == Init => WantedTypes /\ LineTypes /\ CallTypes
<1> SUFFICES ASSUME Streams!StreamsInit PROVE WantedTypes /\ LineTypes /\ CallTypes
  BY DEF Init
<1>1. MaxStreamed \in Nat /\ MaxReplace \in Nat
  BY FeedAssumptions DEF Streams!StreamsAssumption
<1>2. /\ Streams!Idle.at = "idle" /\ Streams!Idle.list = <<>> /\ Streams!Idle.shown = {} /\ Streams!Idle.add = {}
  BY DEF Streams!Idle
<1>3. <<>> \in Seq(Symbols) /\ Len(<<>>) = 0
  OBVIOUS
<1>4. WantedTypes
  <2>1. streamed \in Seq(Symbols) /\ Len(streamed) <= MaxStreamed
    BY <1>1, <1>3 DEF Streams!StreamsInit
  <2>2. replaced \in 0..MaxReplace
    BY <1>1 DEF Streams!StreamsInit
  <2> QED BY <2>1, <2>2 DEF Streams!StreamsInit, WantedTypes
<1>5. LineTypes
  BY DEF Streams!StreamsInit, LineTypes
<1> QED BY <1>1, <1>2, <1>3, <1>4, <1>5 DEF Streams!StreamsInit, CallTypes

-----------------------------------------------------------------------------
(* A step of the whole is a step of the connections, or leaves them alone. *)
LEMMA LinkSteps == [Next]_vars => [Links!ConnNext]_(Links!connVars)
BY DEF Next, TicksStep, StreamsStep, CandlesStep, MonitorStep, RunnerStep, LinksStep, SwitchStep,
       ResultsStep, ChatStep, vars, linksVars, Links!connVars

(* The connections.  The three judges keep to their words, and the failures *)
(* are counted no further than their tolerance.                             *)
LEMMA LinkTypesStep ==
    ASSUME Links!ConnTypeOK, [Links!ConnNext]_(Links!connVars)
    PROVE  Links!ConnTypeOK'
<1> USE DEF Links!ConnTypeOK
<1>1. ASSUME NEW c \in Clients, Links!Connects(c) \/ Links!Loses(c) PROVE Links!ConnTypeOK'
  BY <1>1 DEF Links!Connects, Links!Loses, Links!Notify, Links!StreamStatus, Links!requests, Links!feed, Links!super
<1>2. ASSUME NEW c \in Clients, Links!Ticks(c) PROVE Links!ConnTypeOK'
  BY <1>2 DEF Links!Ticks, Links!Notify, Links!StreamStatus, Links!requests, Links!super
<1>3. ASSUME NEW c \in Clients, Links!CheckHealth(c) PROVE Links!ConnTypeOK'
  BY <1>3 DEF Links!CheckHealth, Links!Notify, Links!StreamStatus, Links!requests, Links!feed, Links!super
<1>4. ASSUME Links!MarkAlive \/ Links!MarkDead
      PROVE  /\ failures' \in 0..FailureTolerance /\ restAlive' \in BOOLEAN
             /\ status' \in {"connected", "reconnecting", "disconnected"}
  <2>1. FailureTolerance \in Nat \ {0}
    BY FeedAssumptions DEF Links!ConnectivityAssumption
  <2>2. CASE Links!MarkAlive
    BY <2>1, <2>2 DEF Links!MarkAlive
  <2>3. CASE Links!MarkDead
    <3>1. failures' \in 0..FailureTolerance
      BY <2>1, <2>3 DEF Links!MarkDead
    <3>2. restAlive' \in BOOLEAN
      BY <2>3, Zenon DEF Links!MarkDead
    <3> QED BY <2>3, <3>1, <3>2 DEF Links!MarkDead
  <2> QED BY <1>4, <2>2, <2>3
<1>5. CASE Links!Ping
  BY <1>4, <1>5 DEF Links!Ping, Links!stream, Links!feed, Links!super
<1>6. CASE Links!Poll
  BY <1>4, <1>6 DEF Links!Poll, Links!stream, Links!super
<1>7. CASE Links!PollDies \/ Links!Watch \/ Links!Revive
  BY <1>7 DEF Links!PollDies, Links!Watch, Links!Revive, Links!Verdict, Links!stream, Links!requests, Links!super
<1>8. CASE Links!RestChanges \/ Links!Unsubscribes \/ UNCHANGED Links!connVars
  BY <1>8 DEF Links!RestChanges, Links!Unsubscribes, Links!connVars, Links!stream, Links!requests, Links!feed, Links!super
<1>9. CASE Links!Aging
  BY <1>9 DEF Links!Aging, Links!Ages, Links!requests, Links!super
<1> QED BY <1>1, <1>2, <1>3, <1>5, <1>6, <1>7, <1>8, <1>9 DEF Links!ConnNext

(* Initially nothing is connected. *)
LEMMA LinkTypesStart == Init => Links!ConnTypeOK
<1> SUFFICES ASSUME Links!ConnInit PROVE Links!ConnTypeOK
  BY DEF Init
<1>1. 0 \in 0..FailureTolerance
  BY FeedAssumptions DEF Links!ConnectivityAssumption
<1> QED BY <1>1 DEF Links!ConnInit, Links!ConnTypeOK

(* The candles: every version that is kept or told is one of the exchange.  *)
LEMMA CandleTypesStep ==
    ASSUME Candles!MarketTypeOK, [Candles!MarketNext]_(Candles!marketVars)
    PROVE  Candles!MarketTypeOK'
<1> DEFINE Kept == Candles!Versions \cup {Candles!None}
           Request == [at : {"none", "sent", "back"}, version : Kept, bulk : BOOLEAN]
           Answer == [base : Kept, live : Kept, offline : BOOLEAN]
<1>1. /\ exchange \in Kept /\ cache \in Kept /\ stored \in Kept /\ live \in Kept
      /\ Candles!None \in Kept /\ 0 \in Candles!CallIds \cup {0} /\ exchange \in Candles!Versions
      /\ calls \in [Candles!CallIds -> Request] /\ answer \in [Callers -> Answer]
      /\ waits \in [Callers -> Candles!CallIds \cup {0}] /\ inflight \in Candles!CallIds \cup {0}
      /\ at \in [Conns -> Kept] /\ overtaken \in BOOLEAN
  BY DEF Candles!MarketTypeOK
<1>2. ASSUME /\ exchange' \in Candles!Versions /\ calls' \in [Candles!CallIds -> Request]
             /\ inflight' \in Candles!CallIds \cup {0} /\ waits' \in [Callers -> Candles!CallIds \cup {0}]
             /\ cache' \in Kept /\ stored' \in Kept /\ live' \in Kept
             /\ at' \in [Conns -> Kept] /\ answer' \in [Callers -> Answer] /\ overtaken' \in BOOLEAN
      PROVE  Candles!MarketTypeOK'
  BY <1>2 DEF Candles!MarketTypeOK, Candles!CallIds, Candles!Versions, Candles!None
<1>3. ASSUME NEW v \in Kept PROVE Candles!Merge(v) \in Answer
  BY <1>1, <1>3 DEF Candles!Merge
<1>4. Candles!FromStore \in Answer /\ Candles!NoCall \in Request
  BY <1>1 DEF Candles!FromStore, Candles!NoCall
<1>5. ASSUME NEW i \in Candles!CallIds, Candles!Over(i)
      PROVE  /\ calls' \in [Candles!CallIds -> Request] /\ inflight' \in Candles!CallIds \cup {0}
             /\ waits' \in [Callers -> Candles!CallIds \cup {0}]
  <2> HIDE DEF Request
  <2> QED BY <1>1, <1>4, <1>5 DEF Candles!Over
<1>6. ASSUME NEW i \in Candles!CallIds PROVE calls[i] \in Request /\ calls[i].version \in Kept /\ calls[i].bulk \in BOOLEAN
  <2>1. calls[i] \in Request
    <3> HIDE DEF Request
    <3> QED BY <1>1
  <2> HIDE DEF Kept
  <2> QED BY <2>1
<1>7. ASSUME NEW b \in BOOLEAN, NEW v \in Kept, NEW w \in {"sent", "back"}
      PROVE  [at |-> w, version |-> v, bulk |-> b] \in Request
  BY <1>7
<1> HIDE DEF Kept, Request, Answer
<1>8. ASSUME NEW c \in Callers, Candles!FromCache(c) PROVE Candles!MarketTypeOK'
  BY <1>1, <1>2, <1>3, <1>8 DEF Candles!FromCache
<1>9. ASSUME NEW c \in Callers, Candles!Joins(c) \/ Candles!GivesUp(c) PROVE Candles!MarketTypeOK'
  BY <1>1, <1>2, <1>9 DEF Candles!Joins, Candles!GivesUp
<1>10. ASSUME NEW c \in Callers, NEW i \in Candles!CallIds, Candles!Starts(c, i) PROVE Candles!MarketTypeOK'
  <2> DEFINE b == c \in Bulk
             new == [at |-> "sent", version |-> Candles!None, bulk |-> b]
  <2>1. b \in BOOLEAN
    OBVIOUS
  <2>2. calls' = [calls EXCEPT ![i] = new]
    BY <1>10 DEF Candles!Starts
  <2> HIDE DEF b
  <2>3. new \in Request
    BY <1>1, <1>7, <2>1
  <2> HIDE DEF new
  <2> QED BY <1>1, <1>2, <1>10, <2>2, <2>3 DEF Candles!Starts
<1>11. ASSUME NEW i \in Candles!CallIds, Candles!Responds(i) PROVE Candles!MarketTypeOK'
  <2>1. [at |-> "back", version |-> exchange, bulk |-> calls[i].bulk] \in Request
    BY <1>1, <1>6, <1>7
  <2> QED BY <1>1, <1>2, <1>11, <2>1 DEF Candles!Responds
<1>12. ASSUME NEW i \in Candles!CallIds, Candles!Returns(i) PROVE Candles!MarketTypeOK'
  <2>1. /\ Candles!Over(i) /\ UNCHANGED <<exchange, at, live, overtaken>>
        /\ cache' \in {cache, calls[i].version} /\ stored' \in {stored, calls[i].version}
        /\ answer' = [c \in Callers |-> IF c \in Candles!Waiting(i) THEN Candles!Merge(calls[i].version) ELSE answer[c]]
    BY <1>12 DEF Candles!Returns
  <2>2. answer' \in [Callers -> Answer]
    BY <1>1, <1>3, <1>6, <2>1
  <2> QED BY <1>1, <1>2, <1>5, <1>6, <2>1, <2>2
<1>13. ASSUME NEW i \in Candles!CallIds, Candles!Fails(i) PROVE Candles!MarketTypeOK'
  <2>1. answer' \in [Callers -> Answer]
    BY <1>1, <1>4, <1>13 DEF Candles!Fails
  <2> QED BY <1>1, <1>2, <1>5, <1>13, <2>1 DEF Candles!Fails
<1>14. ASSUME NEW k \in Conns, NEW v \in Candles!Versions, Candles!LiveCandle(k, v) PROVE Candles!MarketTypeOK'
  <2>1. v \in Kept
    BY DEF Kept
  <2> QED BY <1>1, <1>2, <1>14, <2>1 DEF Candles!LiveCandle, Candles!TakesLive
<1>15. CASE Candles!Expires \/ UNCHANGED Candles!marketVars
  BY <1>1, <1>2, <1>15 DEF Candles!Expires, Candles!marketVars
<1>16. CASE Candles!ExchangeMoves
  <2>1. exchange' \in Candles!Versions
    BY <1>1, <1>16, FeedAssumptions DEF Candles!ExchangeMoves, Candles!Versions, Candles!MarketAssumption
  <2> QED BY <1>1, <1>2, <1>16, <2>1 DEF Candles!ExchangeMoves
<1> QED BY <1>8, <1>9, <1>10, <1>11, <1>12, <1>13, <1>14, <1>15, <1>16 DEF Candles!MarketNext

(* Initially nothing is known of the series. *)
LEMMA CandleTypesStart == Init => Candles!MarketTypeOK
<1> SUFFICES ASSUME Candles!MarketInit PROVE Candles!MarketTypeOK
  BY DEF Init
<1>1. 0 \in Candles!Versions /\ Candles!None = -1
  BY FeedAssumptions DEF Candles!MarketAssumption, Candles!Versions, Candles!None
<1> QED BY <1>1 DEF Candles!MarketInit, Candles!MarketTypeOK, Candles!NoCall, Candles!NoAnswer
=============================================================================
