------------------------------ MODULE Streams ------------------------------
(***************************************************************************)
(* Which symbols the web sockets deliver.  The interface thread submits    *)
(* the symbols it wants; on the network thread a call compares them with   *)
(* the subscriptions it made before, and tells the redundant stream, which *)
(* tells each of its clients.  A client keeps its own set, and registers   *)
(* it again whenever its connection comes back.                            *)
(*                                                                         *)
(* The interface submits every call under one key: a new one cancels the   *)
(* call under way at the await where it stands.                            *)
(***************************************************************************)
EXTENDS Integers, FiniteSets, Sequences, SequencesExt

CONSTANTS
    Symbols,
    Clients,      \* the connections of the redundant stream
    MaxStreamed,  \* MAX_STREAMED_SYMBOLS
    MaxReplace    \* bound: calls submitted while another is under way

\* What the constants must satisfy.
StreamsAssumption == IsFiniteSet(Symbols) /\ {MaxStreamed, MaxReplace} \subseteq Nat

VARIABLES
    held,      \* symbols of open trades, as the last call was told
    streamed,  \* LivePriceFeed._streamed
    watch,     \* MarketDataEngine._watchlist_subscriptions
    explicit,  \* MarketDataEngine._explicit_subscriptions
    socket,    \* is there a redundant stream?
    tickers,   \* RedundantStream._tickers
    subs,      \* the _subscriptions of each client
    line,      \* the connection of each client
    again,     \* what a client still has to register again
    server,    \* what the exchange sends to each client
    call,      \* the call of _sync_streams under way
    replaced   \* how many calls were cancelled by a newer one

wanted      == <<held, streamed, watch, explicit, socket>>
lines       == <<subs, line, again, server>>
streamsVars == <<held, streamed, watch, explicit, socket, tickers, subs, line, again, server, call, replaced>>

-----------------------------------------------------------------------------
Idle == [at |-> "idle", list |-> <<>>, shown |-> {}, drop |-> {}, add |-> {},
         op |-> "none", symbol |-> "none", left |-> {}, last |-> FALSE]

Under == call.at # "idle"

\* Variant: the list is not cut.
UncutList(open, others) == SetToSeq(open) \o SetToSeq(others \ open)

\* _stream_symbols: the symbols of the open trades first; set_streamed_symbols
\* cuts the list.
StreamList(open, others) ==
    LET l == SetToSeq(open) \o SetToSeq(others \ open)
    IN  SubSeq(l, 1, IF Len(l) > MaxStreamed THEN MaxStreamed ELSE Len(l))

\* _update_streamed_symbols; "shown" is the symbol of the analysis page.
Submit(open, others, shown) ==
    /\ replaced' = IF Under THEN replaced + 1 ELSE replaced
    /\ replaced' <= MaxReplace
    /\ held' = open
    /\ call' = [Idle EXCEPT !.at = "feed", !.list = StreamList(open, others), !.shown = shown]
    /\ UNCHANGED <<streamed, watch, explicit, socket, tickers, lines>>

\* Variant: a symbol that the user looks at is dropped with the others.
DroppedAll(desired) == watch \ desired

Dropped(desired) == watch \ (desired \cup explicit)

\* set_streamed_symbols: the same list again is no work; then
\* set_watchlist_subscriptions, which does nothing without a web socket.
Feed ==
    /\ call.at = "feed"
    /\ streamed' = call.list
    /\ LET desired == ToSet(call.list)
       IN  call' = IF call.list = streamed \/ ~socket
                   THEN [call EXCEPT !.at = "show"]
                   ELSE [call EXCEPT !.at = "loop", !.drop = Dropped(desired), !.add = desired \ watch]
    /\ UNCHANGED <<held, watch, explicit, socket, tickers, lines, replaced>>

\* One unsubscribe_ticker or subscribe_ticker of the redundant stream: its own
\* set changes at once, each client's in a task of its own.
Broadcast(op, x, last) ==
    /\ tickers' = IF op = "subscribe" THEN tickers \cup {x} ELSE tickers \ {x}
    /\ call' = [call EXCEPT !.at = "cast", !.op = op, !.symbol = x, !.left = Clients, !.last = last,
                            !.drop = @ \ {x}, !.add = IF op = "subscribe" THEN @ \ {x} ELSE @]

Loop(x) ==
    /\ call.at = "loop"
    /\ \/ x \in call.drop /\ Broadcast("unsubscribe", x, FALSE)
       \/ call.drop = {} /\ x \in call.add /\ Broadcast("subscribe", x, FALSE)
    /\ UNCHANGED <<wanted, lines, replaced>>

LoopEnds ==
    /\ call.at = "loop" /\ call.drop = {} /\ call.add = {}
    /\ watch' = ToSet(call.list)
    /\ call' = [call EXCEPT !.at = "show"]
    /\ UNCHANGED <<held, streamed, explicit, socket, tickers, lines, replaced>>

\* subscribe_symbol of the analysis page
Show ==
    /\ call.at = "show"
    /\ IF socket /\ call.shown # {}
       THEN \E x \in call.shown : /\ explicit' = explicit \cup {x}
                                  /\ Broadcast("subscribe", x, TRUE)
       ELSE call' = Idle /\ UNCHANGED <<explicit, tickers>>
    /\ UNCHANGED <<held, streamed, watch, socket, lines, replaced>>

-----------------------------------------------------------------------------
\* Variant: a connection that is registering again is not written to.
SendsWhenUp(c) == line[c] = "up"

\* _send_subscription: without a connection nothing is sent.
Sends(c) == line[c] # "down"

\* subscribe_ticker, unsubscribe_ticker of one client
Cast(c) ==
    /\ call.at = "cast" /\ c \in call.left
    /\ LET x == call.symbol
           new == x \notin subs[c]
       IN  IF call.op = "subscribe"
           THEN /\ subs' = [subs EXCEPT ![c] = @ \cup {x}]
                /\ server' = [server EXCEPT ![c] = IF new /\ Sends(c) THEN @ \cup {x} ELSE @]
           ELSE /\ subs' = [subs EXCEPT ![c] = @ \ {x}]
                /\ server' = [server EXCEPT ![c] = IF Sends(c) THEN @ \ {x} ELSE @]
    /\ call' = IF call.left # {c} THEN [call EXCEPT !.left = @ \ {c}]
               ELSE IF call.last THEN Idle
               ELSE [call EXCEPT !.at = "loop", !.op = "none", !.symbol = "none", !.left = {}]
    /\ UNCHANGED <<wanted, tickers, line, again, replaced>>

\* _run_forever: connected, and _resubscribe_all takes its copy of the set ...
Connect(c) ==
    /\ socket /\ line[c] = "down"
    /\ line' = [line EXCEPT ![c] = "again"]
    /\ again' = [again EXCEPT ![c] = subs[c]]
    /\ UNCHANGED <<wanted, tickers, subs, server, call, replaced>>

\* ... which it registers one by one, with a pause after each.
Again(c, x) ==
    /\ line[c] = "again" /\ x \in again[c]
    /\ again' = [again EXCEPT ![c] = @ \ {x}]
    /\ server' = [server EXCEPT ![c] = @ \cup {x}]
    /\ UNCHANGED <<wanted, tickers, subs, line, call, replaced>>

AgainEnds(c) ==
    /\ line[c] = "again" /\ again[c] = {}
    /\ line' = [line EXCEPT ![c] = "up"]
    /\ UNCHANGED <<wanted, tickers, subs, again, server, call, replaced>>

\* The connection is lost, or closed after a silence.
Lost(c) ==
    /\ line[c] # "down"
    /\ line' = [line EXCEPT ![c] = "down"]
    /\ again' = [again EXCEPT ![c] = {}]
    /\ server' = [server EXCEPT ![c] = {}]
    /\ UNCHANGED <<wanted, tickers, subs, call, replaced>>

\* _check_health of a client that is silent or whose task has died: it is
\* stopped and started, and told every symbol before it can be connected.
Revive(c) ==
    /\ socket /\ tickers # {}
    /\ line' = [line EXCEPT ![c] = "down"]
    /\ again' = [again EXCEPT ![c] = {}]
    /\ server' = [server EXCEPT ![c] = {}]
    /\ subs' = [subs EXCEPT ![c] = @ \cup tickers]
    /\ UNCHANGED <<wanted, tickers, call, replaced>>

\* ensure_streaming
SocketComes ==
    /\ ~socket
    /\ socket' = TRUE
    /\ UNCHANGED <<held, streamed, watch, explicit, tickers, lines, call, replaced>>

-----------------------------------------------------------------------------
StreamsInit ==
    /\ held = {} /\ streamed = <<>> /\ watch = {} /\ explicit = {}
    /\ socket = FALSE /\ tickers = {}
    /\ subs = [c \in Clients |-> {}] /\ line = [c \in Clients |-> "down"]
    /\ again = [c \in Clients |-> {}] /\ server = [c \in Clients |-> {}]
    /\ call = Idle /\ replaced = 0

StreamsNext ==
    \/ \E open, others \in SUBSET Symbols, shown \in {{}} \cup {{x} : x \in Symbols} : Submit(open, others, shown)
    \/ Feed \/ LoopEnds \/ Show \/ SocketComes
    \/ \E x \in Symbols : Loop(x)
    \/ \E c \in Clients : \/ Cast(c) \/ Connect(c) \/ AgainEnds(c) \/ Lost(c) \/ Revive(c)
                          \/ \E x \in Symbols : Again(c, x)

StreamsSpec == StreamsInit /\ [][StreamsNext]_streamsVars

-----------------------------------------------------------------------------
(* Properties.                                                             *)

\* Every variable keeps its type.
StreamsTypeOK ==
    /\ held \subseteq Symbols /\ watch \subseteq Symbols /\ explicit \subseteq Symbols
    /\ ToSet(streamed) \subseteq Symbols /\ Len(streamed) <= MaxStreamed
    /\ socket \in BOOLEAN /\ tickers \subseteq Symbols
    /\ line \in [Clients -> {"down", "again", "up"}]
    /\ \A f \in {subs, again, server} : f \in [Clients -> SUBSET Symbols]
    /\ replaced \in 0..MaxReplace
    /\ call.at \in {"idle", "feed", "loop", "cast", "show"} /\ call.left \subseteq Clients

\* When there is a web socket and no call is under way, every symbol the feed was
\* told to stream, and every symbol the user opened, is subscribed at the
\* redundant stream: without its ticks the ladder and the watch of an opportunity
\* are blind (_stream_symbols).
WantedIsSubscribed == socket /\ ~Under => ToSet(streamed) \cup explicit \subseteq tickers

\* As long as no call was replaced, nothing else is subscribed, and both clients
\* agree with the stream, whatever connections were lost and clients revived
\* during the calls.
ClientsAgree ==
    ~Under /\ replaced = 0 => /\ tickers = watch \cup explicit
              /\ \A c \in Clients : subs[c] = tickers

\* A client whose connection is up receives every symbol of its set: no
\* subscription falls between the copy that _resubscribe_all works on and the
\* calls that change the set meanwhile.
UpIsServed == \A c \in Clients : line[c] = "up" => subs[c] \subseteq server[c]
=============================================================================
