----------------------------- MODULE MarketData -----------------------------
(***************************************************************************)
(* The candles of one symbol in the market data engine: the cache, the one *)
(* request that all callers share, the stored candles for the time without *)
(* a connection, and the live candle of the two web sockets that is merged *)
(* into every answer.                                                      *)
(*                                                                         *)
(* The series at the exchange is known by its version: version v shows the *)
(* candles up to number v div 2, and the last of them is closed when v is  *)
(* odd.                                                                    *)
(***************************************************************************)
EXTENDS Integers, FiniteSets

CONSTANTS
    Callers,
    Bulk,        \* the callers that scan the whole market (is_bulk_fetch)
    Conns,       \* the connections of the redundant stream
    MaxVersion   \* bound on the versions of the series

\* What the constants must satisfy.
MarketAssumption ==
    /\ Bulk \subseteq Callers
    /\ MaxVersion \in Nat

VARIABLES
    exchange,  \* the version at the exchange
    calls,     \* the requests to the exchange
    inflight,  \* the request that callers join, or 0
    waits,     \* the request each caller waits for, or 0
    cache, stored,   \* the version in the cache and in the database, or None
    at,        \* the version each connection delivered last
    live,      \* the live candle, by the version it was delivered at, or None
    answer,    \* what each caller was told last
    overtaken  \* did a live candle overtake an answer on its way?

marketVars == <<exchange, calls, inflight, waits, cache, stored, at, live, answer, overtaken>>

-----------------------------------------------------------------------------
None      == -1
CallIds   == 1..2
Versions  == 0..MaxVersion
CandleOf(v) == v \div 2

NoCall   == [at |-> "none", version |-> None, bulk |-> FALSE]
NoAnswer == [base |-> None, live |-> None, offline |-> FALSE]

\* The number of the last candle of an answer.
LastCandle(a) == IF a.live # None /\ CandleOf(a.live) > CandleOf(a.base) THEN CandleOf(a.live) ELSE CandleOf(a.base)

\* _merge_live_candle; a stored answer is not merged.
Merge(v) == [base |-> v, live |-> live, offline |-> FALSE]
FromStore == [base |-> stored, live |-> None, offline |-> TRUE]

Waiting(i) == {c \in Callers : waits[c] = i}

-----------------------------------------------------------------------------
\* get_candles: from the cache, or from the request under way, or from a new one.
FromCache(c) ==
    /\ waits[c] = 0 /\ cache # None
    /\ answer' = [answer EXCEPT ![c] = Merge(cache)]
    /\ UNCHANGED <<exchange, calls, inflight, waits, cache, stored, at, live, overtaken>>

\* _deduplicated; nobody asks with force_refresh.
Joins(c) ==
    /\ waits[c] = 0 /\ cache = None /\ inflight # 0
    /\ waits' = [waits EXCEPT ![c] = inflight]
    /\ UNCHANGED <<exchange, calls, inflight, cache, stored, at, live, answer, overtaken>>

Starts(c, i) ==
    /\ waits[c] = 0 /\ cache = None /\ inflight = 0
    /\ calls[i] = NoCall /\ \A j \in CallIds : j < i => calls[j] # NoCall
    /\ inflight' = i
    /\ waits' = [waits EXCEPT ![c] = i]
    /\ calls' = [calls EXCEPT ![i] = [at |-> "sent", version |-> None, bulk |-> c \in Bulk]]
    /\ UNCHANGED <<exchange, cache, stored, at, live, answer, overtaken>>

\* The exchange answers with its series.
Responds(i) ==
    /\ calls[i].at = "sent"
    /\ calls' = [calls EXCEPT ![i] = [at |-> "back", version |-> exchange, bulk |-> calls[i].bulk]]
    /\ UNCHANGED <<exchange, inflight, waits, cache, stored, at, live, answer, overtaken>>

\* The request is over: it is no longer joined.
Over(i) ==
    /\ calls' = [calls EXCEPT ![i] = NoCall]
    /\ inflight' = IF inflight = i THEN 0 ELSE inflight
    /\ waits' = [c \in Callers |-> IF waits[c] = i THEN 0 ELSE waits[c]]

\* _fetch: a scan of the whole market writes neither the cache nor the database.
Returns(i) ==
    /\ calls[i].at = "back"
    /\ Over(i)
    /\ LET v == calls[i].version
       IN  /\ IF calls[i].bulk THEN UNCHANGED <<cache, stored>> ELSE cache' = v /\ stored' = v
           /\ answer' = [c \in Callers |-> IF c \in Waiting(i) THEN Merge(v) ELSE answer[c]]
    /\ UNCHANGED <<exchange, at, live, overtaken>>

\* A failure, or the pause that the exchange asked for: the stored candles.
Fails(i) ==
    /\ calls[i].at # "none"
    /\ Over(i)
    /\ answer' = [c \in Callers |-> IF c \in Waiting(i) /\ stored # None THEN FromStore ELSE answer[c]]
    /\ UNCHANGED <<exchange, cache, stored, at, live, overtaken>>

\* Variant: the caller that gives up takes the request with it.
GivesUpAndForgets(c) ==
    /\ waits[c] # 0
    /\ inflight' = 0
    /\ waits' = [waits EXCEPT ![c] = 0]
    /\ UNCHANGED <<exchange, calls, cache, stored, at, live, answer, overtaken>>

\* A caller times out; the request goes on for the others (shield).
GivesUp(c) ==
    /\ waits[c] # 0
    /\ waits' = [waits EXCEPT ![c] = 0]
    /\ UNCHANGED <<exchange, calls, inflight, cache, stored, at, live, answer, overtaken>>

-----------------------------------------------------------------------------
\* _accept: a candle older than the last one is not passed on.
Accepts(v) == live = None \/ CandleOf(v) >= CandleOf(live)

\* Variant: the cache is left to expire.
TakesLiveOnly(v) == live' = v /\ UNCHANGED cache

\* _handle_live_candle: the cache of the symbol is invalidated.
TakesLive(v) == live' = v /\ cache' = None

\* A candle of the web socket; the same one within a quarter of a second is not
\* passed on again.
LiveCandle(k, v) ==
    /\ overtaken' = (overtaken \/ \E i \in CallIds : calls[i].at = "back")
    /\ at[k] < v /\ v <= exchange
    /\ at' = [at EXCEPT ![k] = v]
    /\ \/ Accepts(v) /\ TakesLive(v)
       \/ (~Accepts(v) \/ v = live) /\ UNCHANGED <<live, cache>>
    /\ UNCHANGED <<exchange, calls, inflight, waits, stored, answer>>

Expires ==
    /\ cache # None
    /\ cache' = None
    /\ UNCHANGED <<exchange, calls, inflight, waits, stored, at, live, answer, overtaken>>

ExchangeMoves ==
    /\ exchange < MaxVersion
    /\ exchange' = exchange + 1
    /\ UNCHANGED <<calls, inflight, waits, cache, stored, at, live, answer, overtaken>>

MarketInit ==
    /\ exchange = 0
    /\ calls = [i \in CallIds |-> NoCall] /\ inflight = 0
    /\ waits = [c \in Callers |-> 0]
    /\ cache = None /\ stored = None
    /\ at = [k \in Conns |-> None] /\ live = None
    /\ answer = [c \in Callers |-> NoAnswer]
    /\ overtaken = FALSE

MarketNext ==
    \/ \E c \in Callers : \/ FromCache(c) \/ Joins(c) \/ GivesUp(c)
                          \/ \E i \in CallIds : Starts(c, i)
    \/ \E i \in CallIds : Responds(i) \/ Returns(i) \/ Fails(i)
    \/ \E k \in Conns, v \in Versions : LiveCandle(k, v)
    \/ Expires \/ ExchangeMoves

MarketSpec == MarketInit /\ [][MarketNext]_marketVars

-----------------------------------------------------------------------------
(* Properties.                                                             *)

\* Every variable keeps its type.
MarketTypeOK ==
    /\ exchange \in Versions
    /\ calls \in [CallIds -> [at : {"none", "sent", "back"}, version : Versions \cup {None}, bulk : BOOLEAN]]
    /\ inflight \in CallIds \cup {0} /\ waits \in [Callers -> CallIds \cup {0}]
    /\ {cache, stored, live} \subseteq Versions \cup {None}
    /\ at \in [Conns -> Versions \cup {None}]
    /\ answer \in [Callers -> [base : Versions \cup {None}, live : Versions \cup {None}, offline : BOOLEAN]]
    /\ overtaken \in BOOLEAN

\* However callers time out, requests fail and two connections race, a caller is
\* never shown a series that ends before the one it was shown earlier, unless it
\* is the stored one (_deduplicated, _accept, _merge_live_candle).
AnswersAdvance ==
    [][\A c \in Callers : answer'[c] # answer[c] /\ ~answer'[c].offline
            => LastCandle(answer'[c]) >= LastCandle(answer[c])]_marketVars

\* As long as no live candle overtakes an answer on its way, the series of an
\* answer already shows the state of the last candle that is merged into it, and
\* so the closed form of every candle before it: the next indicator is computed
\* with fresh data (_handle_live_candle invalidates the cache).
SeriesReachesLive == ~overtaken => \A c \in Callers : answer[c].live <= answer[c].base
=============================================================================
