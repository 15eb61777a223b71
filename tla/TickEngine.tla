----------------------------- MODULE TickEngine -----------------------------
(***************************************************************************)
(* The price of one symbol in the tick engine.  Every tick carries three   *)
(* times: the exchange's, corrected by the estimated difference of the two *)
(* clocks, that of its reception and that of its processing.  A tick older *)
(* than the quote or too far in the future is refused; a quote is stale    *)
(* when the oldest of its times is.                                        *)
(*                                                                         *)
(* Time is counted in units; a tick is known by the true time at which the *)
(* exchange made it.  Ticks come late, twice and in any order.  The local  *)
(* wall clock is ahead of the exchange by a skew, which changes when the   *)
(* user or the system sets the clock.                                      *)
(***************************************************************************)
EXTENDS Integers, Sequences, FiniteSets, SequencesExt

CONSTANTS
    MaxTime,        \* bound: the last true time
    MaxLate,        \* bound: how late a tick or a batch may arrive
    Skews,          \* how far the local clock may be ahead
    MaxClockSteps,  \* bound: how often the local clock is set
    Samples,        \* clock samples kept (CLOCK_SAMPLES)
    Tolerance,      \* a smaller offset counts as none (CLOCK_SKEW_TOLERANCE_MS)
    MaxAhead,       \* a tick further in the future is refused
    StaleAfter,     \* age of a stale quote
    BookLife,       \* age of a stale book
    MaxBookAge,     \* an older book snapshot is refused (MAX_BOOK_SNAPSHOT_AGE_MS)
    StreamStamps    \* do the ticks of the web socket carry the exchange's time?

\* What the constants must satisfy.
TickAssumption ==
    /\ {MaxTime, MaxLate, MaxClockSteps, Tolerance, MaxAhead, StaleAfter, BookLife, MaxBookAge} \subseteq Nat
    /\ Samples \in Nat \ {0}
    /\ Skews \subseteq Int /\ Skews # {}
    /\ StreamStamps \subseteq BOOLEAN

VARIABLES
    now,      \* the true time, which is the exchange's
    skew,     \* local clock minus exchange clock
    steps,    \* how often the local clock was set
    samples,  \* the last observed differences
    offset,   \* the difference that is applied
    quote     \* the quote, or NoQuote

tickVars == <<now, skew, steps, samples, offset, quote>>

-----------------------------------------------------------------------------
NoQuote == [made |-> -1]
Local   == now + skew

\* "stamped" says whether the exchange's time is known; "exchange" is that time,
\* or the time of processing in its place, as is_stale takes it.  "made",
\* "arrived" and "bookArrived" are true times; the program sees only "exchange",
\* "received", "processed" and "book".
Quote == [made : 0..MaxTime, arrived : 0..MaxTime, stamped : BOOLEAN, exchange : Int, received : Int,
          processed : Int, book : Int, hasBook : BOOLEAN, bookArrived : Int]

Later(a, b) == IF a > b THEN a ELSE b
Recent      == Later(0, now - MaxLate)..now

\* The sample in the middle: at most half of them are below it, and more than half
\* are not above it.
Median(s) ==
    LET half == Len(s) \div 2
    IN  CHOOSE x \in ToSet(s) : /\ Cardinality({i \in DOMAIN s : s[i] < x}) <= half
                                /\ Cardinality({i \in DOMAIN s : s[i] <= x}) > half

Kept(s)   == IF Len(s) > Samples THEN Tail(s) ELSE s
Applied(m) == IF m >= Tolerance \/ -m >= Tolerance THEN m ELSE 0

BookFresh == quote.hasBook /\ Local - quote.book <= BookLife

\* Variant: only the exchange's corrected time is looked at.
StaleByExchange == quote = NoQuote \/ Local - quote.exchange > StaleAfter

\* is_stale: the oldest of the three times counts.
Stale ==
    \/ quote = NoQuote
    \/ \E t \in {quote.processed, quote.received, quote.exchange} : Local - t > StaleAfter

-----------------------------------------------------------------------------
\* Variant: ticks are taken in the order in which they come.
AcceptInAnyOrder(stamped, exchange) == exchange <= Local + MaxAhead

Accept(stamped, exchange) ==
    /\ exchange <= Local + MaxAhead
    /\ quote # NoQuote /\ quote.stamped /\ stamped => exchange >= quote.exchange

\* Variant: a book carried over by a tick is as new as the tick.
CarriedBookRenewed ==
    IF quote # NoQuote /\ BookFresh THEN <<TRUE, Local, quote.bookArrived>> ELSE <<FALSE, 0, 0>>

\* A ticker frame has no book; a book that is still fresh is carried over.
CarriedBook ==
    IF quote # NoQuote /\ BookFresh THEN <<TRUE, quote.book, quote.bookArrived>> ELSE <<FALSE, 0, 0>>

\* record
Record(made, stamped, received) ==
    LET exchange == IF stamped THEN made + offset' ELSE Local
        book == CarriedBook
    IN  IF Accept(stamped, exchange)
        THEN quote' = [made |-> made, arrived |-> now, stamped |-> stamped, exchange |-> exchange,
                       received |-> received, processed |-> Local,
                       hasBook |-> book[1], book |-> book[2], bookArrived |-> book[3]]
        ELSE UNCHANGED quote

\* A tick of the web socket.
StreamTick(made, stamped) ==
    /\ made \in Recent
    /\ UNCHANGED <<now, skew, steps, samples, offset>>
    /\ Record(made, stamped, Local)

\* A batch of the poll: its freshest tick is a sample of the clock, unless the
\* batch is small or the sample absurd, and then the ticks of the batch are
\* recorded, each with its own, older time.
PollBatch(freshest, made, received) ==
    /\ freshest \in Recent /\ made \in Recent /\ made <= freshest
    /\ received \in freshest..now
    /\ \/ /\ samples' = Kept(Append(samples, received + skew - freshest))
          /\ offset' = Applied(Median(samples'))
       \/ UNCHANGED <<samples, offset>>
    /\ UNCHANGED <<now, skew, steps>>
    /\ Record(made, TRUE, received + skew)

\* record_book: a fetched order book; a snapshot that is too old is refused.
RecordBook(made) ==
    /\ made \in Recent /\ quote # NoQuote
    /\ Local - (made + offset) <= MaxBookAge
    /\ quote' = [quote EXCEPT !.hasBook = TRUE, !.book = Local, !.bookArrived = now]
    /\ UNCHANGED <<now, skew, steps, samples, offset>>

\* clear, on a switch of the exchange
Clear ==
    /\ quote # NoQuote
    /\ quote' = NoQuote
    /\ UNCHANGED <<now, skew, steps, samples, offset>>

TimePasses ==
    /\ now < MaxTime
    /\ now' = now + 1
    /\ UNCHANGED <<skew, steps, samples, offset, quote>>

ClockIsSet ==
    /\ steps < MaxClockSteps
    /\ steps' = steps + 1
    /\ skew' \in Skews \ {skew}
    /\ UNCHANGED <<now, samples, offset, quote>>

TickInit ==
    /\ now = 0 /\ skew \in Skews /\ steps = 0
    /\ samples = <<>> /\ offset = 0 /\ quote = NoQuote

TickNext ==
    \/ \E made \in 0..MaxTime : \/ \E stamped \in StreamStamps : StreamTick(made, stamped)
                               \/ RecordBook(made)
    \/ \E freshest, made, received \in 0..MaxTime : PollBatch(freshest, made, received)
    \/ Clear \/ TimePasses \/ ClockIsSet

TickSpec == TickInit /\ [][TickNext]_tickVars

-----------------------------------------------------------------------------
(* Properties.                                                             *)

\* Every variable keeps its type.
TickTypeOK ==
    /\ now \in 0..MaxTime /\ skew \in Skews /\ steps \in 0..MaxClockSteps
    /\ samples \in Seq(Int) /\ Len(samples) <= Samples
    /\ offset \in Int
    /\ quote = NoQuote \/ quote \in Quote

\* As long as the local clock is not set, a quote that is not stale really arrived
\* lately, however far the two clocks are apart and however wrong the offset is:
\* nobody trades on an old number (is_stale).
FreshMeansRecent == steps = 0 /\ ~Stale => now - quote.arrived <= StaleAfter

\* Likewise a book counts as fresh only for its own life: a tick that carries it
\* over never makes it younger (record, exit_price).
BookAges == steps = 0 /\ quote # NoQuote /\ BookFresh => now - quote.bookArrived <= BookLife

\* While the clocks agree, a tick of a known time never takes the price back to
\* an older one, however late and in whatever order the two sources deliver.
NeverGoesBack ==
    [][(/\ offset = 0 /\ offset' = 0 /\ NoQuote \notin {quote, quote'}
        /\ quote.stamped /\ quote'.stamped /\ quote.exchange = quote.made)
         => quote'.made >= quote.made]_tickVars
=============================================================================
